------------------------------- MODULE MCLanes -------------------------------
(***************************************************************************)
(* A work lane and what it owes its parent and its pull request, one       *)
(* instance at a time: two attempts on a session; one attempt over two     *)
(* sessions; one through crashes and broker generations; one under a       *)
(* router that re-indexes its hosts; the inbox of a parent lane with two   *)
(* reports, by attempts and by claims; one report through crashes, also    *)
(* past an attempt row that cannot be read; two checks cycles of two       *)
(* retries; and the start of a lane by two calls, and of two lanes for one *)
(* seat.                                                                   *)
(***************************************************************************)
EXTENDS Naturals, WorkLane, WorkChecks, LaneStart

(* No lane is being started, beside the component that runs. *)
Unstarted == StartInit /\ foreign = {}

VARIABLES
  part,  (* the instance that runs *)
  job2, att2, bound2, told2, host2, reindex2, prompt2, word2, busy2, up2,
  gen2, crashes2, obs2, lock2, st2, tk2, rc2, rep, quar, srec, took, want,
  dr

others == <<job2, att2, bound2, told2, host2, reindex2, prompt2, word2,
            busy2, up2, gen2, crashes2, obs2, lock2, st2, tk2, rc2, rep,
            quar, srec, took, want, dr>>
all == <<part, vars, checks, starting, others>>

Rebound == INSTANCE WorkLane WITH
  MaxAttempts <- 1, MaxSessions <- 2, MaxGen <- 0, MaxCrashes <- 0,
  MaxReads <- 1, Reindexing <- FALSE
Faults == INSTANCE WorkLane WITH
  MaxAttempts <- 1, MaxSessions <- 1, MaxGen <- 2, MaxCrashes <- 2,
  MaxReads <- 2, Reindexing <- FALSE
Reindex == INSTANCE WorkLane WITH
  MaxAttempts <- 1, MaxSessions <- 1, MaxGen <- 1, MaxCrashes <- 1,
  MaxReads <- 1, Reindexing <- TRUE, job <- job2, att <- att2,
  bound <- bound2, told <- told2, host <- host2, reindex <- reindex2,
  prompt <- prompt2, word <- word2, busy <- busy2, up <- up2, gen <- gen2,
  crashes <- crashes2, obs <- obs2, lock <- lock2, st <- st2, tk <- tk2,
  rc <- rc2
Reports == INSTANCE LaneReports WITH
  MaxReports <- 2, Rooted <- {1}, MaxAttempts <- 2, MaxClaims <- 1,
  MaxCrashes <- 0, Unreadable <- FALSE, job <- job2, att <- att2,
  told <- told2, host <- host2, up <- up2, crashes <- crashes2
Handed == INSTANCE LaneReports WITH
  MaxReports <- 2, Rooted <- {1}, MaxAttempts <- 1, MaxClaims <- 2,
  MaxCrashes <- 1, Unreadable <- FALSE, job <- job2, att <- att2,
  told <- told2, host <- host2, up <- up2, crashes <- crashes2
Crashed == INSTANCE LaneReports WITH
  MaxReports <- 1, Rooted <- {1}, MaxAttempts <- 2, MaxClaims <- 3,
  MaxCrashes <- 2, Unreadable <- FALSE, job <- job2, att <- att2,
  told <- told2, host <- host2, up <- up2, crashes <- crashes2
Unread == INSTANCE LaneReports WITH
  MaxReports <- 1, Rooted <- {1}, MaxAttempts <- 2, MaxClaims <- 2,
  MaxCrashes <- 1, Unreadable <- TRUE, job <- job2, att <- att2,
  told <- told2, host <- host2, up <- up2, crashes <- crashes2
Begins == INSTANCE LaneStart WITH
  Name <- {1, 2}, Call <- {1, 2}, Cap <- 1, MaxFaults <- 1, MaxCrash <- 0

(* The variables that are no component's own, at rest. *)
Still == job2 = 0 /\ att2 = 0 /\ bound2 = 0 /\ told2 = 0 /\ host2 = 0 /\
         reindex2 = 0 /\ prompt2 = 0 /\ word2 = 0 /\ busy2 = 0 /\
         up2 = 0 /\ gen2 = 0 /\ crashes2 = 0 /\ obs2 = 0 /\ lock2 = 0 /\
         st2 = 0 /\ tk2 = 0 /\ rc2 = 0 /\ rep = 0 /\ quar = 0 /\
         srec = 0 /\ took = 0 /\ want = 0 /\ dr = 0

LanesInit ==
  \/ part = "attempts" /\ Init /\ ChecksInit /\ Unstarted /\ Still
  \/ part = "cycles" /\ ChecksInit /\ Init /\ Unstarted /\ Still
  \/ part = "start" /\ StartInit /\ Init /\ ChecksInit /\ Still
  \/ part = "rebound" /\ Rebound!Init /\ ChecksInit /\ Unstarted /\ Still
  \/ part = "faults" /\ Faults!Init /\ ChecksInit /\ Unstarted /\ Still
  \/ /\ part = "reindex" /\ Reindex!Init /\ Init /\ ChecksInit /\ Unstarted
     /\ rep = 0 /\ quar = 0 /\ srec = 0 /\ took = 0 /\ want = 0 /\ dr = 0
  \/ /\ part = "reports" /\ Reports!Init /\ Init /\ ChecksInit /\ Unstarted
     /\ bound2 = 0 /\ reindex2 = 0 /\ prompt2 = 0 /\ word2 = 0 /\
        busy2 = 0 /\ gen2 = 0 /\ obs2 = 0 /\ lock2 = 0 /\ st2 = 0 /\
        tk2 = 0 /\ rc2 = 0
  \/ /\ part = "handed" /\ Handed!Init /\ Init /\ ChecksInit /\ Unstarted
     /\ bound2 = 0 /\ reindex2 = 0 /\ prompt2 = 0 /\ word2 = 0 /\
        busy2 = 0 /\ gen2 = 0 /\ obs2 = 0 /\ lock2 = 0 /\ st2 = 0 /\
        tk2 = 0 /\ rc2 = 0
  \/ /\ part = "crashed" /\ Crashed!Init /\ Init /\ ChecksInit /\ Unstarted
     /\ bound2 = 0 /\ reindex2 = 0 /\ prompt2 = 0 /\ word2 = 0 /\
        busy2 = 0 /\ gen2 = 0 /\ obs2 = 0 /\ lock2 = 0 /\ st2 = 0 /\
        tk2 = 0 /\ rc2 = 0
  \/ /\ part = "unread" /\ Unread!Init /\ Init /\ ChecksInit /\ Unstarted
     /\ bound2 = 0 /\ reindex2 = 0 /\ prompt2 = 0 /\ word2 = 0 /\
        busy2 = 0 /\ gen2 = 0 /\ obs2 = 0 /\ lock2 = 0 /\ st2 = 0 /\
        tk2 = 0 /\ rc2 = 0
  \/ part = "starts" /\ Begins!StartInit /\ Init /\ ChecksInit /\ Still

AttemptsRuns == part = "attempts" /\ UNCHANGED <<part, others, checks, starting>>
CyclesRuns == part = "cycles" /\ UNCHANGED <<part, others, vars, starting>>
StartRuns == part = "start" /\ UNCHANGED <<part, others, vars, checks>>
ReboundRuns == part = "rebound" /\ UNCHANGED <<part, others, checks, starting>>
FaultsRuns == part = "faults" /\ UNCHANGED <<part, others, checks, starting>>
ReindexRuns ==
  part = "reindex" /\ UNCHANGED <<part, vars, checks, starting, rep, quar, srec, took, want, dr>>
ReportsRuns ==
  part = "reports" /\ UNCHANGED <<part, vars, checks, starting, bound2, reindex2, prompt2, word2,
      busy2, gen2, obs2, lock2, st2, tk2, rc2>>
HandedRuns ==
  part = "handed" /\ UNCHANGED <<part, vars, checks, starting, bound2, reindex2, prompt2, word2,
      busy2, gen2, obs2, lock2, st2, tk2, rc2>>
CrashedRuns ==
  part = "crashed" /\ UNCHANGED <<part, vars, checks, starting, bound2, reindex2, prompt2, word2,
      busy2, gen2, obs2, lock2, st2, tk2, rc2>>
UnreadRuns ==
  part = "unread" /\ UNCHANGED <<part, vars, checks, starting, bound2, reindex2, prompt2, word2,
      busy2, gen2, obs2, lock2, st2, tk2, rc2>>
BeginsRuns == part = "starts" /\ UNCHANGED <<part, others, vars, checks>>

LanesNext ==
  \/ AttemptsRuns /\ Next
  \/ CyclesRuns /\ ChecksNext
  \/ StartRuns /\ StartNext
  \/ ReboundRuns /\ Rebound!Next
  \/ FaultsRuns /\ Faults!Next
  \/ ReindexRuns /\ Reindex!Next
  \/ ReportsRuns /\ Reports!Next
  \/ HandedRuns /\ Handed!Next
  \/ CrashedRuns /\ Crashed!Next
  \/ UnreadRuns /\ Unread!Next
  \/ BeginsRuns /\ Begins!StartNext

LanesSpec == LanesInit /\ [][LanesNext]_all

ASSUME
  /\ Rebound!WorkLaneAssumption /\ Faults!WorkLaneAssumption /\ Reindex!WorkLaneAssumption
  /\ Reports!LaneReportsAssumption /\ Handed!LaneReportsAssumption
  /\ Crashed!LaneReportsAssumption /\ Unread!LaneReportsAssumption
  /\ Begins!LaneStartAssumption

(* A report is heard once, by the parent or by the human. (With a parent   *)
(* attempt row that cannot be read it may be heard twice: see the README.) *)
(* A row that says consumed was taken by a turn of the parent. Under a      *)
(* router that disowns live hosts, an outcome is still told once.          *)
HeardOnce ==
  /\ part = "reports" => Reports!HeardOnce /\ Reports!ConsumedWasTaken
  /\ part = "handed" => Handed!HeardOnce /\ Handed!ConsumedWasTaken
  /\ part = "crashed" => Crashed!HeardOnce /\ Crashed!ConsumedWasTaken
  /\ part = "unread" => Unread!ConsumedWasTaken
  /\ part = "reindex" => Reindex!ToldOnce
=============================================================================

----------------------------- MODULE LaneStart -----------------------------
(***************************************************************************)
(* How work lanes come to be: work.start admits a call for a new name,     *)
(* builds an isolated bare repository with a worktree, waits for capacity  *)
(* and for the broker to bind a session, records the attempt and sends it; *)
(* work.retire closes the session and takes the worktree down; a standing  *)
(* directive reaches the lanes that run and those about to.  Everything    *)
(* but the admission runs under the lane's lock, and binds also under one  *)
(* admission lock for all lanes.                                           *)
(*                                                                         *)
(* Each git command and each removal may fail, and the gateway may die     *)
(* between any two.  What becomes of the attempt is WorkLane's business.   *)
(***************************************************************************)
EXTENDS Naturals, FiniteSets

CONSTANTS
    Name,        \* lanes, all of them started from a repository
    Call,        \* calls of work.start
    Cap,         \* work.maxLanes
    MaxFaults,   \* bound: commands that fail
    MaxCrash     \* bound: processes that die

ASSUME LaneStartAssumption ==
    /\ Cap \in Nat \ {0} /\ MaxFaults \in Nat /\ MaxCrash \in Nat
    /\ 0 \notin Call   \* the holder of a lock that is free

VARIABLES
    status,        \* the lane's job record
    seated,      \* lanes with a bound session: what the cap counts
    tree, repo, \* the lane's worktree and repository directories
    adm,        \* #admissions
    holder, gate, \* the call that holds the lane's lock; the admission lock
    call,       \* the calls
    standing,   \* whether the directive is stored
    steering,     \* lanes its adder is still steering
    \* what happened, for the properties
    foreign,    \* lanes whose path somebody else's directory occupied
    messy,      \* lanes a crash or a failed cleanup left something behind for
    dropped,    \* lanes the operator retired
    heard,      \* lanes whose open attempt was told the directive
    excused,    \* lanes its adder was told it did not reach
    faults, died

disk == <<tree, repo>>
directives == <<standing, steering, heard, excused>>
past == <<foreign, messy, dropped>>
starting == <<status, seated, disk, adm, holder, gate, call, directives, past, faults, died>>

NoCall == [pc |-> "idle", lane |-> 0, ownsTree |-> FALSE, ownsRepo |-> FALSE, added |-> FALSE,
           made |-> FALSE, saved |-> FALSE, tried |-> FALSE]

StartInit ==
    /\ status = [n \in Name |-> "none"] /\ seated = {}
    /\ foreign \in {{}} \union {{n} : n \in Name}
    /\ tree = [n \in Name |-> IF n \in foreign THEN "foreign" ELSE "none"]
    /\ repo = [n \in Name |-> "none"]
    /\ adm = [n \in Name |-> "none"] /\ holder = [n \in Name |-> 0] /\ gate = 0
    /\ call = [c \in Call |-> NoCall]
    /\ standing = FALSE /\ steering = {} /\ heard = {} /\ excused = {}
    /\ messy = {} /\ dropped = {} /\ faults = 0 /\ died = 0

At(c, pc) == call[c].pc = pc
Lane(c) == call[c].lane
Goto(c, pc) == [call EXCEPT ![c].pc = pc]
Free(n) == holder[n] = 0
Fault == faults < MaxFaults /\ faults' = faults + 1

\* The call returns or throws: the lock is released and the admission settled.
CallEnds(c, failed) ==
    LET n == Lane(c)
    IN  /\ call' = [call EXCEPT ![c] = NoCall]
        /\ holder' = [holder EXCEPT ![n] = 0]
        /\ adm' = [adm EXCEPT ![n] = IF adm[n] # "busy" THEN @
                                     ELSE IF failed /\ status'[n] = "none" THEN "failed" ELSE "none"]

-----------------------------------------------------------------------------
AdmitAnyway(c, n) == TRUE

\* #start: a name with no job has at most one admission under way.
Admits(c, n) == status[n] # "none" \/ adm[n] # "busy"
Begin(c, n) ==
    /\ At(c, "idle") /\ Admits(c, n)
    /\ call' = [call EXCEPT ![c] = [NoCall EXCEPT !.pc = "wait", !.lane = n]]
    /\ adm' = IF status[n] = "none" THEN [adm EXCEPT ![n] = "busy"] ELSE adm
    /\ UNCHANGED <<status, seated, disk, holder, gate, directives, past, faults, died>>

\* #startLocked: an open attempt and a complete lane are refused.
Enter(c) ==
    LET n == Lane(c)
    IN  /\ At(c, "wait") /\ Free(n)
        /\ status' = status
        /\ IF status[n] \in {"open", "done"} THEN CallEnds(c, FALSE)
           ELSE /\ holder' = [holder EXCEPT ![n] = c]
                /\ call' = Goto(c, IF status[n] = "none" THEN "mkdir" ELSE "bind")
                /\ adm' = adm
        /\ UNCHANGED <<seated, disk, gate, directives, past, faults, died>>

\* createWorktreeFromRepo: the two directories, the clone, the worktree.  A
\* directory that is there is somebody else's.
MakeTree(c) ==
    LET n == Lane(c)
    IN  /\ At(c, "mkdir")
        /\ IF tree[n] # "none" THEN tree' = tree /\ call' = Goto(c, "clean")
           ELSE /\ tree' = [tree EXCEPT ![n] = "dir"]
                /\ call' = [call EXCEPT ![c].pc = "mkrepo", ![c].ownsTree = TRUE]
        /\ UNCHANGED <<status, seated, repo, adm, holder, gate, directives, past, faults, died>>
MakeRepo(c) ==
    LET n == Lane(c)
    IN  /\ At(c, "mkrepo")
        /\ IF repo[n] # "none" THEN repo' = repo /\ call' = Goto(c, "clean")
           ELSE /\ repo' = [repo EXCEPT ![n] = "dir"]
                /\ call' = [call EXCEPT ![c].pc = "clone", ![c].ownsRepo = TRUE]
        /\ UNCHANGED <<status, seated, tree, adm, holder, gate, directives, past, faults, died>>
Clone(c) ==
    /\ At(c, "clone")
    /\ repo' = [repo EXCEPT ![Lane(c)] = "clone"]
    /\ call' = Goto(c, "add")
    /\ UNCHANGED <<status, seated, tree, adm, holder, gate, directives, past, faults, died>>
AddTree(c) ==
    /\ At(c, "add")
    /\ tree' = [tree EXCEPT ![Lane(c)] = "linked"]
    /\ call' = [call EXCEPT ![c].pc = "bind", ![c].added = TRUE, ![c].made = TRUE]
    /\ UNCHANGED <<status, seated, repo, adm, holder, gate, directives, past, faults, died>>

\* Any of these commands may fail, git worktree add after it has linked the tree.
GitFails(c, linked) ==
    /\ Fault
    /\ \/ call[c].pc \in {"mkrepo", "clone"} /\ ~linked /\ tree' = tree
       \/ /\ At(c, "add")
          /\ tree' = IF linked THEN [tree EXCEPT ![Lane(c)] = "linked"] ELSE tree
    /\ call' = [call EXCEPT ![c].pc = "clean", ![c].added = At(c, "add")]
    /\ UNCHANGED <<status, seated, repo, adm, holder, gate, directives, past, died>>

RemovesAlways(c, gone) == call[c].ownsRepo
\* The partial creation is taken down: the repository stays while the worktree
\* may still be registered in it.
RemovesRepo(c, gone) == call[c].ownsRepo /\ gone
Clean(c, gone, cleared) ==
    LET n == Lane(c)
        left == (call[c].ownsTree /\ ~gone) \/ (RemovesRepo(c, gone) /\ ~cleared)
    IN  /\ At(c, "clean")
        /\ IF gone /\ cleared THEN faults' = faults ELSE Fault
        /\ tree' = IF call[c].ownsTree /\ gone THEN [tree EXCEPT ![n] = "none"] ELSE tree
        /\ repo' = IF RemovesRepo(c, gone) /\ cleared THEN [repo EXCEPT ![n] = "none"] ELSE repo
        /\ messy' = IF left THEN messy \union {n} ELSE messy
        /\ status' = status
        /\ CallEnds(c, TRUE)
        /\ UNCHANGED <<seated, gate, directives, foreign, dropped, died>>

-----------------------------------------------------------------------------
\* Admission to the cap, under the lock of all lanes: the job is recorded before
\* the session that will refer to its worktree.
HasRoom(n) == n \in seated \/ Cardinality(seated) < Cap
BindTry(c) ==
    LET n == Lane(c)
    IN  /\ At(c, "bind") /\ gate = 0 /\ HasRoom(n)
        /\ gate' = c
        /\ status' = IF call[c].made /\ ~call[c].saved THEN [status EXCEPT ![n] = "idle"] ELSE status
        /\ call' = [call EXCEPT ![c].pc = "binding", ![c].saved = TRUE, ![c].tried = TRUE]
        /\ UNCHANGED <<seated, disk, adm, holder, directives, past, faults, died>>
BindDone(c) ==
    /\ At(c, "binding")
    /\ seated' = seated \union {Lane(c)} /\ gate' = 0
    /\ call' = Goto(c, "prepare")
    /\ UNCHANGED <<status, disk, adm, holder, directives, past, faults, died>>

\* An unavailable broker is tried again, each time for capacity as well.
BindAgain(c) ==
    /\ At(c, "binding") /\ Fault
    /\ gate' = 0 /\ call' = Goto(c, "bind")
    /\ UNCHANGED <<status, seated, disk, adm, holder, directives, past, died>>

UndoesLast(c) == call[c].made /\ At(c, "bind")
\* A worktree no session can refer to is discarded; any other is kept.
Undoes(c) == call[c].made /\ ~call[c].tried
StartFails(c) ==
    /\ \/ At(c, "bind") /\ gate = 0 /\ ~HasRoom(Lane(c)) /\ faults' = faults /\ gate' = gate
       \/ At(c, "binding") /\ Fault /\ gate' = 0
       \/ At(c, "bind") /\ call[c].tried /\ Fault /\ gate' = gate
    /\ IF Undoes(c)
       THEN call' = Goto(c, "undo") /\ UNCHANGED <<status, holder, adm>>
       ELSE status' = status /\ CallEnds(c, TRUE)
    /\ UNCHANGED <<seated, disk, directives, past, died>>

\* discardCreatedWorktree: the repository goes only after the worktree.
Undo(c, gone, cleared) ==
    LET n == Lane(c)
    IN  /\ At(c, "undo") /\ (cleared => gone)
        /\ IF gone /\ cleared THEN faults' = faults ELSE Fault
        /\ tree' = IF gone THEN [tree EXCEPT ![n] = "none"] ELSE tree
        /\ repo' = IF cleared THEN [repo EXCEPT ![n] = "none"] ELSE repo
        /\ messy' = IF cleared THEN messy ELSE messy \union {n}
        /\ status' = status
        /\ CallEnds(c, TRUE)
        /\ UNCHANGED <<seated, gate, directives, foreign, dropped, died>>

-----------------------------------------------------------------------------
PrepareAttempt(c) ==
    LET n == Lane(c)
    IN  /\ At(c, "prepare")
        /\ status' = [status EXCEPT ![n] = "open"]
        /\ call' = Goto(c, "send")
        /\ heard' = heard \ {n} /\ excused' = excused \ {n}
        /\ UNCHANGED <<seated, disk, adm, holder, gate, standing, steering, past, faults, died>>

\* The prompt carries the directives that stand when it is sent; a send that is
\* refused ends the attempt.
Send(c, refused) ==
    LET n == Lane(c)
    IN  /\ At(c, "send")
        /\ IF refused THEN Fault ELSE faults' = faults
        /\ heard' = IF standing THEN heard \union {n} ELSE heard
        /\ status' = IF refused THEN [status EXCEPT ![n] = "idle"] ELSE status
        /\ CallEnds(c, refused)
        /\ UNCHANGED <<seated, disk, gate, standing, steering, excused, past, died>>

LaneSettles(n, complete) ==
    /\ status[n] = "open" /\ \A c \in Call : ~(At(c, "send") /\ Lane(c) = n)
    /\ status' = [status EXCEPT ![n] = IF complete THEN "done" ELSE "idle"]
    /\ UNCHANGED <<seated, disk, adm, holder, gate, call, directives, past, faults, died>>

-----------------------------------------------------------------------------
\* directive: stored first, then steered into every open attempt in turn.
AddDirective ==
    /\ ~standing
    /\ standing' = TRUE
    /\ steering' = {n \in Name : status[n] = "open"}
    /\ UNCHANGED <<status, seated, disk, adm, holder, gate, call, heard, excused, past, faults, died>>

\* steer: under the lane's lock; refused, torn or too late, its adder is told so.
SteerDirective(n, ok) ==
    /\ n \in steering /\ Free(n)
    /\ IF ok THEN faults' = faults ELSE Fault
    /\ steering' = steering \ {n}
    /\ IF ok /\ status[n] = "open"
       THEN heard' = heard \union {n} /\ excused' = excused
       ELSE heard' = heard /\ excused' = excused \union {n}
    /\ UNCHANGED <<status, seated, disk, adm, holder, gate, call, standing, past, died>>

-----------------------------------------------------------------------------
\* LaneGovernor.retire: the session is closed or proven gone; only an operator
\* takes the worktree down, and a cleanup that fails keeps the lane bound.
RetireLane(n, operator, gone, cleared) ==
    /\ n \in seated /\ Free(n) /\ status[n] # "open"
    /\ operator \/ (gone /\ cleared)
    /\ cleared => gone
    /\ IF gone /\ cleared THEN faults' = faults ELSE Fault
    /\ LET cleans == operator /\ repo[n] # "none"
       IN  /\ tree' = IF cleans /\ gone THEN [tree EXCEPT ![n] = "none"] ELSE tree
           /\ repo' = IF cleans /\ cleared THEN [repo EXCEPT ![n] = "none"] ELSE repo
           /\ seated' = IF cleans /\ ~cleared THEN seated ELSE seated \ {n}
           /\ dropped' = IF cleans THEN dropped \union {n} ELSE dropped
    /\ UNCHANGED <<status, adm, holder, gate, call, directives, foreign, messy, died>>

\* What a process of the gateway keeps only in memory is gone; an attempt it had
\* prepared stays open for recovery, and is never sent again.
StartDies ==
    /\ died < MaxCrash /\ \E c \in Call : ~At(c, "idle")
    /\ died' = died + 1
    /\ messy' = messy \union {n \in Name : status[n] = "none" /\ holder[n] # 0}
    /\ excused' = excused \union steering \union {Lane(c) : c \in {d \in Call : At(d, "send")}}
    /\ steering' = {}
    /\ adm' = [n \in Name |-> "none"] /\ holder' = [n \in Name |-> 0] /\ gate' = 0
    /\ call' = [c \in Call |-> NoCall]
    /\ UNCHANGED <<status, seated, disk, standing, heard, foreign, dropped, faults>>

StartNext ==
    \/ \E c \in Call :
          \/ \E n \in Name : Begin(c, n)
          \/ Enter(c) \/ MakeTree(c) \/ MakeRepo(c) \/ Clone(c) \/ AddTree(c)
          \/ \E b \in BOOLEAN : GitFails(c, b) \/ Send(c, b)
          \/ \E gone, cleared \in BOOLEAN : Clean(c, gone, cleared) \/ Undo(c, gone, cleared)
          \/ BindTry(c) \/ BindDone(c) \/ BindAgain(c) \/ StartFails(c) \/ PrepareAttempt(c)
    \/ \E n \in Name, b \in BOOLEAN : LaneSettles(n, b) \/ SteerDirective(n, b)
    \/ \E n \in Name, operator, gone, cleared \in BOOLEAN : RetireLane(n, operator, gone, cleared)
    \/ AddDirective \/ StartDies

StartSpec == StartInit /\ [][StartNext]_starting

-----------------------------------------------------------------------------

Inside(n) == {c \in Call : Lane(c) = n /\ ~At(c, "idle")}

\* A lane with a job keeps the worktree the job names, whatever start failed or
\* was tried again since, until an operator retires it.
TreeKept == \A n \in Name \ dropped : status[n] # "none" => tree[n] = "linked" /\ repo[n] = "clone"

\* No worktree is left whose repository is gone, and a directory that was there
\* before is never taken down.
NoDangling == \A n \in Name :
    /\ tree[n] = "linked" => repo[n] = "clone"
    /\ n \in foreign => tree[n] = "foreign"

\* A name whose start failed can be started again: nothing of it is left.
NameFree == \A n \in Name \ (messy \union foreign) :
    status[n] = "none" /\ Inside(n) = {} => tree[n] = "none" /\ repo[n] = "none"

\* No more lanes are bound than the cap allows.
WithinCap == Cardinality(seated) <= Cap

\* A call made again while the first is building the lane does not queue behind
\* it, and the lane is told of as being admitted exactly while it is.
OneAdmission == \A n \in Name :
    status[n] = "none" => Cardinality(Inside(n)) <= 1 /\ (adm[n] = "busy" <=> Inside(n) # {})

\* A directive reaches every attempt that was running when it was added or was
\* sent since, or its adder is told which it did not.
DirectiveHeard == \A n \in Name :
    standing /\ status[n] = "open" /\ (\A c \in Call : ~(At(c, "send") /\ Lane(c) = n)) =>
        n \in heard \union excused \union steering

\* Lanes start whole or not at all.
LanesStart == TreeKept /\ NoDangling /\ NameFree /\ WithinCap /\ OneAdmission /\ DirectiveHeard
=============================================================================

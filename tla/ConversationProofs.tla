-------------------------- MODULE ConversationProofs --------------------------
(***************************************************************************)
(* Theorems about the conversations of a persona: what passes between them *)
(* ends and every watch fires once; each has one host and knows it; a      *)
(* silent turn is closed only on the proof that its host is gone; and the  *)
(* unread ledger loses and repeats nothing. They hold for any number of    *)
(* conversations, messages, registrations, epochs, sessions, crashes and   *)
(* lost answers.                                                           *)
(***************************************************************************)
EXTENDS CrossTalk, SessionBind, StallCutoff, TailRelay, SharedSlots, ContextLedger,
        TLAPS, FiniteSetTheorems, WellFoundedInduction

USE TalkAssumption

-----------------------------------------------------------------------------
(* What conversations start in one another. The predicates take the inbox  *)
(* and the watches as arguments, so that a transaction that writes both is *)
(* argued one table at a time.                                             *)

(* What a hop may leave behind: a chain short enough, without repetition,  *)
(* that has not passed the place it is at.                                 *)
Clean(chain, at) == Len(chain) <= MaxDepth /\ at \notin Range(chain) /\ IsInjective(chain)

(* The ids of the inbox: what people write, what is handed on, and what a  *)
(* watch wakes, which names the message that fired it.                     *)
Said(n) == <<"human", n>>
Wake(i, m) == <<"watch", i, m>>
IsWake(i) == i[1] = "watch"
IsId(i, h) ==
  \/ \E n \in Nat : n < h /\ i = Said(n)
  \/ \E s, t : i = <<"relay", s, t>>
  \/ \E s : \E n \in Nat : n < h /\ i = Wake(s, Said(n))

IsRow(r, h) ==
  /\ r = [id |-> r.id, at |-> r.at, chain |-> r.chain, when |-> r.when, done |-> r.done]
  /\ IsId(r.id, h)
  /\ r.at \in Origin /\ r.chain \in Seq(Origin) /\ r.when \in Nat /\ r.done \in BOOLEAN

IsWatch(w, c) ==
  /\ w = [id |-> w.id, by |-> w.by, of |-> w.of, from |-> w.from, chain |-> w.chain,
          till |-> w.till, state |-> w.state]
  /\ w.by \in Origin /\ w.of \in Origin /\ w.chain \in Seq(Origin)
  /\ w.from \in Nat /\ w.from <= c /\ w.till \in Nat
  /\ w.state \in {"pending", "fired", "expired"}

Rows(I, h) == \A r \in I : IsRow(r, h) /\ Clean(r.chain, r.at)
Named(S) == \A x, y \in S : x.id = y.id => x = y
Watches(W, c) == \A w \in W : IsWatch(w, c) /\ Clean(w.chain, w.by)
Single(W) ==
  \A v, w \in W : v.state = "pending" /\ w.state = "pending" /\ v.by = w.by /\ v.of = w.of => v = w

(* A watch that fired woke one row, in its time; any other woke none.      *)
Woken(I, i) == {r \in I : IsWake(r.id) /\ r.id[2] = i}
Told(I, w) ==
  IF w.state = "fired"
  THEN \E q \in I : Woken(I, w.id) = {q} /\ w.from <= q.when /\ q.when < w.till
  ELSE Woken(I, w.id) = {}

(* A watch is forgotten only after the turn that asked for it has settled: *)
(* what a replay may register again is still there.                        *)
Sourced(I, W) ==
  \A q \in I : IsWake(q.id) =>
    \/ \E w \in W : w.id = q.id[2]
    \/ \E s \in I : s.id = q.id[2][2] /\ s.done

Good(I, W, c) == Watches(W, c) /\ Named(W) /\ Single(W) /\ \A w \in W : Told(I, w)

TalkInvariant ==
  /\ clock \in 0..MaxTime /\ humans \in 0..MaxHuman
  /\ Rows(inbox, humans) /\ Named(inbox)
  /\ Good(inbox, watches, clock) /\ Sourced(inbox, watches)

-----------------------------------------------------------------------------
(* extendHandoffChain: a hop that is allowed leaves a clean chain.         *)
LEMMA HopClean ==
  ASSUME NEW chain \in Seq(Origin), NEW s \in Origin, NEW t \in Origin,
         IsInjective(chain), s \notin Range(chain), HopAllowed(chain, s, t)
  PROVE  Hop(chain, s) \in Seq(Origin) /\ Clean(Hop(chain, s), t)
<1> DEFINE c == Append(chain, s)
<1>1. c \in Seq(Origin) /\ Len(c) = Len(chain) + 1
  OBVIOUS
<1>2. \A i \in 1..Len(c) : c[i] = IF i <= Len(chain) THEN chain[i] ELSE s
  OBVIOUS
<1>3. \A i \in 1..Len(chain) : chain[i] # s
  BY DEF Range
<1>4. IsInjective(c)
  BY <1>1, <1>2, <1>3 DEF IsInjective
<1> QED
  BY <1>1, <1>4 DEF Hop, HopAllowed, Clean

(* Names of different kinds are different.                                 *)
LEMMA IdFacts ==
  ASSUME NEW h \in Nat
  PROVE  /\ \A n : ~IsWake(Said(n))
         /\ \A s, t : ~IsWake(<<"relay", s, t>>)
         /\ \A s, m : IsWake(Wake(s, m)) /\ Wake(s, m)[2] = s
         /\ \A s, m, t, u : Wake(s, m) = Wake(t, u) => s = t /\ m = u
         /\ ~IsId(Said(h), h)
         /\ \A s : ~IsId(Wake(s, Said(h)), h)
         /\ \A i : IsId(i, h) => IsId(i, h + 1)
<1>1. \A s, m, t, u : Wake(s, m) = Wake(t, u) => s = t /\ m = u
  BY DEF Wake
<1>2. \A n, m : Said(n) = Said(m) => n = m
  BY DEF Said
<1>3. (\A n : ~IsWake(Said(n))) /\ (\A s, t : ~IsWake(<<"relay", s, t>>))
      /\ (\A s, m : IsWake(Wake(s, m)) /\ Wake(s, m)[2] = s)
  BY DEF IsWake, Said, Wake
<1>4. \A n, s, t : Said(n) # <<"relay", s, t>>
  BY DEF Said
<1>5. ~IsId(Said(h), h)
  BY <1>2, <1>3, <1>4 DEF IsId
<1>6. \A s : ~IsId(Wake(s, Said(h)), h)
  BY <1>1, <1>2, <1>3 DEF IsId
<1> QED
  BY <1>1, <1>3, <1>5, <1>6 DEF IsId

LEMMA WakesWoken == \A i : Wakes(i) = Woken(inbox, i)
BY DEF Wakes, Woken, IsWake

(* Closing overdue watches, and forgetting some, costs nothing.            *)
Shut(X, w) == IF w \in X /\ Overdue(w) THEN [w EXCEPT !.state = "expired"] ELSE w

LEMMA ShutOne ==
  ASSUME NEW I, NEW X, NEW c, NEW w, IsWatch(w, c), Clean(w.chain, w.by), Told(I, w)
  PROVE  /\ Shut(X, w).id = w.id /\ Shut(X, w).by = w.by /\ Shut(X, w).of = w.of
         /\ IsWatch(Shut(X, w), c) /\ Clean(Shut(X, w).chain, Shut(X, w).by)
         /\ Told(I, Shut(X, w))
         /\ Shut(X, w).state = "pending" => Shut(X, w) = w
<1>1. CASE w \in X /\ Overdue(w)
  <2>1. Shut(X, w) = [id |-> w.id, by |-> w.by, of |-> w.of, from |-> w.from, chain |-> w.chain,
                      till |-> w.till, state |-> "expired"]
    BY <1>1 DEF Shut, IsWatch
  <2> QED
    BY <1>1, <2>1 DEF IsWatch, Told, Overdue
<1>2. CASE ~(w \in X /\ Overdue(w))
  BY <1>2 DEF Shut
<1> QED
  BY <1>1, <1>2

Shuts(X, V) == {Shut(X, w) : w \in V}

LEMMA ShutKeeps ==
  ASSUME NEW I, NEW V, NEW X, NEW c, Good(I, V, c), NEW S, S = Shuts(X, V)
  PROVE  Good(I, S, c) /\ \A v \in V : \E z \in S : z.id = v.id
<1> DEFINE Z == {Shut(X, w) : w \in V}
<1>1. ASSUME NEW w \in V
      PROVE  /\ Shut(X, w).id = w.id /\ Shut(X, w).by = w.by /\ Shut(X, w).of = w.of
             /\ IsWatch(Shut(X, w), c) /\ Clean(Shut(X, w).chain, Shut(X, w).by)
             /\ Told(I, Shut(X, w))
             /\ Shut(X, w).state = "pending" => Shut(X, w) = w
  BY ShutOne DEF Good, Watches
<1>2. Watches(Z, c) /\ \A z \in Z : Told(I, z)
  BY <1>1 DEF Watches
<1>3. Named(Z)
  BY <1>1 DEF Good, Named
<1>4. Single(Z)
  BY <1>1 DEF Good, Single
<1> QED
  BY <1>1, <1>2, <1>3, <1>4 DEF Good, Shuts

-----------------------------------------------------------------------------
(* A row that wakes nothing, added or taken in another state, tells the    *)
(* watches nothing new.                                                    *)
LEMMA QuietRow ==
  ASSUME NEW I, NEW r, ~IsWake(r.id), NEW w, Told(I, w)
  PROVE  Told(I \cup {r}, w)
<1>1. Woken(I \cup {r}, w.id) = Woken(I, w.id)
  BY DEF Woken
<1> QED
  BY <1>1 DEF Told

(* A message of a person fires the watches of its conversation that are in *)
(* time: each gets the one row that names it and the message.              *)
LEMMA HumanStep ==
  ASSUME TalkInvariant, NEW o \in Origin, Human(o)
  PROVE  TalkInvariant'
<1> DEFINE m == Said(humans)
<1> DEFINE fires == {w \in watches : w.of = o /\ Due(w)}
<1> DEFINE After(w) == IF w.of = o /\ Due(w) THEN [w EXCEPT !.state = "fired"]
                       ELSE Shut({v \in watches : v.of = o}, w)
<1> DEFINE woke(w) == Row(Wake(w.id, m), w.by, w.chain)
<1> DEFINE said == Row(m, o, <<>>)
<1>1. /\ clock \in Nat /\ humans \in Nat /\ humans' = humans + 1 /\ clock' = clock
      /\ humans' \in 0..MaxHuman /\ clock' \in 0..MaxTime
  BY DEF TalkInvariant, Good, Human
<1>2. /\ Rows(inbox, humans) /\ Named(inbox) /\ Watches(watches, clock) /\ Named(watches)
      /\ Single(watches) /\ (\A w \in watches : Told(inbox, w)) /\ Sourced(inbox, watches)
  BY DEF TalkInvariant, Good
<1>3. watches' = {After(w) : w \in watches}
  <2> DEFINE mine == {w \in watches : w.of = o}
  <2>1. watches' = (watches \ mine) \cup {[w EXCEPT !.state = "fired"] : w \in {w \in mine : Due(w)}}
                   \cup WithExpired(mine \ {w \in mine : Due(w)})
    BY DEF Human
  <2>2. \A w \in mine \ {w_1 \in mine : Due(w_1)} :
          After(w) = IF Overdue(w) THEN [w EXCEPT !.state = "expired"] ELSE w
    BY DEF Shut
  <2>3. WithExpired(mine \ {w \in mine : Due(w)}) = {After(w) : w \in mine \ {w_1 \in mine : Due(w_1)}}
    BY <2>2 DEF WithExpired
  <2>4. \A w \in watches \ mine : After(w) = w
    BY DEF Shut
  <2>5. \A w \in mine : Due(w) => After(w) = [w EXCEPT !.state = "fired"]
    OBVIOUS
  <2> HIDE DEF After
  <2> QED
    BY <2>1, <2>3, <2>4, <2>5
<1>4. \A w \in fires : ~Known(Wake(w.id, m))
  BY <1>1, <1>2, IdFacts DEF Known, Rows, IsRow
<1>5. inbox' = inbox \cup {said} \cup {woke(w) : w \in fires}
  <2>1. inbox' = inbox \cup {Row(Said(humans), o, <<>>)}
                 \cup UNION {Enqueued(<<"watch", w.id, Said(humans)>>, w.by, w.chain) : w \in fires}
    BY DEF Human, Said
  <2>2. \A w \in fires : Enqueued(<<"watch", w.id, Said(humans)>>, w.by, w.chain) = {woke(w)}
    BY <1>4 DEF Enqueued, Wake
  <2>3. UNION {Enqueued(<<"watch", w.id, Said(humans)>>, w.by, w.chain) : w \in fires}
        = {woke(w) : w \in fires}
    <3> DEFINE e(w) == Enqueued(<<"watch", w.id, Said(humans)>>, w.by, w.chain)
    <3>1. \A w \in fires : e(w) = {woke(w)}
      BY <2>2
    <3> HIDE DEF woke, fires, e
    <3>2. UNION {e(w) : w \in fires} = {woke(w) : w \in fires}
      BY <3>1
    <3> QED BY <3>2 DEF e
  <2> QED
    BY <2>1, <2>3
<1>6. ASSUME NEW w \in fires
      PROVE  /\ IsRow(woke(w), humans + 1) /\ Clean(woke(w).chain, woke(w).at)
             /\ woke(w).id = Wake(w.id, m) /\ woke(w).when = clock
  <2>1. IsWatch(w, clock) /\ Clean(w.chain, w.by)
    BY <1>2 DEF Watches
  <2>2. IsId(Wake(w.id, m), humans + 1)
    BY <1>1 DEF IsId
  <2> QED
    BY <1>1, <2>1, <2>2 DEF IsWatch, IsRow, Row
<1>7. IsRow(said, humans + 1) /\ Clean(said.chain, said.at) /\ said.id = m
  <2>1. IsId(m, humans + 1)
    BY <1>1 DEF IsId
  <2>2. Clean(<<>>, o)
    BY DEF Clean, Range, IsInjective
  <2> QED
    BY <1>1, <2>1, <2>2 DEF IsRow, Row
<1>8. Rows(inbox', humans')
  <2>1. \A r \in inbox : IsRow(r, humans + 1)
    BY <1>1, <1>2, IdFacts DEF Rows, IsRow
  <2> QED
    BY <1>1, <1>2, <1>5, <1>6, <1>7, <2>1 DEF Rows
<1>9. Named(inbox')
  <2>1. \A r \in inbox : r.id # m /\ \A w \in fires : r.id # Wake(w.id, m)
    BY <1>1, <1>2, IdFacts DEF Rows, IsRow
  <2>2. \A w \in fires : Wake(w.id, m) # m
    BY <1>1, IdFacts
  <2>3. \A v, w \in fires : Wake(v.id, m) = Wake(w.id, m) => v = w
    BY <1>1, <1>2, IdFacts DEF Named
  <2> HIDE DEF woke, said, fires
  <2> QED
    BY <1>2, <1>5, <1>6, <1>7, <2>1, <2>2, <2>3 DEF Named
<1>10. ASSUME NEW w \in watches
       PROVE  /\ After(w).id = w.id /\ After(w).by = w.by /\ After(w).of = w.of
              /\ IsWatch(After(w), clock) /\ Clean(After(w).chain, After(w).by)
              /\ After(w).state = "pending" => After(w) = w
              /\ Told(inbox', After(w))
  <2>1. IsWatch(w, clock) /\ Clean(w.chain, w.by) /\ Told(inbox, w)
    BY <1>2 DEF Watches
  <2>2. CASE w \in fires
    <3>1. After(w) = [id |-> w.id, by |-> w.by, of |-> w.of, from |-> w.from, chain |-> w.chain,
                      till |-> w.till, state |-> "fired"]
      BY <2>1, <2>2 DEF IsWatch
    <3>2. Woken(inbox, w.id) = {}
      BY <2>1, <2>2 DEF Told, Due
    <3>3. \A v \in fires : woke(v).id[2] = w.id => v = w
      BY <1>1, <1>2, <1>6, IdFacts DEF Named
    <3>4. ~IsWake(said.id) /\ IsWake(woke(w).id) /\ woke(w).id[2] = w.id
      BY <1>1, <1>6, <1>7, <2>2, IdFacts
    <3>5. Woken(inbox', w.id) = {woke(w)}
      <4> HIDE DEF woke, said, fires
      <4> QED BY <1>5, <2>2, <3>2, <3>3, <3>4 DEF Woken
    <3>6. w.from <= woke(w).when /\ woke(w).when < w.till
      BY <1>1, <1>6, <2>1, <2>2 DEF IsWatch, Due
    <3>7. woke(w) \in inbox'
      BY <1>5, <2>2
    <3>8. Told(inbox', After(w))
      <4> HIDE DEF woke, After
      <4> QED BY <3>1, <3>5, <3>6, <3>7 DEF Told
    <3> HIDE DEF After
    <3>9. IsWatch(After(w), clock)
      BY <2>1, <3>1 DEF IsWatch
    <3> QED
      BY <2>1, <3>1, <3>8, <3>9
  <2>3. CASE w \notin fires
    <3> DEFINE X == {v \in watches : v.of = o}
    <3>1. After(w) = Shut(X, w)
      BY <2>3
    <3>2. /\ Shut(X, w).id = w.id /\ Shut(X, w).by = w.by /\ Shut(X, w).of = w.of
          /\ IsWatch(Shut(X, w), clock) /\ Clean(Shut(X, w).chain, Shut(X, w).by)
          /\ Told(inbox, Shut(X, w))
          /\ Shut(X, w).state = "pending" => Shut(X, w) = w
      <4> HIDE DEF X
      <4> QED BY <2>1, ShutOne
    <3>4. \A v \in fires : woke(v).id[2] # w.id
      BY <1>1, <1>2, <1>6, <2>3, IdFacts DEF Named
    <3>5. Woken(inbox', w.id) = Woken(inbox, w.id)
      <4>1. ~IsWake(said.id)
        BY <1>1, <1>7, IdFacts
      <4> HIDE DEF woke, said, fires
      <4> QED BY <1>5, <3>4, <4>1 DEF Woken
    <3>6. inbox \subseteq inbox'
      BY <1>5
    <3>7. Told(inbox', Shut(X, w))
      <4> HIDE DEF X
      <4> QED BY <3>2, <3>5, <3>6 DEF Told
    <3> QED
      BY <3>1, <3>2, <3>7
  <2> QED
    BY <2>2, <2>3
<1>11. /\ Watches(watches', clock') /\ Named(watches') /\ Single(watches')
       /\ \A w \in watches' : Told(inbox', w)
  <2> HIDE DEF After
  <2> QED
    BY <1>1, <1>2, <1>3, <1>10 DEF Watches, Named, Single
<1>12. Sourced(inbox', watches')
  <2> SUFFICES ASSUME NEW q \in inbox', IsWake(q.id)
               PROVE  \/ \E w \in watches' : w.id = q.id[2]
                      \/ \E s \in inbox' : s.id = q.id[2][2] /\ s.done
    BY DEF Sourced
  <2>1. \A w \in watches : \E z \in watches' : z.id = w.id
    BY <1>3, <1>10
  <2>2. CASE q \in inbox
    BY <1>2, <1>5, <2>1, <2>2 DEF Sourced
  <2>3. CASE q = said
    BY <1>1, <1>7, <2>3, IdFacts
  <2>4. CASE \E w \in fires : q = woke(w)
    <3>1. PICK w \in fires : q = woke(w)
      BY <2>4
    <3>2. q.id[2] = w.id
      BY <1>1, <1>6, <3>1, IdFacts
    <3> QED
      BY <2>1, <3>2
  <2> QED
    BY <1>5, <2>2, <2>3, <2>4
<1> QED
  BY <1>1, <1>8, <1>9, <1>11, <1>12 DEF TalkInvariant, Good

(* A relay that is allowed adds one row, once, however often it is run.    *)
LEMMA RelayStep ==
  ASSUME TalkInvariant, NEW r \in inbox, NEW target \in Origin, Relay(r, target)
  PROVE  TalkInvariant'
<1> DEFINE id == <<"relay", r.id, target>>
<1> DEFINE new == Row(id, target, Hop(r.chain, r.at))
<1>1. /\ Rows(inbox, humans) /\ Named(inbox) /\ Sourced(inbox, watches) /\ humans \in Nat /\ clock \in Nat
      /\ \A w \in watches : Told(inbox, w)
  BY DEF TalkInvariant, Good
<1>2. UNCHANGED <<watches, clock, humans>>
  BY DEF Relay
<1>3. IsRow(r, humans) /\ Clean(r.chain, r.at)
  BY <1>1 DEF Rows
<1>4. Hop(r.chain, r.at) \in Seq(Origin) /\ Clean(Hop(r.chain, r.at), target)
  BY <1>3, HopClean DEF Relay, IsRow, Clean
<1>5. inbox' = inbox \/ (~Known(id) /\ inbox' = inbox \cup {new})
  BY DEF Relay, Enqueued
<1>6. new.id = id /\ new.at = target /\ new.chain = Hop(r.chain, r.at) /\ ~IsWake(new.id)
  BY DEF Row, IsWake
<1>7. IsRow(new, humans)
  <2>1. IsId(id, humans)
    BY DEF IsId
  <2> QED
    BY <1>1, <1>4, <2>1 DEF IsRow, Row
<1>8. CASE inbox' = inbox
  BY <1>2, <1>8 DEF TalkInvariant, Good
<1>9. CASE ~Known(id) /\ inbox' = inbox \cup {new}
  <2> HIDE DEF new, id
  <2>1. Rows(inbox', humans)
    BY <1>1, <1>4, <1>6, <1>7, <1>9 DEF Rows
  <2>2. Named(inbox')
    BY <1>1, <1>6, <1>9 DEF Named, Known
  <2>3. \A w \in watches : Told(inbox', w)
    BY <1>1, <1>6, <1>9, QuietRow
  <2>4. Sourced(inbox', watches)
    BY <1>1, <1>6, <1>9 DEF Sourced
  <2> QED
    BY <1>2, <2>1, <2>2, <2>3, <2>4 DEF TalkInvariant, Good
<1> QED
  BY <1>5, <1>8, <1>9

(* registerWatch: the same registration finds its watch as long as its turn*)
(* is not settled, so a new one is the first of its name and of its pair,  *)
(* and nothing has been woken in its name.                                 *)
LEMMA WatchStep ==
  ASSUME TalkInvariant, NEW r \in inbox, NEW target \in Origin, NEW ttl \in Ttl, Watch(r, target, ttl)
  PROVE  TalkInvariant'
<1> DEFINE id == WatchId(r, target, ttl)
<1> DEFINE pair == {w \in watches : w.by = r.at /\ w.of = target}
<1> DEFINE kept == {Shut(pair, w) : w \in watches}
<1> DEFINE new == [id |-> id, by |-> r.at, of |-> target, from |-> clock,
                   chain |-> Hop(r.chain, target), till |-> clock + ttl, state |-> "pending"]
<1>1. /\ Rows(inbox, humans) /\ Named(inbox) /\ Sourced(inbox, watches) /\ humans \in Nat /\ clock \in Nat
      /\ Watches(watches, clock) /\ Named(watches) /\ Single(watches)
      /\ \A w \in watches : Told(inbox, w)
  BY DEF TalkInvariant, Good
<1>2. UNCHANGED <<inbox, clock, humans>>
  BY DEF Watch
<1>3. (watches \ pair) \cup WithExpired(pair) = kept
  <2>1. \A w \in watches \ pair : Shut(pair, w) = w
    BY DEF Shut
  <2>2. \A w \in pair : Shut(pair, w) = IF Overdue(w) THEN [w EXCEPT !.state = "expired"] ELSE w
    BY DEF Shut
  <2>3. WithExpired(pair) = {Shut(pair, w) : w \in pair}
    BY <2>2 DEF WithExpired
  <2> HIDE DEF pair
  <2>4. pair \subseteq watches
    BY DEF pair
  <2> QED
    BY <2>1, <2>3, <2>4
<1>4. /\ Watches(kept, clock) /\ Named(kept) /\ Single(kept) /\ (\A z \in kept : Told(inbox, z))
      /\ \A w \in watches : \E z \in kept : z.id = w.id
  <2> HIDE DEF pair, kept
  <2>1. PICK V : V = watches
    OBVIOUS
  <2>2. PICK X : X = pair
    OBVIOUS
  <2>a. Good(inbox, V, clock)
    BY <2>1 DEF TalkInvariant
  <2>3. kept = Shuts(X, V)
    BY <2>1, <2>2 DEF Shuts, kept
  <2>4. Good(inbox, kept, clock) /\ \A v \in V : \E z \in kept : z.id = v.id
    BY <2>a, <2>3, ShutKeeps
  <2> QED
    BY <2>1, <2>4 DEF Good
<1>5. \/ watches' = kept
      \/ /\ watches' = kept \cup {new}
         /\ \A w \in kept : w.id # id
         /\ \A w \in WithExpired(pair) : w.state # "pending"
  BY <1>3 DEF Watch
<1>6. CASE watches' = kept
  <2> HIDE DEF kept
  <2>1. Sourced(inbox, kept)
    BY <1>1, <1>4 DEF Sourced
  <2> QED
    BY <1>1, <1>2, <1>4, <1>6, <2>1 DEF TalkInvariant, Good
<1>7. CASE /\ watches' = kept \cup {new}
           /\ \A w \in kept : w.id # id
           /\ \A w \in WithExpired(pair) : w.state # "pending"
  <2>1. IsRow(r, humans) /\ Clean(r.chain, r.at) /\ ~r.done
    BY <1>1 DEF Rows, Watch, Answers
  <2>2. Hop(r.chain, target) \in Seq(Origin) /\ Clean(Hop(r.chain, target), r.at)
    BY <2>1, HopClean DEF Watch, WatchAllowed, IsRow, Clean
  <2>3. IsWatch(new, clock) /\ Clean(new.chain, new.by) /\ new.id = id /\ new.state = "pending"
        /\ new.by = r.at /\ new.of = target
    BY <1>1, <2>1, <2>2 DEF IsWatch, IsRow, TalkAssumption
  <2>4. \A w \in kept : ~(w.state = "pending" /\ w.by = r.at /\ w.of = target)
    <3> SUFFICES ASSUME NEW w \in watches, Shut(pair, w).state = "pending",
                        Shut(pair, w).by = r.at, Shut(pair, w).of = target
                 PROVE  FALSE
      OBVIOUS
    <3>1. Shut(pair, w) = w
      <4> HIDE DEF pair
      <4> QED BY <1>1, ShutOne DEF Watches
    <3>2. w \in pair
      BY <3>1
    <3>3. Shut(pair, w) \in WithExpired(pair)
      BY <3>2 DEF Shut, WithExpired
    <3> QED
      BY <1>7, <3>3
  <2>5. Woken(inbox, id) = {}
    <3> SUFFICES ASSUME NEW q \in inbox, IsWake(q.id), q.id[2] = id PROVE FALSE
      BY DEF Woken
    <3>1. \A w \in watches : w.id # id
      BY <1>4, <1>7
    <3>2. PICK s \in inbox : s.id = q.id[2][2] /\ s.done
      BY <1>1, <3>1 DEF Sourced
    <3>3. s.id = r.id
      BY <3>2 DEF WatchId
    <3> QED
      BY <1>1, <2>1, <3>2, <3>3 DEF Named
  <2>6. Told(inbox, new)
    BY <2>3, <2>5 DEF Told
  <2> HIDE DEF kept, new, id
  <2>7. Sourced(inbox, watches')
    BY <1>1, <1>4, <1>7 DEF Sourced
  <2>8. Watches(watches', clock) /\ Named(watches') /\ Single(watches')
        /\ \A w \in watches' : Told(inbox, w)
    <3>1. Watches(watches', clock) /\ \A w \in watches' : Told(inbox, w)
      BY <1>4, <1>7, <2>3, <2>6 DEF Watches
    <3>2. Named(watches')
      BY <1>4, <1>7, <2>3 DEF Named
    <3>3. Single(watches')
      BY <1>4, <1>7, <2>3, <2>4 DEF Single
    <3> QED BY <3>1, <3>2, <3>3
  <2> QED
    BY <1>1, <1>2, <2>7, <2>8 DEF TalkInvariant, Good
<1> QED
  BY <1>5, <1>6, <1>7

(* A turn that settles keeps its row, and its name.                        *)
LEMMA SettleStep ==
  ASSUME TalkInvariant, NEW r \in inbox, TurnSettles(r)
  PROVE  TalkInvariant'
<1> DEFINE new == [r EXCEPT !.done = TRUE]
<1>1. /\ Rows(inbox, humans) /\ Named(inbox) /\ Sourced(inbox, watches)
      /\ \A w \in watches : Told(inbox, w)
  BY DEF TalkInvariant, Good
<1>2. inbox' = (inbox \ {r}) \cup {new} /\ UNCHANGED <<watches, clock, humans>>
  BY DEF TurnSettles
<1>3. IsRow(r, humans) /\ Clean(r.chain, r.at)
  BY <1>1 DEF Rows
<1>4. new = [id |-> r.id, at |-> r.at, chain |-> r.chain, when |-> r.when, done |-> TRUE]
  <2>1. r = [id |-> r.id, at |-> r.at, chain |-> r.chain, when |-> r.when, done |-> r.done]
    BY <1>3 DEF IsRow
  <2>2. new = [[id |-> r.id, at |-> r.at, chain |-> r.chain, when |-> r.when, done |-> r.done]
                 EXCEPT !.done = TRUE]
    BY <2>1, Zenon
  <2> HIDE DEF new
  <2> QED
    BY <2>2
<1>5. IsRow(new, humans) /\ Clean(new.chain, new.at) /\ new.id = r.id /\ new.when = r.when /\ new.done
  BY <1>3, <1>4 DEF IsRow
<1> HIDE DEF new
<1>6. Rows(inbox', humans) /\ Named(inbox')
  BY <1>1, <1>2, <1>5 DEF Rows, Named
<1>7. ASSUME NEW w \in watches PROVE Told(inbox', w)
  <2>1. Told(inbox, w)
    BY <1>1
  <2>2. CASE IsWake(r.id) /\ r.id[2] = w.id
    <3>1. r \in Woken(inbox, w.id)
      BY <2>2 DEF Woken
    <3>2. w.state = "fired" /\ Woken(inbox, w.id) = {r} /\ w.from <= r.when /\ r.when < w.till
      BY <2>1, <3>1 DEF Told
    <3>3. Woken(inbox', w.id) = {new}
      BY <1>2, <1>5, <2>2, <3>2 DEF Woken
    <3> QED
      BY <1>2, <1>5, <3>2, <3>3 DEF Told
  <2>3. CASE ~(IsWake(r.id) /\ r.id[2] = w.id)
    <3>1. Woken(inbox', w.id) = Woken(inbox, w.id)
      BY <1>2, <1>5, <2>3 DEF Woken
    <3>2. Woken(inbox', w.id) \subseteq inbox'
      BY DEF Woken
    <3> QED
      BY <2>1, <3>1, <3>2 DEF Told
  <2> QED
    BY <2>2, <2>3
<1>8. Sourced(inbox', watches)
  <2>1. \A s \in inbox : \E z \in inbox' : z.id = s.id /\ (s.done => z.done)
    BY <1>2, <1>5
  <2>2. \A z \in inbox' : \E s \in inbox : s.id = z.id
    BY <1>2, <1>5
  <2> QED
    BY <1>1, <2>1, <2>2 DEF Sourced
<1> QED
  BY <1>2, <1>6, <1>7, <1>8 DEF TalkInvariant, Good

(* sweepWatches: a watch is forgotten only once its turn has settled.      *)
LEMMA SweepStep ==
  ASSUME TalkInvariant, SweepWatches
  PROVE  TalkInvariant'
<1>1. /\ Sourced(inbox, watches) /\ Watches(watches, clock) /\ Named(watches) /\ Single(watches)
      /\ \A w \in watches : Told(inbox, w)
  BY DEF TalkInvariant, Good
<1>2. UNCHANGED <<inbox, clock, humans>>
  BY DEF SweepWatches
<1>3. PICK V \in SUBSET watches :
        /\ watches' = WithExpired(V)
        /\ \A w \in watches \ V : \E s \in inbox : s.id = w.id[2] /\ s.done
  <2>1. CASE watches' = WithExpired(watches)
    BY <2>1
  <2>2. CASE \E w \in watches : Forgotten(w) /\ watches' = WithExpired(watches \ {w})
    BY <2>2 DEF Forgotten
  <2> QED
    BY <2>1, <2>2 DEF SweepWatches
<1>4. watches' = Shuts(V, V)
  BY <1>3 DEF WithExpired, Shut, Shuts
<1>5. /\ Watches(watches', clock) /\ Named(watches') /\ Single(watches')
      /\ (\A z \in watches' : Told(inbox, z))
      /\ \A v \in V : \E z \in watches' : z.id = v.id
  <2>1. Good(inbox, V, clock)
    BY <1>1 DEF Good, Watches, Named, Single
  <2>2. Good(inbox, watches', clock) /\ \A v \in V : \E z \in watches' : z.id = v.id
    BY <1>4, <2>1, ShutKeeps
  <2> QED
    BY <2>2 DEF Good
<1>6. Sourced(inbox, watches')
  <2> SUFFICES ASSUME NEW q \in inbox, IsWake(q.id)
               PROVE  \/ \E w \in watches' : w.id = q.id[2]
                      \/ \E s \in inbox : s.id = q.id[2][2] /\ s.done
    BY DEF Sourced
  <2>1. CASE \E w \in watches : w.id = q.id[2]
    <3>1. PICK w \in watches : w.id = q.id[2]
      BY <2>1
    <3>2. CASE w \in V
      BY <1>5, <3>1, <3>2
    <3>3. CASE w \notin V
      BY <1>3, <3>1, <3>3
    <3> QED BY <3>2, <3>3
  <2>2. CASE \E s \in inbox : s.id = q.id[2][2] /\ s.done
    BY <2>2
  <2> QED
    BY <1>1, <2>1, <2>2 DEF Sourced
<1> QED
  BY <1>2, <1>5, <1>6 DEF TalkInvariant, Good

LEMMA TickStep ==
  ASSUME TalkInvariant, Tick
  PROVE  TalkInvariant'
<1>1. clock \in Nat /\ clock' = clock + 1 /\ clock' \in 0..MaxTime /\ UNCHANGED <<inbox, watches, humans>>
  BY DEF TalkInvariant, Good, Tick
<1>2. Watches(watches, clock')
  BY <1>1 DEF TalkInvariant, Good, Watches, IsWatch
<1> QED
  BY <1>1, <1>2 DEF TalkInvariant, Good

LEMMA TalkInitLemma == TalkInit => TalkInvariant
BY DEF TalkInit, TalkInvariant, Good, Rows, Named, Watches, Single, Told, Sourced

LEMMA TalkStepLemma == TalkInvariant /\ [TalkNext]_talk => TalkInvariant'
<1> SUFFICES ASSUME TalkInvariant, [TalkNext]_talk PROVE TalkInvariant'
  OBVIOUS
<1>1. CASE UNCHANGED talk
  BY <1>1 DEF talk, TalkInvariant, Good
<1>2. CASE TalkNext
  BY <1>2, HumanStep, RelayStep, WatchStep, SettleStep, SweepStep, TickStep DEF TalkNext
<1> QED
  BY <1>1, <1>2

LEMMA TalkInvariantLemma == TalkSpec => []TalkInvariant
BY TalkInitLemma, TalkStepLemma, PTL DEF TalkSpec

(* The inbox and the watches hold what their tables declare.               *)
THEOREM TalkTypeCorrect == TalkSpec => []TalkTypeOK
<1>1. TalkInvariant => TalkTypeOK
  BY DEF TalkInvariant, Good, Rows, IsRow, Watches, IsWatch, TalkTypeOK, Range
<1> QED
  BY <1>1, TalkInvariantLemma, PTL

(* Handoffs, wakes and watches go on for at most MaxDepth conversations and*)
(* never come back to one they passed; a watch wakes its conversation once,*)
(* in its time, through replayed registrations, sweeps and expiries; and a *)
(* conversation waits once for another.                                    *)
THEOREM TalkAlwaysEnds == TalkSpec => []TalkEnds
<1>1. ASSUME TalkInvariant PROVE ChainsEnd
  BY <1>1 DEF TalkInvariant, Good, Rows, Clean, ChainsEnd
<1>2. ASSUME TalkInvariant PROVE OneWatch
  BY <1>2 DEF TalkInvariant, Good, Single, OneWatch
<1>3. ASSUME TalkInvariant PROVE FiredOnce
  <2> SUFFICES ASSUME NEW w \in watches
               PROVE  /\ Cardinality(Wakes(w.id)) = IF w.state = "fired" THEN 1 ELSE 0
                      /\ \A r \in Wakes(w.id) : w.from <= r.when /\ r.when < w.till
    BY DEF FiredOnce
  <2>1. Told(inbox, w)
    BY <1>3 DEF TalkInvariant, Good
  <2>2. CASE w.state = "fired"
    <3>1. PICK q \in inbox : Woken(inbox, w.id) = {q} /\ w.from <= q.when /\ q.when < w.till
      BY <2>1, <2>2 DEF Told
    <3>2. Cardinality({q}) = 1
      BY FS_Singleton
    <3> QED
      BY <2>2, <3>1, <3>2, WakesWoken
  <2>3. CASE w.state # "fired"
    <3>1. Woken(inbox, w.id) = {}
      BY <2>1, <2>3 DEF Told
    <3>2. Cardinality({}) = 0
      BY FS_EmptySet
    <3> QED
      BY <2>3, <3>1, <3>2, WakesWoken
  <2> QED
    BY <2>2, <2>3
<1>4. TalkInvariant => TalkEnds
  BY <1>1, <1>2, <1>3 DEF TalkEnds
<1> QED
  BY <1>4, TalkInvariantLemma, PTL

-----------------------------------------------------------------------------
(* How an origin gets its session. The argument: a bind only ever works on *)
(* the epoch it began in, a key is never used again, and whatever the      *)
(* broker made is found from the row of its key or from the binding, until *)
(* it is closed or its epoch is over.                                      *)

Pcs == {"off", "start", "create", "retire", "record", "index", "replace", "close", "closed", "replaced", "inspect"}
PcOf(e) == bind[e].pc
BindRec == [pc : Pcs, req : Request \cup {0}, s : Session \cup {0}, recovery : BOOLEAN]
RowRec == {NoRow} \cup [key : Key, req : Request]
Hosts == {"none", "cold", "live", "dead", "deleted"}
Asks == [req : Request \cup {0}, epoch : Epoch]

BindTypes ==
  /\ rec \in [epoch : Epoch, sess : Session \cup {0}]
  /\ host \in [Session -> Hosts]
  /\ made \in [Key -> Session \cup {0}]
  /\ asked \in [Session -> Asks]
  /\ row \in [Epoch -> RowRec]
  /\ closeRow \in [Session -> {"none", "pending", "complete"}]
  /\ rotations \in 0..MaxRotations /\ used \in Key \cup {0}
  /\ bind \in [Epoch -> BindRec]
  /\ handed \in [s : Session \cup {0}, req : Request \cup {0}]

(* The same, value by value: what most steps need of the types.            *)
BindValues ==
  /\ rec.epoch \in Epoch /\ rec.sess \in Session \cup {0} /\ used \in Key \cup {0}
  /\ \A f \in Epoch : row[f] # NoRow => row[f].key \in Key /\ row[f].req \in Request
  /\ \A k \in Key : made[k] \in Session \cup {0}
  /\ \A s \in Session : asked[s].epoch \in Epoch
  /\ \A f \in Epoch : bind[f].s \in Session \cup {0}
  /\ handed.s \in Session \cup {0}

(* No epoch is used before the origin has come to it, and no close is      *)
(* journaled for a session the broker has not made.                        *)
NothingAhead ==
  /\ \A e \in Epoch : e > rec.epoch => row[e] = NoRow /\ bind[e].pc = "off"
  /\ \A s \in Session : host[s] # "none" => asked[s].epoch <= rec.epoch
  /\ \A s \in Session : host[s] = "none" => closeRow[s] = "none"

(* Two rows never share a key, and a key that was not minted made nothing. *)
KeysApart ==
  /\ \A e \in Epoch : row[e] # NoRow => row[e].key <= used
  /\ \A e, f \in Epoch : row[e] # NoRow /\ row[f] # NoRow /\ row[e].key = row[f].key => e = f
  /\ \A k \in Key : k > used => made[k] = 0
  /\ \A k \in Key : made[k] # 0 => host[made[k]] # "none"

(* What the key of a row made was made for that row.                       *)
RowsLead ==
  \A e \in Epoch : row[e] # NoRow /\ made[row[e].key] # 0
     => asked[made[row[e].key]].req = row[e].req /\ asked[made[row[e].key]].epoch = e

(* A binding is of its epoch, and a create still journaled made it.        *)
BoundRow ==
  /\ rec.sess # 0 => host[rec.sess] # "none" /\ asked[rec.sess].epoch = rec.epoch
  /\ row[rec.epoch] # NoRow /\ rec.sess # 0 => made[row[rec.epoch].key] = rec.sess

(* From its create to its end a bind has its row, and the session the row  *)
(* led to; it records and hands out only what it asked for itself.         *)
BindsHaveRows ==
  \A e \in Epoch : PcOf(e) \in {"create", "retire", "record", "close", "closed", "index", "replace", "replaced"}
     => /\ row[e] # NoRow
        /\ PcOf(e) \notin {"create", "retire"} => bind[e].s # 0 /\ made[row[e].key] = bind[e].s
        /\ PcOf(e) \in {"create", "record", "index"} => row[e].req = bind[e].req
BindsAsk == \A e \in Epoch : PcOf(e) # "off" => bind[e].req \in Request

(* A bind that creates has no binding beside it; one that goes on from a   *)
(* binding goes on from the one its epoch still has.                       *)
OwnEpoch ==
  \A e \in Epoch :
    /\ PcOf(e) = "inspect" => bind[e].s # 0 /\ host[bind[e].s] # "none" /\ asked[bind[e].s].epoch = e
    /\ e = rec.epoch /\ PcOf(e) \in {"create", "retire", "record", "close", "closed"} => rec.sess = 0
    /\ e = rec.epoch /\ PcOf(e) \in {"index", "inspect", "replace", "replaced"} => rec.sess = bind[e].s

(* A host that was closed stays closed while its create is retired, and as *)
(* long as the close counts as done.                                       *)
HostsClosed == \A e \in Epoch : PcOf(e) \in {"closed", "replaced"} => ~Live(bind[e].s)
ClosesFinal == \A s \in Session : closeRow[s] = "complete" => ~Live(s)

NoneUnknown ==
  \A s \in Session : Live(s) /\ asked[s].epoch = rec.epoch
     => s = rec.sess \/ (row[rec.epoch] # NoRow /\ made[row[rec.epoch].key] = s)
HandedOut == handed.s # 0 => host[handed.s] # "none" /\ asked[handed.s].req = handed.req

BindInvariant ==
  /\ BindTypes /\ NothingAhead /\ KeysApart /\ RowsLead /\ BoundRow /\ BindsHaveRows /\ BindsAsk
  /\ OwnEpoch /\ HostsClosed /\ ClosesFinal /\ NoneUnknown /\ HandedOut

HIDE TalkAssumption
USE BindAssumption DEF Epoch, Session, Key

LEMMA BindTypedValues == BindTypes => BindValues
BY DEF BindTypes, BindValues, RowRec, BindRec, Asks

(* session.create applied, and what it changed.                            *)
Applied(e, k) ==
  /\ k \in Key /\ made'[k] \in Session /\ made' \in [Key -> Session \cup {0}]
  /\ row[e].req \in Request /\ row[e] # NoRow
  /\ host' \in [Session -> Hosts] /\ asked' \in [Session -> Asks]
  /\ \A j \in Key : j # k \/ made[j] # 0 => made'[j] = made[j]
  /\ \A t \in Session : host[t] # "none" => host'[t] = host[t] /\ asked'[t] = asked[t]
  /\ asked'[made'[k]].req = row[e].req /\ asked'[made'[k]].epoch = e /\ host'[made'[k]] # "none"
  /\ \A t \in Session : host'[t] # host[t] => t = made'[k] /\ host[t] = "none" /\ made[k] = 0 /\ host'[t] = "cold"
  /\ \A t \in Session : t # made'[k] => host'[t] = host[t] /\ asked'[t] = asked[t]

(* What session.create does under a key: it made a session for this row, or*)
(* makes one now that nobody had.                                          *)
LEMMA ApplyFacts ==
  ASSUME BindInvariant, NEW e \in Epoch, Creating(e), Applies(e),
         NEW k, k = row[e].key
  PROVE  Applied(e, k)
<1>1. BindTypes
  BY DEF BindInvariant
<1>2. k \in Key /\ row[e].req \in Request /\ row[e] # NoRow
  BY <1>1 DEF BindTypes, Creating, RowRec
<1>3. CASE made[k] # 0 /\ UNCHANGED broker
  <2>1. /\ asked[made[k]].req = row[e].req /\ asked[made[k]].epoch = e
        /\ host[made[k]] # "none" /\ made[k] \in Session
    BY <1>2, <1>3, BindTypedValues DEF BindInvariant, BindValues, RowsLead, KeysApart
  <2> QED
    BY <1>1, <1>2, <1>3, <2>1 DEF broker, BindTypes, Applied
<1>4. CASE \E s \in Fresh : 
           /\ made[k] = 0 
           /\ made' = [made EXCEPT ![k] = s] /\ host' = [host EXCEPT ![s] = "cold"]
           /\ asked' = [asked EXCEPT ![s] = [req |-> row[e].req, epoch |-> e]]
  <2>1. PICK s \in Fresh : 
           /\ made[k] = 0 
           /\ made' = [made EXCEPT ![k] = s] /\ host' = [host EXCEPT ![s] = "cold"]
           /\ asked' = [asked EXCEPT ![s] = [req |-> row[e].req, epoch |-> e]]
    BY <1>4
  <2>2. s \in Session /\ host[s] = "none"
    BY DEF Fresh
  <2>3. PICK a : a = [req |-> row[e].req, epoch |-> e]
    OBVIOUS
  <2>4. a \in Asks
    BY <2>3, <1>2 DEF Asks
  <2>5. made' \in [Key -> Session \cup {0}] /\ made'[k] = s /\ \A j \in Key : j # k => made'[j] = made[j]
    BY <1>1, <1>2, <2>1, <2>2 DEF BindTypes
  <2>6. /\ host' \in [Session -> Hosts]
        /\ asked' \in [Session -> Asks]
        /\ \A t \in Session : t # s => host'[t] = host[t] /\ asked'[t] = asked[t]
        /\ asked'[s] = a /\ host'[s] = "cold"
    BY <1>1, <1>2, <2>1, <2>2, <2>3, <2>4 DEF BindTypes, Hosts
  <2> QED BY <1>2, <2>1, <2>2, <2>3, <2>5, <2>6 DEF Applied
<1> QED BY <1>3, <1>4 DEF Applies

(* A bind that goes on, one that goes on with a session, one that ends, and*)
(* one that begins.                                                        *)
LEMMA Goes ==
  ASSUME NEW B \in [Epoch -> BindRec], NEW e \in Epoch, NEW p \in Pcs, NEW C, C = [B EXCEPT ![e].pc = p]
  PROVE  /\ C \in [Epoch -> BindRec] /\ C[e].pc = p /\ C[e].s = B[e].s /\ C[e].req = B[e].req
         /\ \A f \in Epoch : f # e => C[f] = B[f]
BY DEF BindRec

Going(B, e, p) == [B EXCEPT ![e].pc = p]

LEMMA GoingFacts ==
  ASSUME NEW B \in [Epoch -> BindRec], NEW e \in Epoch, NEW p \in Pcs
  PROVE  /\ Going(B, e, p) \in [Epoch -> BindRec]
         /\ Going(B, e, p)[e].pc = p /\ Going(B, e, p)[e].s = B[e].s /\ Going(B, e, p)[e].req = B[e].req
         /\ \A f \in Epoch : f # e => Going(B, e, p)[f] = B[f]
BY DEF Going, BindRec

LEMMA GoesWith ==
  ASSUME NEW B \in [Epoch -> BindRec], NEW e \in Epoch, NEW p \in Pcs, NEW t \in Session, NEW C,
         C = [B EXCEPT ![e].pc = p, ![e].s = t]
  PROVE  /\ C \in [Epoch -> BindRec] /\ C[e].pc = p /\ C[e].s = t /\ C[e].req = B[e].req
         /\ \A f \in Epoch : f # e => C[f] = B[f]
BY DEF BindRec

GoingWith(B, e, p, t) == [B EXCEPT ![e].pc = p, ![e].s = t]

LEMMA GoingWithTyped ==
  ASSUME NEW B \in [Epoch -> BindRec], NEW e \in Epoch, NEW p \in Pcs, NEW t \in Session
  PROVE  GoingWith(B, e, p, t) \in [Epoch -> BindRec]
BY DEF GoingWith, BindRec

LEMMA Stopped == Off \in BindRec /\ Off.pc = "off"
BY DEF BindRec, Off, Pcs

LEMMA Begins ==
  ASSUME NEW B \in [Epoch -> BindRec], NEW e \in Epoch, NEW n \in BindRec, NEW C, C = [B EXCEPT ![e] = n]
  PROVE  /\ C \in [Epoch -> BindRec] /\ C[e] = n
         /\ \A f \in Epoch : f # e => C[f] = B[f]
OBVIOUS

(* A bind begins.                                                          *)
LEMMA AskStep ==
  ASSUME BindInvariant, NEW e \in Epoch, NEW q \in Request, Ask(e, q)
  PROVE  BindInvariant'
<1>t. BindTypes /\ BindValues
  BY BindTypedValues DEF BindInvariant
<1>m. bind \in [Epoch -> BindRec]
  BY <1>t DEF BindTypes
<1>1. PICK n \in BindRec : n.pc = "start" /\ n.req = q /\ bind' = [bind EXCEPT ![e] = n] /\ e = rec.epoch
  BY DEF Ask, Off, BindRec, Pcs
<1>B. bind' \in [Epoch -> BindRec]
  BY <1>m, <1>1, Begins
<1>C. bind'[e].pc = "start" /\ bind'[e].req \in Request /\ (\A f \in Epoch : f # e => bind'[f] = bind[f])
  BY <1>m, <1>1, Begins
<1>2. UNCHANGED <<rec, row, closeRow, rotations, used, made, asked, host, handed>>
  BY DEF Ask, journaled, broker
<1>BindTypes. BindTypes'
  BY <1>t, <1>B, <1>2 DEF BindTypes
<1>v. BindValues /\ BindValues'
  BY <1>t, <1>BindTypes, BindTypedValues, PTL
<1>NothingAhead. NothingAhead'
  BY <1>v, <1>1, <1>C, <1>2 DEF BindInvariant, BindValues, NothingAhead
<1>KeysApart. KeysApart'
  BY <1>v, <1>1, <1>C, <1>2 DEF BindInvariant, BindValues, KeysApart, NothingAhead
<1>RowsLead. RowsLead'
  BY <1>v, <1>1, <1>C, <1>2 DEF BindInvariant, BindValues, RowsLead, KeysApart, NothingAhead
<1>BoundRow. BoundRow'
  BY <1>v, <1>1, <1>C, <1>2
     DEF BindInvariant, BindValues, BoundRow, NothingAhead, BindsHaveRows, PcOf, OwnEpoch, KeysApart,
         RowsLead, NoneUnknown
<1>BindsHaveRows. BindsHaveRows'
  BY <1>v, <1>1, <1>C, <1>2
     DEF BindInvariant, BindValues, BindsHaveRows, PcOf, RowsLead, KeysApart, OwnEpoch, BoundRow
<1>BindsAsk. BindsAsk'
  BY <1>v, <1>1, <1>C, <1>2 DEF BindInvariant, BindValues, BindsAsk, PcOf
<1>OwnEpoch. OwnEpoch'
  BY <1>v, <1>1, <1>C, <1>2
     DEF BindInvariant, BindValues, OwnEpoch, BindsHaveRows, PcOf, BoundRow, KeysApart, RowsLead,
         NothingAhead
<1>HostsClosed. HostsClosed'
  BY <1>v, <1>1, <1>C, <1>2
     DEF BindInvariant, BindValues, HostsClosed, BindsHaveRows, PcOf, RowsLead, KeysApart, OwnEpoch, Live,
         ClosesFinal
<1>ClosesFinal. ClosesFinal'
  BY <1>v, <1>1, <1>C, <1>2
     DEF BindInvariant, BindValues, ClosesFinal, OwnEpoch, BindsHaveRows, PcOf, KeysApart, NothingAhead,
         Live
<1>NoneUnknown. NoneUnknown'
  BY <1>v, <1>1, <1>C, <1>2
     DEF BindInvariant, BindValues, NoneUnknown, BoundRow, OwnEpoch, BindsHaveRows, PcOf, RowsLead,
         KeysApart, NothingAhead, Live, HostsClosed
<1>HandedOut. HandedOut'
  BY <1>v, <1>1, <1>C, <1>2
     DEF BindInvariant, BindValues, HandedOut, BindsHaveRows, PcOf, RowsLead, KeysApart
<1> QED
  BY <1>BindTypes, <1>NothingAhead, <1>KeysApart, <1>RowsLead, <1>BoundRow, <1>BindsHaveRows, <1>BindsAsk,
     <1>OwnEpoch, <1>HostsClosed, <1>ClosesFinal, <1>NoneUnknown, <1>HandedOut DEF BindInvariant

(* A bind that finds a binding.                                            *)
LEMMA StartBoundStep ==
  ASSUME BindInvariant, NEW e \in Epoch, StartBound(e)
  PROVE  BindInvariant'
<1>t. BindTypes /\ BindValues
  BY BindTypedValues DEF BindInvariant
<1>m. bind \in [Epoch -> BindRec]
  BY <1>t DEF BindTypes
<1>1. PICK p \in Pcs, s \in Session :
        /\ bind' = [bind EXCEPT ![e].pc = p, ![e].s = s] /\ s = rec.sess /\ rec.epoch = e
        /\ \/ p = "inspect" /\ row[e] = NoRow
           \/ p = "replace" /\ row[e] # NoRow
           \/ p = "index" /\ row[e] # NoRow /\ row[e].req = bind[e].req
  <2>1. PICK s \in Session : s = rec.sess
    BY <1>t DEF StartBound, BindValues
  <2>2. PICK p : p = IF row[e] = NoRow THEN "inspect"
                     ELSE IF row[e].req # bind[e].req THEN "replace" ELSE "index"
    OBVIOUS
  <2>3. p \in Pcs
    BY <2>2 DEF Pcs
  <2>4. bind' = [bind EXCEPT ![e].pc = p, ![e].s = s] /\ rec.epoch = e
    BY <1>m, <2>1, <2>2 DEF StartBound
  <2> QED
    BY <2>1, <2>2, <2>3, <2>4
<1>E. bind' = [bind EXCEPT ![e].pc = p, ![e].s = s]
  BY <1>1
<1>D. bind[e].pc = "start" /\ rec.sess # 0
  BY DEF StartBound
<1>B. bind' \in [Epoch -> BindRec]
  BY <1>m, <1>E DEF BindRec
<1>C. /\ bind'[e].pc = p
      /\ bind'[e].s = rec.sess
      /\ rec.sess # 0
      /\ bind'[e].req = bind[e].req
      /\ (\A f \in Epoch : f # e => bind'[f] = bind[f])
      /\ rec.epoch = e /\ bind[e].pc = "start"
      /\ \/ p = "inspect" /\ row[e] = NoRow
         \/ p = "replace" /\ row[e] # NoRow
         \/ p = "index" /\ row[e] # NoRow /\ row[e].req = bind[e].req
  BY <1>m, <1>1, <1>E, <1>D, GoesWith
<1>2. UNCHANGED <<rec, row, closeRow, rotations, used, made, asked, host, handed>>
  BY DEF StartBound, journaled, broker
<1>BindTypes. BindTypes'
  BY <1>t, <1>B, <1>2 DEF BindTypes
<1>v. BindValues /\ BindValues'
  BY <1>t, <1>BindTypes, BindTypedValues, PTL
<1>NothingAhead. NothingAhead'
  BY <1>v, <1>C, <1>2 DEF BindInvariant, BindValues, NothingAhead
<1>KeysApart. KeysApart'
  BY <1>v, <1>C, <1>2 DEF BindInvariant, BindValues, KeysApart, NothingAhead
<1>RowsLead. RowsLead'
  BY <1>v, <1>C, <1>2 DEF BindInvariant, BindValues, RowsLead, KeysApart, NothingAhead
<1>BoundRow. BoundRow'
  BY <1>v, <1>C, <1>2
     DEF BindInvariant, BindValues, BoundRow, NothingAhead, BindsHaveRows, PcOf, OwnEpoch, KeysApart,
         RowsLead, NoneUnknown
<1>BindsHaveRows. BindsHaveRows'
  BY <1>v, <1>C, <1>2
     DEF BindInvariant, BindValues, BindsHaveRows, PcOf, RowsLead, KeysApart, OwnEpoch, BoundRow
<1>BindsAsk. BindsAsk'
  BY <1>v, <1>C, <1>2 DEF BindInvariant, BindValues, BindsAsk, PcOf
<1>OwnEpoch. OwnEpoch'
  BY <1>v, <1>C, <1>2
     DEF BindInvariant, BindValues, OwnEpoch, BindsHaveRows, PcOf, BoundRow, KeysApart, RowsLead,
         NothingAhead
<1>HostsClosed. HostsClosed'
  BY <1>v, <1>C, <1>2
     DEF BindInvariant, BindValues, HostsClosed, BindsHaveRows, PcOf, RowsLead, KeysApart, OwnEpoch, Live,
         ClosesFinal
<1>ClosesFinal. ClosesFinal'
  BY <1>v, <1>C, <1>2
     DEF BindInvariant, BindValues, ClosesFinal, OwnEpoch, BindsHaveRows, PcOf, KeysApart, NothingAhead,
         Live
<1>NoneUnknown. NoneUnknown'
  BY <1>v, <1>C, <1>2
     DEF BindInvariant, BindValues, NoneUnknown, BoundRow, OwnEpoch, BindsHaveRows, PcOf, RowsLead,
         KeysApart, NothingAhead, Live, HostsClosed
<1>HandedOut. HandedOut'
  BY <1>v, <1>C, <1>2 DEF BindInvariant, BindValues, HandedOut, BindsHaveRows, PcOf, RowsLead, KeysApart
<1> QED
  BY <1>BindTypes, <1>NothingAhead, <1>KeysApart, <1>RowsLead, <1>BoundRow, <1>BindsHaveRows, <1>BindsAsk,
     <1>OwnEpoch, <1>HostsClosed, <1>ClosesFinal, <1>NoneUnknown, <1>HandedOut DEF BindInvariant

(* A bind without one, and its journaled create.                           *)
LEMMA StartColdStep ==
  ASSUME BindInvariant, NEW e \in Epoch, StartCold(e)
  PROVE  BindInvariant'
<1>t. BindTypes /\ BindValues
  BY BindTypedValues DEF BindInvariant
<1>m. bind \in [Epoch -> BindRec]
  BY <1>t DEF BindTypes
<1>1. PICK p \in Pcs :
          /\ bind' = [bind EXCEPT ![e].pc = p]
          /\ ((row'[e].req = bind[e].req /\ p = "create") \/ p = "retire")
  BY <1>t DEF StartCold, Goto, Pcs, BindTypes
<1>B. bind' \in [Epoch -> BindRec]
  BY <1>m, <1>1, Goes
<1>C. /\ bind'[e].pc = p
      /\ bind'[e].s = bind[e].s
      /\ bind'[e].req = bind[e].req
      /\ (\A f \in Epoch : f # e => bind'[f] = bind[f])
      /\ (row'[e].req = bind[e].req /\ p = "create") \/ p = "retire"
  BY <1>m, <1>1, Goes
<1>R. PICK n : /\ row' = [row EXCEPT ![e] = n]
               /\ \/ row[e] # NoRow /\ n = row[e] /\ used' = used
                  \/ row[e] = NoRow /\ n = [key |-> used + 1, req |-> bind[e].req]
                     /\ used' = used + 1 /\ used + 1 \in Key
  BY DEF StartCold, Begun, Minted
<1>q. bind[e].pc = "start" /\ bind[e].req \in Request
  BY <1>t DEF StartCold, BindInvariant, BindsAsk, PcOf
<1>r. row \in [Epoch -> RowRec] /\ used \in Key \cup {0}
  BY <1>t DEF BindTypes
<1>S. n \in RowRec
  <2>1. CASE row[e] # NoRow /\ n = row[e]
    BY <1>r, <2>1
  <2>2. CASE n = [key |-> used + 1, req |-> bind[e].req] /\ used + 1 \in Key
    BY <1>q, <2>2 DEF RowRec
  <2> QED
    BY <1>R, <2>1, <2>2
<1>3. row' \in [Epoch -> RowRec] /\ used' \in Key \cup {0}
  <2>1. row' \in [Epoch -> RowRec]
    BY <1>r, <1>R, <1>S
  <2>2. used' \in Key \cup {0}
    BY <1>r, <1>R
  <2> QED
    BY <2>1, <2>2
<1>4. /\ \A f \in Epoch : f # e => row'[f] = row[f]
      /\ \/ row[e] # NoRow /\ row'[e] = row[e] /\ used' = used
         \/ row[e] = NoRow /\ row'[e] # NoRow /\ row'[e].key = used + 1 /\ used' = used + 1
      /\ rec.epoch # e \/ rec.sess = 0
      /\ row'[e] # NoRow /\ bind[e].pc = "start"
  <2>1. row'[e] = n /\ \A f \in Epoch : f # e => row'[f] = row[f]
    BY <1>t, <1>R DEF BindTypes
  <2>2. rec.epoch # e \/ rec.sess = 0
    BY DEF StartCold
  <2> QED
    BY <1>t, <1>R, <1>q, <2>1, <2>2 DEF NoRow, BindTypes
<1>2. UNCHANGED <<rec, closeRow, rotations, made, asked, host, handed>>
  BY DEF StartCold, journaled, broker
<1>BindTypes. BindTypes'
  BY <1>t, <1>B, <1>2, <1>3 DEF BindTypes
<1>v. BindValues /\ BindValues'
  BY <1>t, <1>BindTypes, BindTypedValues, PTL
<1>NothingAhead. NothingAhead'
  BY <1>v, <1>C, <1>2, <1>4 DEF BindInvariant, BindValues, NothingAhead
<1>KeysApart. KeysApart'
  <2>1. KeysApart /\ used \in Key \cup {0} /\ used' >= used
    BY <1>v, <1>4 DEF BindInvariant, BindValues
  <2>2. \A f \in Epoch : row'[f] # NoRow => row'[f].key <= used'
    BY <1>v, <1>4, <2>1 DEF KeysApart, BindValues
  <2>3. \A f \in Epoch : f # e /\ row'[f] # NoRow => row'[f] = row[f] /\ row'[f].key <= used
    BY <1>4, <2>1 DEF KeysApart
  <2>4. \A f, g \in Epoch : row'[f] # NoRow /\ row'[g] # NoRow /\ row'[f].key = row'[g].key => f = g
    BY <1>4, <2>1, <2>3 DEF KeysApart
  <2> QED
    BY <1>2, <2>1, <2>2, <2>4, <1>v DEF KeysApart, BindValues
<1>RowsLead. RowsLead'
  BY <1>v, <1>C, <1>2, <1>4 DEF BindInvariant, BindValues, RowsLead, KeysApart, NothingAhead
<1>BoundRow. BoundRow'
  BY <1>v, <1>C, <1>2, <1>4
     DEF BindInvariant, BindValues, BoundRow, NothingAhead, BindsHaveRows, PcOf, OwnEpoch, KeysApart,
         RowsLead, NoneUnknown
<1>BindsHaveRows. BindsHaveRows'
  BY <1>v, <1>C, <1>2, <1>4
     DEF BindInvariant, BindValues, BindsHaveRows, PcOf, RowsLead, KeysApart, OwnEpoch, BoundRow
<1>BindsAsk. BindsAsk'
  BY <1>v, <1>C, <1>2, <1>4 DEF BindInvariant, BindValues, BindsAsk, PcOf
<1>OwnEpoch. OwnEpoch'
  BY <1>v, <1>C, <1>2, <1>4
     DEF BindInvariant, BindValues, OwnEpoch, BindsHaveRows, PcOf, BoundRow, KeysApart, RowsLead,
         NothingAhead
<1>HostsClosed. HostsClosed'
  BY <1>v, <1>C, <1>2, <1>4
     DEF BindInvariant, BindValues, HostsClosed, BindsHaveRows, PcOf, RowsLead, KeysApart, OwnEpoch, Live,
         ClosesFinal
<1>ClosesFinal. ClosesFinal'
  BY <1>v, <1>C, <1>2, <1>4
     DEF BindInvariant, BindValues, ClosesFinal, OwnEpoch, BindsHaveRows, PcOf, KeysApart, NothingAhead,
         Live
<1>NoneUnknown. NoneUnknown'
  BY <1>v, <1>C, <1>2, <1>4
     DEF BindInvariant, BindValues, NoneUnknown, BoundRow, OwnEpoch, BindsHaveRows, PcOf, RowsLead,
         KeysApart, NothingAhead, Live, HostsClosed
<1>HandedOut. HandedOut'
  BY <1>v, <1>C, <1>2, <1>4
     DEF BindInvariant, BindValues, HandedOut, BindsHaveRows, PcOf, RowsLead, KeysApart
<1> QED
  BY <1>BindTypes, <1>NothingAhead, <1>KeysApart, <1>RowsLead, <1>BoundRow, <1>BindsHaveRows, <1>BindsAsk,
     <1>OwnEpoch, <1>HostsClosed, <1>ClosesFinal, <1>NoneUnknown, <1>HandedOut DEF BindInvariant

(* The origin is in its next epoch, and the bind with it.                  *)
Moved(e) ==
  /\ rec' \in [epoch : Epoch, sess : Session \cup {0}] /\ rec'.epoch = rec.epoch + 1 /\ rec'.sess = 0
  /\ bind' \in [Epoch -> BindRec] /\ bind'[e].pc = "off"
  /\ e # rec.epoch + 1 /\ rec.epoch + 1 \in Epoch
  /\ bind'[rec.epoch + 1].pc = "start" /\ bind'[rec.epoch + 1].req \in Request
  /\ \A f \in Epoch : f # e /\ f # rec.epoch + 1 => bind'[f] = bind[f]

(* A bind that moves on begins in an epoch nobody was in.                  *)
LEMMA MoveFacts ==
  ASSUME BindInvariant, NEW e \in Epoch, NEW r \in BOOLEAN, bind[e].pc # "off", MovesOn(e, r)
  PROVE  Moved(e)
<1>t. BindTypes /\ BindValues
  BY BindTypedValues DEF BindInvariant
<1>1. rec.epoch \in Epoch /\ rec.epoch < MaxEpoch
  BY <1>t DEF MovesOn, BindValues
<1>2. PICK n : n = rec.epoch + 1
  OBVIOUS
<1>3. n \in Epoch /\ n # e /\ bind[n].pc = "off"
  BY <1>1, <1>2 DEF BindInvariant, NothingAhead
<1>4. rec' \in [epoch : Epoch, sess : Session \cup {0}] /\ rec'.epoch = n /\ rec'.sess = 0
  BY <1>1, <1>2, <1>3 DEF MovesOn, Rotated
<1>5. bind[e].req \in Request
  BY DEF BindInvariant, BindsAsk, PcOf
<1>6. PICK m \in BindRec : /\ m.pc = "start" /\ m.req = bind[e].req
                           /\ bind' = [bind EXCEPT ![e] = Off, ![n] = m]
  <2>1. bind' = [bind EXCEPT ![e] = Off,
                             ![n] = IF @.pc = "off"
                                    THEN [Off EXCEPT !.pc = "start", !.req = bind[e].req, !.recovery = r] ELSE @]
    BY <1>2 DEF MovesOn
  <2>2. PICK m : m = [Off EXCEPT !.pc = "start", !.req = bind[e].req, !.recovery = r]
    OBVIOUS
  <2>3. m \in BindRec /\ m.pc = "start" /\ m.req = bind[e].req
    BY <1>5, <2>2 DEF Off, BindRec, Pcs
  <2>4. bind \in [Epoch -> BindRec]
    BY <1>t DEF BindTypes
  <2>5. bind' = [bind EXCEPT ![e] = Off, ![n] = m]
    BY <1>3, <2>1, <2>2, <2>4
  <2> QED
    BY <2>3, <2>5
<1>7. Off \in BindRec /\ Off.pc = "off"
  BY DEF Off, BindRec, Pcs
<1>8. /\ bind' \in [Epoch -> BindRec] /\ bind'[e] = Off /\ bind'[n] = m
      /\ \A f \in Epoch : f # e /\ f # n => bind'[f] = bind[f]
  <2>1. bind \in [Epoch -> BindRec]
    BY <1>t DEF BindTypes
  <2> QED
    BY <1>3, <1>6, <1>7, <2>1
<1> QED
  BY <1>2, <1>3, <1>4, <1>5, <1>6, <1>7, <1>8 DEF Moved

(* Steps that only end binds, or end and resume hosts: one that comes back *)
(* is the bound one.                                                       *)
LEMMA QuietStep ==
  ASSUME BindInvariant, BindTypes', UNCHANGED <<rec, row, used, made, asked, handed>>,
         \A f \in Epoch : bind'[f] = bind[f] \/ bind'[f].pc = "off",
         \A t \in Session : host'[t] = "none" <=> host[t] = "none",
         \A t \in Session : closeRow'[t] # closeRow[t] => host[t] # "none",
         \A t \in Session : closeRow'[t] = "complete" => ~Live(t)',
         \A t \in Session : Live(t)' /\ ~Live(t)
           => \E f \in Epoch : bind[f].pc = "inspect" /\ bind[f].s = t /\ bind'[f].pc = "off"
  PROVE  BindInvariant'
<1>t. BindTypes /\ BindValues
  BY BindTypedValues DEF BindInvariant
<1>m. bind \in [Epoch -> BindRec]
  BY <1>t DEF BindTypes

<1>BindTypes. BindTypes'
  BY <1>t, <1>t DEF BindTypes
<1>v. BindValues /\ BindValues'
  BY <1>t, <1>BindTypes, BindTypedValues, PTL
<1>NothingAhead. NothingAhead'
  BY <1>v, <1>v DEF BindInvariant, BindValues, NothingAhead
<1>KeysApart. KeysApart'
  BY <1>v, <1>v DEF BindInvariant, BindValues, KeysApart, NothingAhead
<1>RowsLead. RowsLead'
  BY <1>v, <1>v DEF BindInvariant, BindValues, RowsLead, KeysApart, NothingAhead
<1>BoundRow. BoundRow'
  BY <1>v, <1>v DEF BindInvariant, BindValues, BoundRow, NothingAhead, BindsHaveRows, PcOf, OwnEpoch,
         KeysApart, RowsLead, NoneUnknown
<1>BindsHaveRows. BindsHaveRows'
  BY <1>v, <1>v DEF BindInvariant, BindValues, BindsHaveRows, PcOf, RowsLead, KeysApart, OwnEpoch, BoundRow
<1>BindsAsk. BindsAsk'
  BY <1>v, <1>v DEF BindInvariant, BindValues, BindsAsk, PcOf
<1>OwnEpoch. OwnEpoch'
  BY <1>v, <1>v DEF BindInvariant, BindValues, OwnEpoch, BindsHaveRows, PcOf, BoundRow, KeysApart,
         RowsLead, NothingAhead
<1>HostsClosed. HostsClosed'
  <2> SUFFICES ASSUME NEW f \in Epoch, bind'[f].pc \in {"closed", "replaced"},
                      host'[bind'[f].s] \in {"cold", "live"}
               PROVE  FALSE
    BY DEF HostsClosed, PcOf, Live
  <2>1. bind'[f] = bind[f]
    OBVIOUS
  <2>2. row[f] # NoRow /\ bind[f].s # 0 /\ made[row[f].key] = bind[f].s
    BY <2>1 DEF BindInvariant, BindsHaveRows, PcOf
  <2>3. asked[bind[f].s].epoch = f
    BY <2>2 DEF BindInvariant, RowsLead
  <2>4. bind[f].s \in Session /\ ~Live(bind[f].s) /\ Live(bind[f].s)'
    BY <1>v, <2>1, <2>2 DEF BindInvariant, BindValues, HostsClosed, PcOf, Live
  <2>5. PICK g \in Epoch : bind[g].pc = "inspect" /\ bind[g].s = bind[f].s
    BY <2>4
  <2>6. asked[bind[g].s].epoch = g
    BY <2>5 DEF BindInvariant, OwnEpoch, PcOf
  <2> QED
    BY <2>1, <2>3, <2>5, <2>6
<1>ClosesFinal. ClosesFinal'
  BY <1>v, <1>v DEF BindInvariant, BindValues, ClosesFinal, OwnEpoch, BindsHaveRows, PcOf, KeysApart,
         NothingAhead, Live
<1>NoneUnknown. NoneUnknown'
  BY <1>v, <1>v DEF BindInvariant, BindValues, NoneUnknown, BoundRow, OwnEpoch, BindsHaveRows, PcOf,
         RowsLead, KeysApart, NothingAhead, Live, HostsClosed
<1>HandedOut. HandedOut'
  BY <1>v, <1>v DEF BindInvariant, BindValues, HandedOut, BindsHaveRows, PcOf, RowsLead, KeysApart
<1> QED
  BY <1>BindTypes, <1>NothingAhead, <1>KeysApart, <1>RowsLead, <1>BoundRow, <1>BindsHaveRows, <1>BindsAsk,
     <1>OwnEpoch, <1>HostsClosed, <1>ClosesFinal, <1>NoneUnknown, <1>HandedOut DEF BindInvariant

(* Steps that take the origin to its next epoch leave nothing of that epoch*)
(* behind.                                                                 *)
LEMMA LeaveStep ==
  ASSUME BindInvariant, BindTypes', UNCHANGED <<used, made, asked, host, handed>>,
         rec'.epoch = rec.epoch + 1, rec'.sess = 0,
         NEW n, n = rec.epoch + 1, n \in Epoch,
         \A f \in Epoch : row'[f] = row[f] \/ (row'[f] = NoRow /\ bind'[f].pc = "off"),
         \A f \in Epoch : f # n => bind'[f] = bind[f] \/ bind'[f].pc = "off",
         bind'[n].pc = "off" \/ (bind'[n].pc = "start" /\ bind'[n].req \in Request),
         \A t \in Session : closeRow'[t] # closeRow[t] => host[t] # "none",
         \A t \in Session : closeRow'[t] = "complete" => ~Live(t)
  PROVE  BindInvariant'
<1>t. BindTypes /\ BindValues
  BY BindTypedValues DEF BindInvariant
<1>m. bind \in [Epoch -> BindRec]
  BY <1>t DEF BindTypes

<1>BindTypes. BindTypes'
  BY <1>t, <1>t DEF BindTypes
<1>v. BindValues /\ BindValues'
  BY <1>t, <1>BindTypes, BindTypedValues, PTL
<1>NothingAhead. NothingAhead'
  <2>1. ASSUME NEW f \in Epoch, f > rec'.epoch PROVE row'[f] = NoRow /\ bind'[f].pc = "off"
    <3>1. f > rec.epoch /\ f # n
      BY <1>v, <2>1 DEF BindValues
    <3>2. row[f] = NoRow /\ bind[f].pc = "off"
      BY <3>1 DEF BindInvariant, NothingAhead
    <3> QED
      BY <3>1, <3>2
  <2>2. ASSUME NEW t \in Session, host[t] # "none" PROVE asked[t].epoch <= rec'.epoch
    <3>1. asked[t].epoch <= rec.epoch
      BY <2>2 DEF BindInvariant, NothingAhead
    <3> QED
      BY <1>v, <3>1 DEF BindValues
  <2>3. ASSUME NEW t \in Session, host[t] = "none" PROVE closeRow'[t] = "none"
    BY <2>3 DEF BindInvariant, NothingAhead
  <2> QED
    BY <2>1, <2>2, <2>3 DEF NothingAhead
<1>KeysApart. KeysApart'
  <2>1. \A f \in Epoch : row'[f] # NoRow => row'[f] = row[f]
    OBVIOUS
  <2>2. KeysApart
    BY DEF BindInvariant
  <2>3. \A f \in Epoch : row'[f] # NoRow => row'[f].key <= used
    BY <2>1, <2>2 DEF KeysApart
  <2>4. \A f, g \in Epoch : row'[f] # NoRow /\ row'[g] # NoRow /\ row'[f].key = row'[g].key => f = g
    BY <2>1, <2>2 DEF KeysApart
  <2> QED
    BY <2>2, <2>3, <2>4 DEF KeysApart
<1>RowsLead. RowsLead'
  BY <1>v, <1>v DEF BindInvariant, BindValues, RowsLead, KeysApart, NothingAhead
<1>BoundRow. BoundRow'
  BY <1>v, <1>v DEF BindInvariant, BindValues, BoundRow, NothingAhead, BindsHaveRows, PcOf, OwnEpoch,
         KeysApart, RowsLead, NoneUnknown
<1>BindsHaveRows. BindsHaveRows'
  BY <1>v, <1>v DEF BindInvariant, BindValues, BindsHaveRows, PcOf, RowsLead, KeysApart, OwnEpoch, BoundRow
<1>BindsAsk. BindsAsk'
  BY <1>v, <1>v DEF BindInvariant, BindValues, BindsAsk, PcOf
<1>OwnEpoch. OwnEpoch'
  BY <1>v, <1>v DEF BindInvariant, BindValues, OwnEpoch, BindsHaveRows, PcOf, BoundRow, KeysApart,
         RowsLead, NothingAhead
<1>HostsClosed. HostsClosed'
  BY <1>v, <1>v DEF BindInvariant, BindValues, HostsClosed, BindsHaveRows, PcOf, RowsLead, KeysApart,
         OwnEpoch, Live, ClosesFinal
<1>ClosesFinal. ClosesFinal'
  BY <1>v, <1>v DEF BindInvariant, BindValues, ClosesFinal, OwnEpoch, BindsHaveRows, PcOf, KeysApart,
         NothingAhead, Live
<1>NoneUnknown. NoneUnknown'
  BY <1>v, <1>v DEF BindInvariant, BindValues, NoneUnknown, BoundRow, OwnEpoch, BindsHaveRows, PcOf,
         RowsLead, KeysApart, NothingAhead, Live, HostsClosed
<1>HandedOut. HandedOut'
  BY <1>v, <1>v DEF BindInvariant, BindValues, HandedOut, BindsHaveRows, PcOf, RowsLead, KeysApart
<1> QED
  BY <1>BindTypes, <1>NothingAhead, <1>KeysApart, <1>RowsLead, <1>BoundRow, <1>BindsHaveRows, <1>BindsAsk,
     <1>OwnEpoch, <1>HostsClosed, <1>ClosesFinal, <1>NoneUnknown, <1>HandedOut DEF BindInvariant

(* A row is dropped only once what its key made is bound, over, or of an   *)
(* earlier epoch.                                                          *)
LEMMA DropStep ==
  ASSUME BindInvariant, NEW e \in Epoch, BindTypes', UNCHANGED <<rec, used, made, asked, host, closeRow>>,
         bind[e].pc # "off", row[e] # NoRow,
         row'[e] = NoRow, \A f \in Epoch : f # e => row'[f] = row[f] /\ bind'[f] = bind[f],
         bind'[e].pc = "off" \/ (bind'[e].pc = "start" /\ bind'[e].req = bind[e].req),
         made[row[e].key] = 0 \/ made[row[e].key] = rec.sess \/ ~Live(made[row[e].key]) \/ e # rec.epoch,
         handed' = handed \/ (bind[e].pc = "index" /\ handed'.s = bind[e].s /\ handed'.req = bind[e].req)
  PROVE  BindInvariant'
<1>t. BindTypes /\ BindValues
  BY BindTypedValues DEF BindInvariant
<1>m. bind \in [Epoch -> BindRec]
  BY <1>t DEF BindTypes

<1>BindTypes. BindTypes'
  BY <1>t, <1>t DEF BindTypes
<1>v. BindValues /\ BindValues'
  BY <1>t, <1>BindTypes, BindTypedValues, PTL
<1>NothingAhead. NothingAhead'
  BY <1>v, <1>v DEF BindInvariant, BindValues, NothingAhead
<1>KeysApart. KeysApart'
  <2>1. \A f \in Epoch : row'[f] # NoRow => row'[f] = row[f]
    OBVIOUS
  <2>2. KeysApart
    BY DEF BindInvariant
  <2>3. \A f \in Epoch : row'[f] # NoRow => row'[f].key <= used
    BY <2>1, <2>2 DEF KeysApart
  <2>4. \A f, g \in Epoch : row'[f] # NoRow /\ row'[g] # NoRow /\ row'[f].key = row'[g].key => f = g
    BY <2>1, <2>2 DEF KeysApart
  <2> QED
    BY <2>2, <2>3, <2>4 DEF KeysApart
<1>RowsLead. RowsLead'
  BY <1>v, <1>v DEF BindInvariant, BindValues, RowsLead, KeysApart, NothingAhead
<1>BoundRow. BoundRow'
  BY <1>v, <1>v DEF BindInvariant, BindValues, BoundRow, NothingAhead, BindsHaveRows, PcOf, OwnEpoch,
         KeysApart, RowsLead, NoneUnknown
<1>BindsHaveRows. BindsHaveRows'
  BY <1>v, <1>v DEF BindInvariant, BindValues, BindsHaveRows, PcOf, RowsLead, KeysApart, OwnEpoch, BoundRow
<1>BindsAsk. BindsAsk'
  BY <1>v, <1>v DEF BindInvariant, BindValues, BindsAsk, PcOf
<1>OwnEpoch. OwnEpoch'
  BY <1>v, <1>v DEF BindInvariant, BindValues, OwnEpoch, BindsHaveRows, PcOf, BoundRow, KeysApart,
         RowsLead, NothingAhead
<1>HostsClosed. HostsClosed'
  BY <1>v, <1>v DEF BindInvariant, BindValues, HostsClosed, BindsHaveRows, PcOf, RowsLead, KeysApart,
         OwnEpoch, Live, ClosesFinal
<1>ClosesFinal. ClosesFinal'
  BY <1>v, <1>v DEF BindInvariant, BindValues, ClosesFinal, OwnEpoch, BindsHaveRows, PcOf, KeysApart,
         NothingAhead, Live
<1>NoneUnknown. NoneUnknown'
  <2> SUFFICES ASSUME NEW s \in Session, Live(s), asked[s].epoch = rec.epoch, s # rec.sess
               PROVE  row'[rec.epoch] # NoRow /\ made[row'[rec.epoch].key] = s
    BY DEF NoneUnknown, Live
  <2>1. row[rec.epoch] # NoRow /\ made[row[rec.epoch].key] = s
    BY DEF BindInvariant, NoneUnknown
  <2>2. rec.epoch # e
    BY <2>1
  <2> QED
    BY <1>v, <2>1, <2>2 DEF BindValues
<1>HandedOut. HandedOut'
  BY <1>v, <1>v DEF BindInvariant, BindValues, HandedOut, BindsHaveRows, PcOf, RowsLead, KeysApart
<1> QED
  BY <1>BindTypes, <1>NothingAhead, <1>KeysApart, <1>RowsLead, <1>BoundRow, <1>BindsHaveRows, <1>BindsAsk,
     <1>OwnEpoch, <1>HostsClosed, <1>ClosesFinal, <1>NoneUnknown, <1>HandedOut DEF BindInvariant

(* The steps of a bind that ends, and of its host.                         *)
LEMMA QuietSteps ==
  ASSUME BindInvariant,
         \/ \E s \in Session : Index(s)
         \/ \E s \in Session, to \in {"dead", "deleted"} : HostEnds(s, to)
         \/ GatewayDies
  PROVE  BindInvariant'
<1>t. BindTypes
  BY DEF BindInvariant
<1>1. ASSUME NEW s \in Session, Index(s) PROVE BindInvariant'
  <2>1. UNCHANGED <<rec, row, used, made, asked, handed, bind, closeRow, rotations>>
    BY <1>1 DEF Index, journaled
  <2>2. host[s] = "cold" /\ host' = [host EXCEPT ![s] = "live"]
    BY <1>1 DEF Index
  <2>3. BindTypes'
    BY <1>t, <2>1, <2>2 DEF BindTypes, Hosts
  <2>4. \A t \in Session : host'[t] = IF t = s THEN "live" ELSE host[t]
    BY <1>t, <2>2 DEF BindTypes
  <2> QED
    BY <2>1, <2>2, <2>3, <2>4, QuietStep DEF Live, BindInvariant, ClosesFinal
<1>2. ASSUME NEW s \in Session, NEW to \in {"dead", "deleted"}, HostEnds(s, to) PROVE BindInvariant'
  <2>1. UNCHANGED <<rec, row, used, made, asked, handed, bind, closeRow, rotations>>
    BY <1>2 DEF HostEnds, journaled
  <2>2. Live(s) /\ host' = [host EXCEPT ![s] = to]
    BY <1>2 DEF HostEnds
  <2>3. BindTypes'
    BY <1>t, <2>1, <2>2 DEF BindTypes, Hosts
  <2>4. \A t \in Session : host'[t] = IF t = s THEN to ELSE host[t]
    BY <1>t, <2>2 DEF BindTypes
  <2> QED
    BY <2>1, <2>2, <2>3, <2>4, QuietStep DEF Live, BindInvariant, ClosesFinal
<1>3. ASSUME GatewayDies PROVE BindInvariant'
  <2>1. UNCHANGED <<rec, row, used, made, asked, handed, host, closeRow, rotations>>
    BY <1>3 DEF GatewayDies, journaled, broker
  <2>2. bind' = [e \in Epoch |-> Off] /\ Off \in BindRec /\ Off.pc = "off"
    BY <1>3 DEF GatewayDies, Off, BindRec, Pcs
  <2>3. BindTypes'
    BY <1>t, <2>1, <2>2 DEF BindTypes
  <2> QED
    BY <2>1, <2>2, <2>3, QuietStep DEF BindInvariant, ClosesFinal, Live
<1> QED
  BY <1>1, <1>2, <1>3

LEMMA IndexFailsStep ==
  ASSUME BindInvariant, NEW e \in Epoch, IndexFails(e)
  PROVE  BindInvariant'
<1>t. BindTypes /\ BindValues
  BY BindTypedValues DEF BindInvariant
<1>m. bind \in [Epoch -> BindRec]
  BY <1>t DEF BindTypes
<1>1. bind' = [bind EXCEPT ![e] = Off]
  BY DEF IndexFails, BindEnds, Throws
<1>2. bind' \in [Epoch -> BindRec] /\ bind'[e].pc = "off" /\ \A f \in Epoch : f # e => bind'[f] = bind[f]
  BY <1>m, <1>1, Stopped
<1>3. UNCHANGED <<rec, row, used, made, asked, handed, host, closeRow, rotations>>
  BY DEF IndexFails, Throws, journaled, broker
<1>4. BindTypes'
  BY <1>t, <1>2, <1>3 DEF BindTypes
<1> QED
  BY <1>2, <1>3, <1>4, QuietStep DEF BindInvariant, ClosesFinal, Live

LEMMA InspectLiveStep ==
  ASSUME BindInvariant, NEW e \in Epoch, InspectLive(e)
  PROVE  BindInvariant'
<1>t. BindTypes /\ BindValues
  BY BindTypedValues DEF BindInvariant
<1>m. bind \in [Epoch -> BindRec]
  BY <1>t DEF BindTypes
<1>1. bind' = [bind EXCEPT ![e] = Off]
  BY DEF InspectLive, BindEnds, Throws
<1>2. bind' \in [Epoch -> BindRec] /\ bind'[e].pc = "off" /\ \A f \in Epoch : f # e => bind'[f] = bind[f]
  BY <1>m, <1>1, Stopped
<1>s. bind[e].s \in Session /\ host[bind[e].s] # "none"
  BY <1>t DEF InspectLive, BindInvariant, OwnEpoch, PcOf, BindValues
<1>3. UNCHANGED <<rec, row, used, made, asked, handed, host>> /\ rotations' = 0
  BY DEF InspectLive, broker
<1>4. closeRow' = [closeRow EXCEPT ![bind[e].s] = "none"]
  BY DEF InspectLive
<1>5. \A t \in Session : closeRow'[t] = IF t = bind[e].s THEN "none" ELSE closeRow[t]
  BY <1>t, <1>s, <1>4 DEF BindTypes
<1>6. BindTypes'
  <2>1. closeRow' \in [Session -> {"none", "pending", "complete"}]
    BY <1>t, <1>4 DEF BindTypes
  <2>2. rotations' \in 0..MaxRotations
    BY <1>3, BindAssumption
  <2> QED
    BY <1>t, <1>2, <1>3, <2>1, <2>2 DEF BindTypes
<1> QED
  BY <1>2, <1>s, <1>3, <1>5, <1>6, QuietStep DEF BindInvariant, ClosesFinal, Live

LEMMA InspectFailsStep ==
  ASSUME BindInvariant, NEW e \in Epoch, NEW b \in BOOLEAN, InspectFails(e, b)
  PROVE  BindInvariant'
<1>t. BindTypes /\ BindValues
  BY BindTypedValues DEF BindInvariant
<1>r. rotations \in 0..MaxRotations
  BY <1>t DEF BindTypes
<1>m. bind \in [Epoch -> BindRec]
  BY <1>t DEF BindTypes
<1>1. bind' = [bind EXCEPT ![e] = Off]
  BY DEF InspectFails, BindEnds, Throws
<1>2. bind' \in [Epoch -> BindRec] /\ bind'[e].pc = "off" /\ \A f \in Epoch : f # e => bind'[f] = bind[f]
  BY <1>m, <1>1, Stopped
<1>3. UNCHANGED <<rec, row, used, made, asked, handed, host, closeRow>> /\ rotations' \in {0, rotations}
  BY DEF InspectFails, broker
<1>4. BindTypes'
  <2>1. rotations' \in 0..MaxRotations
    BY <1>r, <1>3, BindAssumption
  <2> QED
    BY <1>t, <1>2, <1>3, <2>1 DEF BindTypes
<1> QED
  BY <1>2, <1>3, <1>4, QuietStep DEF BindInvariant, ClosesFinal, Live

LEMMA ResumeStep ==
  ASSUME BindInvariant, NEW e \in Epoch, Resume(e)
  PROVE  BindInvariant'
<1>t. BindTypes /\ BindValues
  BY BindTypedValues DEF BindInvariant
<1>r. rotations \in 0..MaxRotations
  BY <1>t DEF BindTypes
<1>m. bind \in [Epoch -> BindRec]
  BY <1>t DEF BindTypes
<1>1. bind' = [bind EXCEPT ![e] = Off]
  BY DEF Resume, BindEnds, Throws
<1>2. bind' \in [Epoch -> BindRec] /\ bind'[e].pc = "off" /\ \A f \in Epoch : f # e => bind'[f] = bind[f]
  BY <1>m, <1>1, Stopped
<1>s. bind[e].s \in Session /\ host[bind[e].s] # "none"
  BY <1>t DEF Resume, BindInvariant, OwnEpoch, PcOf, BindValues
<1>3. UNCHANGED <<rec, row, used, made, asked, handed>> /\ rotations' \in {0, rotations} /\ bind[e].pc = "inspect"
  BY DEF Resume
<1>4. closeRow' = [closeRow EXCEPT ![bind[e].s] = "none"] /\ host' \in {host, [host EXCEPT ![bind[e].s] = "live"]}
  BY DEF Resume
<1>5. \A t \in Session : closeRow'[t] = IF t = bind[e].s THEN "none" ELSE closeRow[t]
  BY <1>t, <1>s, <1>4 DEF BindTypes
<1>6. \A t \in Session : host'[t] = host[t] \/ (t = bind[e].s /\ host'[t] = "live")
  BY <1>t, <1>s, <1>4 DEF BindTypes
<1>7. host' \in [Session -> Hosts]
  BY <1>t, <1>s, <1>4 DEF BindTypes, Hosts
<1>8. BindTypes'
  <2>1. closeRow' \in [Session -> {"none", "pending", "complete"}]
    BY <1>t, <1>s, <1>4 DEF BindTypes
  <2>2. rotations' \in 0..MaxRotations
    BY <1>r, <1>3, BindAssumption
  <2> QED
    BY <1>t, <1>2, <1>3, <1>7, <2>1, <2>2 DEF BindTypes
<1> QED
  BY <1>2, <1>s, <1>3, <1>5, <1>6, <1>8, QuietStep DEF BindInvariant, ClosesFinal, Live

LEMMA ResumeFailsStep ==
  ASSUME BindInvariant, NEW e \in Epoch, NEW b \in BOOLEAN, ResumeFails(e, b)
  PROVE  BindInvariant'
<1>t. BindTypes /\ BindValues
  BY BindTypedValues DEF BindInvariant
<1>r. rotations \in 0..MaxRotations
  BY <1>t DEF BindTypes
<1>m. bind \in [Epoch -> BindRec]
  BY <1>t DEF BindTypes
<1>1. bind' = [bind EXCEPT ![e] = Off]
  BY DEF ResumeFails, BindEnds, Throws
<1>2. bind' \in [Epoch -> BindRec] /\ bind'[e].pc = "off" /\ \A f \in Epoch : f # e => bind'[f] = bind[f]
  BY <1>m, <1>1, Stopped
<1>s. bind[e].s \in Session /\ host[bind[e].s] # "none"
  BY <1>t DEF ResumeFails, BindInvariant, OwnEpoch, PcOf, BindValues
<1>3. UNCHANGED <<rec, row, used, made, asked, handed>> /\ rotations' \in {0, rotations} /\ bind[e].pc = "inspect"
  BY DEF ResumeFails
<1>4. closeRow' = [closeRow EXCEPT ![bind[e].s] = "none"] /\ host' \in {host, [host EXCEPT ![bind[e].s] = "live"]}
  BY DEF ResumeFails
<1>5. \A t \in Session : closeRow'[t] = IF t = bind[e].s THEN "none" ELSE closeRow[t]
  BY <1>t, <1>s, <1>4 DEF BindTypes
<1>6. \A t \in Session : host'[t] = host[t] \/ (t = bind[e].s /\ host'[t] = "live")
  BY <1>t, <1>s, <1>4 DEF BindTypes
<1>7. host' \in [Session -> Hosts]
  BY <1>t, <1>s, <1>4 DEF BindTypes, Hosts
<1>8. BindTypes'
  <2>1. closeRow' \in [Session -> {"none", "pending", "complete"}]
    BY <1>t, <1>s, <1>4 DEF BindTypes
  <2>2. rotations' \in 0..MaxRotations
    BY <1>r, <1>3, BindAssumption
  <2> QED
    BY <1>t, <1>2, <1>3, <1>7, <2>1, <2>2 DEF BindTypes
<1> QED
  BY <1>2, <1>s, <1>3, <1>5, <1>6, <1>8, QuietStep DEF BindInvariant, ClosesFinal, Live

LEMMA CloseFailsStep ==
  ASSUME BindInvariant, NEW e \in Epoch, NEW b \in BOOLEAN, CloseFails(e, b)
  PROVE  BindInvariant'
<1>t. BindTypes /\ BindValues
  BY BindTypedValues DEF BindInvariant
<1>m. bind \in [Epoch -> BindRec]
  BY <1>t DEF BindTypes
<1>1. bind' = [bind EXCEPT ![e] = Off]
  BY DEF CloseFails, BindEnds, Throws
<1>2. bind' \in [Epoch -> BindRec] /\ bind'[e].pc = "off" /\ \A f \in Epoch : f # e => bind'[f] = bind[f]
  BY <1>m, <1>1, Stopped
<1>s. bind[e].s \in Session /\ host[bind[e].s] # "none"
  BY <1>t DEF CloseFails, Closing, BindInvariant, BindsHaveRows, PcOf, KeysApart, BindValues
<1>3. UNCHANGED <<rec, row, used, made, asked, handed, rotations>>
  BY DEF CloseFails
<1>4. closeRow' = [closeRow EXCEPT ![bind[e].s] = "pending"] /\ host' \in {host, [host EXCEPT ![bind[e].s] = "dead"]}
  BY DEF CloseFails
<1>5. \A t \in Session : closeRow'[t] = IF t = bind[e].s THEN "pending" ELSE closeRow[t]
  BY <1>t, <1>s, <1>4 DEF BindTypes
<1>6. \A t \in Session : host'[t] = host[t] \/ (t = bind[e].s /\ host'[t] = "dead")
  BY <1>t, <1>s, <1>4 DEF BindTypes
<1>7. host' \in [Session -> Hosts]
  BY <1>t, <1>s, <1>4 DEF BindTypes, Hosts
<1>8. BindTypes'
  BY <1>t, <1>s, <1>2, <1>3, <1>4, <1>7 DEF BindTypes
<1> QED
  BY <1>2, <1>s, <1>3, <1>5, <1>6, <1>8, QuietStep DEF BindInvariant, ClosesFinal, Live

LEMMA ClosesStep ==
  ASSUME BindInvariant, NEW e \in Epoch, Closes(e)
  PROVE  BindInvariant'
<1>t. BindTypes /\ BindValues
  BY BindTypedValues DEF BindInvariant
<1>m. bind \in [Epoch -> BindRec]
  BY <1>t DEF BindTypes
<1>1. PICK p \in Pcs :
          /\ bind' = [bind EXCEPT ![e].pc = p]
          /\ ((bind[e].pc = "close" /\ p = "closed") \/ (bind[e].pc = "replace" /\ p = "replaced"))
  BY DEF Closes, Goto, Pcs, Closing
<1>B. bind' \in [Epoch -> BindRec]
  BY <1>m, <1>1, Goes
<1>C. /\ bind'[e].pc = p
      /\ bind'[e].s = bind[e].s
      /\ bind'[e].req = bind[e].req
      /\ (\A f \in Epoch : f # e => bind'[f] = bind[f])
      /\ (bind[e].pc = "close" /\ p = "closed") \/ (bind[e].pc = "replace" /\ p = "replaced")
  BY <1>m, <1>1, Goes
<1>s. bind[e].s \in Session /\ host[bind[e].s] # "none"
  BY <1>t DEF Closes, Closing, BindInvariant, BindsHaveRows, PcOf, KeysApart, BindValues
<1>2. UNCHANGED <<rec, row, rotations, used, made, asked, handed>>
  BY DEF Closes
<1>3. \/ closeRow[bind[e].s] = "complete" /\ host' = host /\ closeRow' = closeRow
      \/ /\ host' = [host EXCEPT ![bind[e].s] = IF Live(bind[e].s) THEN "dead" ELSE @]
         /\ \E c \in {"none", "complete"} : closeRow' = [closeRow EXCEPT ![bind[e].s] = c]
  BY DEF Closes
<1>h. host \in [Session -> Hosts] /\ closeRow \in [Session -> {"none", "pending", "complete"}]
  BY <1>t DEF BindTypes
<1>4. host' \in [Session -> Hosts] /\ closeRow' \in [Session -> {"none", "pending", "complete"}]
  <2>1. (IF Live(bind[e].s) THEN "dead" ELSE host[bind[e].s]) \in Hosts
    BY <1>h, <1>s DEF Hosts
  <2>2. host' \in [Session -> Hosts]
    BY <1>h, <1>s, <1>3, <2>1
  <2>3. closeRow' \in [Session -> {"none", "pending", "complete"}]
    BY <1>h, <1>s, <1>3
  <2> QED
    BY <2>2, <2>3
<1>5. /\ \A t \in Session : t # bind[e].s => host'[t] = host[t] /\ closeRow'[t] = closeRow[t]
      /\ host'[bind[e].s] \notin {"none", "cold", "live"}
  <2>1. CASE closeRow[bind[e].s] = "complete" /\ host' = host /\ closeRow' = closeRow
    BY <1>t, <1>s, <2>1 DEF BindInvariant, ClosesFinal, Live
  <2>2. CASE /\ host' = [host EXCEPT ![bind[e].s] = IF Live(bind[e].s) THEN "dead" ELSE @]
             /\ \E c \in {"none", "complete"} : closeRow' = [closeRow EXCEPT ![bind[e].s] = c]
    BY <1>t, <1>s, <2>2 DEF BindTypes, Live
  <2> QED
    BY <1>3, <2>1, <2>2
<1>BindTypes. BindTypes'
  BY <1>t, <1>B, <1>2, <1>4 DEF BindTypes
<1>v. BindValues /\ BindValues'
  BY <1>t, <1>BindTypes, BindTypedValues, PTL
<1>NothingAhead. NothingAhead'
  BY <1>v, <1>s, <1>C, <1>2, <1>5 DEF BindInvariant, BindValues, NothingAhead, Live
<1>KeysApart. KeysApart'
  BY <1>v, <1>s, <1>C, <1>2, <1>5 DEF BindInvariant, BindValues, KeysApart, NothingAhead, Live
<1>RowsLead. RowsLead'
  BY <1>v, <1>s, <1>C, <1>2, <1>5 DEF BindInvariant, BindValues, RowsLead, KeysApart, NothingAhead, Live
<1>BoundRow. BoundRow'
  BY <1>v, <1>s, <1>C, <1>2, <1>5
     DEF BindInvariant, BindValues, BoundRow, NothingAhead, BindsHaveRows, PcOf, OwnEpoch, KeysApart,
         RowsLead, NoneUnknown, Live
<1>BindsHaveRows. BindsHaveRows'
  BY <1>v, <1>s, <1>C, <1>2, <1>5
     DEF BindInvariant, BindValues, BindsHaveRows, PcOf, RowsLead, KeysApart, OwnEpoch, BoundRow, Live
<1>BindsAsk. BindsAsk'
  BY <1>v, <1>s, <1>C, <1>2, <1>5 DEF BindInvariant, BindValues, BindsAsk, PcOf, Live
<1>OwnEpoch. OwnEpoch'
  <2> SUFFICES ASSUME NEW f \in Epoch
               PROVE  /\ bind'[f].pc = "inspect" =>
                           bind'[f].s # 0 /\ host'[bind'[f].s] # "none" /\ asked[bind'[f].s].epoch = f
                      /\ f = rec.epoch /\ bind'[f].pc \in {"create", "retire", "record", "close", "closed"}
                           => rec.sess = 0
                      /\ f = rec.epoch /\ bind'[f].pc \in {"index", "inspect", "replace", "replaced"}
                           => rec.sess = bind'[f].s
    BY <1>2 DEF OwnEpoch, PcOf
  <2>1. CASE f = e
    BY <1>C, <2>1 DEF BindInvariant, OwnEpoch, PcOf
  <2>2. CASE f # e
    <3>1. bind'[f] = bind[f] /\ bind[f].s \in Session \cup {0}
      BY <1>v, <1>C, <2>2 DEF BindValues
    <3>2. bind[f].s # 0 /\ host[bind[f].s] # "none" => host'[bind[f].s] # "none"
      BY <1>5, <3>1
    <3> QED
      BY <3>1, <3>2 DEF BindInvariant, OwnEpoch, PcOf
  <2> QED
    BY <2>1, <2>2
<1>HostsClosed. HostsClosed'
  <2> SUFFICES ASSUME NEW f \in Epoch, PcOf(f)' \in {"closed", "replaced"}
               PROVE  ~Live(bind[f].s)'
    BY DEF HostsClosed
  <2>1. CASE f = e
    BY <1>C, <1>5, <2>1 DEF Live
  <2>2. CASE f # e
    <3>1. bind'[f] = bind[f] /\ PcOf(f) \in {"closed", "replaced"}
      BY <1>C, <2>2 DEF PcOf
    <3>s. bind[f].s \in Session
      BY <1>v, <3>1 DEF BindInvariant, BindValues, BindsHaveRows, KeysApart
    <3>2. ~Live(bind[f].s)
      BY <3>1 DEF BindInvariant, HostsClosed
    <3> QED
      BY <3>1, <3>s, <3>2, <1>5 DEF Live
  <2> QED
    BY <2>1, <2>2
<1>ClosesFinal. ClosesFinal'
  BY <1>v, <1>s, <1>C, <1>2, <1>5
     DEF BindInvariant, BindValues, ClosesFinal, OwnEpoch, BindsHaveRows, PcOf, KeysApart, NothingAhead,
         Live, Live
<1>NoneUnknown. NoneUnknown'
  BY <1>v, <1>s, <1>C, <1>2, <1>5
     DEF BindInvariant, BindValues, NoneUnknown, BoundRow, OwnEpoch, BindsHaveRows, PcOf, RowsLead,
         KeysApart, NothingAhead, Live, HostsClosed, Live
<1>HandedOut. HandedOut'
  BY <1>v, <1>s, <1>C, <1>2, <1>5
     DEF BindInvariant, BindValues, HandedOut, BindsHaveRows, PcOf, RowsLead, KeysApart, Live
<1> QED
  BY <1>BindTypes, <1>NothingAhead, <1>KeysApart, <1>RowsLead, <1>BoundRow, <1>BindsHaveRows, <1>BindsAsk,
     <1>OwnEpoch, <1>HostsClosed, <1>ClosesFinal, <1>NoneUnknown, <1>HandedOut DEF BindInvariant

LEMMA RetiresStep ==
  ASSUME BindInvariant, NEW e \in Epoch, Retires(e)
  PROVE  BindInvariant'
<1>t. BindTypes /\ BindValues
  BY BindTypedValues DEF BindInvariant
<1>m. bind \in [Epoch -> BindRec]
  BY <1>t DEF BindTypes
<1>r. row' = [row EXCEPT ![e] = NoRow]
  BY DEF Retires, Released
<1>R. row' \in [Epoch -> RowRec]
  BY <1>t, <1>r DEF BindTypes, RowRec
<1>S. row'[e] = NoRow /\ \A f \in Epoch : f # e => row'[f] = row[f]
  BY <1>t, <1>r DEF BindTypes
<1>1. UNCHANGED <<closeRow, rotations, used, made, asked, host, handed>> /\ bind[e].pc \in {"closed", "replaced"}
  BY DEF Retires, broker
<1>2. CASE bind[e].pc = "closed"
  <2>1. bind' = [bind EXCEPT ![e].pc = "start"] /\ rec' = rec
    BY <1>2 DEF Retires, Goto
  <2>2. /\ bind' \in [Epoch -> BindRec] /\ bind'[e].pc = "start" /\ bind'[e].req = bind[e].req
        /\ \A f \in Epoch : f # e => bind'[f] = bind[f]
    <3>1. "start" \in Pcs
      BY DEF Pcs
    <3>2. bind' = Going(bind, e, "start")
      BY <2>1 DEF Going
    <3> QED
      BY <1>m, <3>1, <3>2, GoingFacts
  <2>3. BindTypes'
    BY <1>t, <1>R, <1>1, <2>1, <2>2 DEF BindTypes
  <2>4. row[e] # NoRow /\ ~Live(made[row[e].key])
    BY <1>2 DEF BindInvariant, BindsHaveRows, HostsClosed, PcOf
  <2> QED
    BY <1>S, <1>1, <1>2, <2>1, <2>2, <2>3, <2>4, DropStep
<1>3. CASE bind[e].pc = "replaced"
  <2>1. bind[e].recovery \in BOOLEAN
    BY <1>m DEF BindRec
  <2>2. Moved(e)
    BY <1>3, <2>1, MoveFacts DEF Retires
  <2>3. BindTypes'
    BY <1>t, <1>R, <1>1, <2>2 DEF BindTypes, Moved
  <2>4. PICK n : n = rec.epoch + 1
    OBVIOUS
  <2> QED
    BY <1>S, <1>1, <2>2, <2>3, <2>4, LeaveStep DEF Moved, BindInvariant, ClosesFinal, Live
<1> QED
  BY <1>1, <1>2, <1>3

LEMMA DisownedStep ==
  ASSUME BindInvariant, NEW e \in Epoch, Disowned(e)
  PROVE  BindInvariant'
<1>t. BindTypes /\ BindValues
  BY BindTypedValues DEF BindInvariant
<1>1. UNCHANGED <<row, rotations, used, made, asked, host, handed>> /\ bind[e].pc = "inspect"
  BY DEF Disowned, broker
<1>2. bind[e].recovery \in BOOLEAN
  BY <1>t DEF BindTypes, BindRec
<1>3. Moved(e)
  BY <1>1, <1>2, MoveFacts DEF Disowned
<1>s. bind[e].s \in Session /\ host[bind[e].s] # "none"
  BY <1>t DEF Disowned, BindInvariant, OwnEpoch, PcOf, BindValues
<1>4. closeRow' \in {closeRow, [closeRow EXCEPT ![bind[e].s] = "none"]}
  BY DEF Disowned
<1>5. /\ closeRow' \in [Session -> {"none", "pending", "complete"}]
      /\ \A t \in Session : closeRow'[t] = closeRow[t] \/ (t = bind[e].s /\ closeRow'[t] = "none")
  <2>1. closeRow \in [Session -> {"none", "pending", "complete"}]
    BY <1>t DEF BindTypes
  <2> QED
    BY <2>1, <1>4
<1>6. BindTypes'
  BY <1>t, <1>1, <1>3, <1>5 DEF BindTypes, Moved
<1>7. PICK n : n = rec.epoch + 1
  OBVIOUS
<1>8. /\ \A t \in Session : closeRow'[t] # closeRow[t] => host[t] # "none"
      /\ \A t \in Session : closeRow'[t] = "complete" => ~Live(t)
  BY <1>s, <1>5 DEF BindInvariant, ClosesFinal
<1>9. /\ rec'.epoch = rec.epoch + 1 /\ rec'.sess = 0 /\ n \in Epoch
      /\ \A f \in Epoch : f # n => bind'[f] = bind[f] \/ bind'[f].pc = "off"
      /\ bind'[n].pc = "start" /\ bind'[n].req \in Request
  BY <1>3, <1>7 DEF Moved
<1> QED
  BY <1>1, <1>6, <1>7, <1>8, <1>9, LeaveStep

LEMMA ResetStep ==
  ASSUME BindInvariant, Reset
  PROVE  BindInvariant'
<1>t. BindTypes /\ BindValues
  BY BindTypedValues DEF BindInvariant
<1>1. UNCHANGED <<row, closeRow, rotations, used, made, asked, host, bind, handed>> /\ rec.epoch < MaxEpoch
  BY DEF Reset, broker
<1>2. PICK n : n = rec.epoch + 1
  OBVIOUS
<1>3. n \in Epoch /\ rec' = [epoch |-> n, sess |-> 0] /\ rec.epoch \in Epoch
  BY <1>t, <1>1, <1>2 DEF Reset, Rotated, BindValues
<1>4. BindTypes'
  BY <1>t, <1>1, <1>3 DEF BindTypes
<1>5. bind[n].pc = "off"
  BY <1>2, <1>3 DEF BindInvariant, NothingAhead
<1> QED
  BY <1>1, <1>2, <1>3, <1>4, <1>5, LeaveStep DEF BindInvariant, ClosesFinal, Live

LEMMA IndexedStep ==
  ASSUME BindInvariant, NEW e \in Epoch, Indexed(e)
  PROVE  BindInvariant'
<1>t. BindTypes /\ BindValues
  BY BindTypedValues DEF BindInvariant
<1>m. bind \in [Epoch -> BindRec]
  BY <1>t DEF BindTypes
<1>1. bind' = [bind EXCEPT ![e] = Off]
  BY DEF Indexed, BindEnds, Throws
<1>2. bind' \in [Epoch -> BindRec] /\ bind'[e].pc = "off" /\ \A f \in Epoch : f # e => bind'[f] = bind[f]
  BY <1>m, <1>1, Stopped
<1>r. row' = [row EXCEPT ![e] = NoRow]
  BY DEF Indexed, Released
<1>R. row' \in [Epoch -> RowRec]
  BY <1>t, <1>r DEF BindTypes, RowRec
<1>S. row'[e] = NoRow /\ \A f \in Epoch : f # e => row'[f] = row[f]
  BY <1>t, <1>r DEF BindTypes
<1>3. UNCHANGED <<rec, used, made, asked, host, closeRow>> /\ rotations' = 0 /\ bind[e].pc = "index"
  BY DEF Indexed, broker
<1>4. handed' = [s |-> bind[e].s, req |-> bind[e].req]
  BY DEF Indexed
<1>5. bind[e].s \in Session \cup {0} /\ bind[e].req \in Request \cup {0}
  BY <1>m DEF BindRec
<1>6. BindTypes'
  <2>1. handed' \in [s : Session \cup {0}, req : Request \cup {0}]
    BY <1>4, <1>5
  <2>2. rotations' \in 0..MaxRotations
    BY <1>3, BindAssumption
  <2> QED
    BY <1>t, <1>2, <1>R, <1>3, <2>1, <2>2 DEF BindTypes
<1>7. row[e] # NoRow /\ made[row[e].key] = bind[e].s /\ (e = rec.epoch => rec.sess = bind[e].s)
  BY <1>3 DEF BindInvariant, BindsHaveRows, OwnEpoch, PcOf
<1>8. handed'.s = bind[e].s /\ handed'.req = bind[e].req
  BY <1>4
<1> QED
  BY <1>2, <1>S, <1>3, <1>6, <1>7, <1>8, DropStep

LEMMA UnknownModelStep ==
  ASSUME BindInvariant, NEW e \in Epoch, UnknownModel(e)
  PROVE  BindInvariant'
<1>t. BindTypes /\ BindValues
  BY BindTypedValues DEF BindInvariant
<1>m. bind \in [Epoch -> BindRec]
  BY <1>t DEF BindTypes
<1>r. row' = [row EXCEPT ![e] = NoRow]
  BY DEF UnknownModel, Released
<1>R. row' \in [Epoch -> RowRec]
  BY <1>t, <1>r DEF BindTypes, RowRec
<1>S. row'[e] = NoRow /\ \A f \in Epoch : f # e => row'[f] = row[f]
  BY <1>t, <1>r DEF BindTypes
<1>1. UNCHANGED <<rec, closeRow, rotations, used, made, asked, host, handed>>
  BY DEF UnknownModel, broker
<1>2. /\ row[e] # NoRow /\ made[row[e].key] = 0 /\ bind[e].pc # "off"
  BY DEF UnknownModel, Rejected, Creating
<1>3. /\ bind' \in [Epoch -> BindRec] /\ \A f \in Epoch : f # e => bind'[f] = bind[f]
      /\ bind'[e].pc = "off" \/ (bind'[e].pc = "start" /\ bind'[e].req = bind[e].req)
  <2>1. CASE bind' = [bind EXCEPT ![e] = Off]
    BY <1>m, <2>1, Stopped
  <2>2. CASE bind' = [bind EXCEPT ![e].pc = "start"]
    <3>1. "start" \in Pcs
      BY DEF Pcs
    <3>2. bind' = Going(bind, e, "start")
      BY <2>2 DEF Going
    <3> QED
      BY <1>m, <3>1, <3>2, GoingFacts
  <2> QED
    BY <2>1, <2>2 DEF UnknownModel, BindEnds, Goto
<1>4. BindTypes'
  BY <1>t, <1>R, <1>1, <1>3 DEF BindTypes
<1> QED
  BY <1>S, <1>1, <1>2, <1>3, <1>4, DropStep

LEMMA PoisonedStep ==
  ASSUME BindInvariant, NEW e \in Epoch, Poisoned(e)
  PROVE  BindInvariant'
<1>t. BindTypes /\ BindValues
  BY BindTypedValues DEF BindInvariant
<1>m. bind \in [Epoch -> BindRec]
  BY <1>t DEF BindTypes
<1>r. row' = [row EXCEPT ![e] = NoRow]
  BY DEF Poisoned, Released
<1>R. row' \in [Epoch -> RowRec]
  BY <1>t, <1>r DEF BindTypes, RowRec
<1>S. row'[e] = NoRow /\ \A f \in Epoch : f # e => row'[f] = row[f]
  BY <1>t, <1>r DEF BindTypes
<1>1. UNCHANGED <<closeRow, used, made, asked, host, handed>>
  BY DEF Poisoned, broker
<1>2. /\ row[e] # NoRow /\ made[row[e].key] = 0 /\ bind[e].pc # "off"
  BY DEF Poisoned, Rejected, Creating
<1>3. CASE rec' = rec /\ rotations' = rotations
           /\ (bind' = [bind EXCEPT ![e] = Off] \/ bind' = [bind EXCEPT ![e].pc = "start"])
  <2>1. /\ bind' \in [Epoch -> BindRec] /\ \A f \in Epoch : f # e => bind'[f] = bind[f]
        /\ bind'[e].pc = "off" \/ (bind'[e].pc = "start" /\ bind'[e].req = bind[e].req)
    <3>1. CASE bind' = [bind EXCEPT ![e] = Off]
      BY <1>m, <3>1, Stopped
    <3>2. CASE bind' = [bind EXCEPT ![e].pc = "start"]
      <4>1. "start" \in Pcs
        BY DEF Pcs
      <4>2. bind' = Going(bind, e, "start")
        BY <3>2 DEF Going
      <4> QED
        BY <1>m, <4>1, <4>2, GoingFacts
    <3> QED
      BY <1>3, <3>1, <3>2
  <2>2. BindTypes'
    BY <1>t, <1>R, <1>1, <1>3, <2>1 DEF BindTypes
  <2> QED
    BY <1>S, <1>1, <1>2, <1>3, <2>1, <2>2, DropStep
<1>4. CASE rotations < MaxRotations /\ rotations' = rotations + 1 /\ MovesOn(e, FALSE)
  <2>1. Moved(e)
    BY <1>2, <1>4, MoveFacts
  <2>a. rotations' \in 0..MaxRotations
    <3>1. rotations \in 0..MaxRotations
      BY <1>t DEF BindTypes
    <3> QED
      BY <1>4, <3>1, BindAssumption
  <2>2. BindTypes'
    BY <1>t, <1>R, <1>1, <2>1, <2>a DEF BindTypes, Moved
  <2>3. PICK n : n = rec.epoch + 1
    OBVIOUS
  <2> QED
    BY <1>S, <1>1, <2>1, <2>2, <2>3, LeaveStep DEF Moved, BindInvariant, ClosesFinal, Live
<1>5. rotations >= MaxRotations \/ rotations < MaxRotations
  BY <1>t, BindAssumption DEF BindTypes
<1> QED
  BY <1>3, <1>4, <1>5, Zenon DEF Poisoned, BindEnds, Goto

(* The session a create led to becomes the binding.                        *)
LEMMA RecordedStep ==
  ASSUME BindInvariant, NEW e \in Epoch, BindTypes', UNCHANGED <<closeRow, used, made, asked, host, handed, row>>,
         bind[e].pc = "record", rec.epoch = e, rec'.epoch = e, rec'.sess = bind[e].s,
         bind'[e].pc = "index", bind'[e].s = bind[e].s, bind'[e].req = bind[e].req,
         \A f \in Epoch : f # e => bind'[f] = bind[f]
  PROVE  BindInvariant'
<1>t. BindTypes /\ BindValues
  BY BindTypedValues DEF BindInvariant
<1>m. bind \in [Epoch -> BindRec]
  BY <1>t DEF BindTypes

<1>BindTypes. BindTypes'
  BY <1>t, <1>t DEF BindTypes
<1>v. BindValues /\ BindValues'
  BY <1>t, <1>BindTypes, BindTypedValues, PTL
<1>NothingAhead. NothingAhead'
  BY <1>v, <1>v DEF BindInvariant, BindValues, NothingAhead
<1>KeysApart. KeysApart'
  BY <1>v, <1>v DEF BindInvariant, BindValues, KeysApart, NothingAhead
<1>RowsLead. RowsLead'
  BY <1>v, <1>v DEF BindInvariant, BindValues, RowsLead, KeysApart, NothingAhead
<1>BoundRow. BoundRow'
  BY <1>v, <1>v DEF BindInvariant, BindValues, BoundRow, NothingAhead, BindsHaveRows, PcOf, OwnEpoch,
         KeysApart, RowsLead, NoneUnknown
<1>BindsHaveRows. BindsHaveRows'
  BY <1>v, <1>v DEF BindInvariant, BindValues, BindsHaveRows, PcOf, RowsLead, KeysApart, OwnEpoch, BoundRow
<1>BindsAsk. BindsAsk'
  BY <1>v, <1>v DEF BindInvariant, BindValues, BindsAsk, PcOf
<1>OwnEpoch. OwnEpoch'
  BY <1>v, <1>v DEF BindInvariant, BindValues, OwnEpoch, BindsHaveRows, PcOf, BoundRow, KeysApart,
         RowsLead, NothingAhead
<1>HostsClosed. HostsClosed'
  BY <1>v, <1>v DEF BindInvariant, BindValues, HostsClosed, BindsHaveRows, PcOf, RowsLead, KeysApart,
         OwnEpoch, Live, ClosesFinal
<1>ClosesFinal. ClosesFinal'
  BY <1>v, <1>v DEF BindInvariant, BindValues, ClosesFinal, OwnEpoch, BindsHaveRows, PcOf, KeysApart,
         NothingAhead, Live
<1>NoneUnknown. NoneUnknown'
  BY <1>v, <1>v DEF BindInvariant, BindValues, NoneUnknown, BoundRow, OwnEpoch, BindsHaveRows, PcOf,
         RowsLead, KeysApart, NothingAhead, Live, HostsClosed
<1>HandedOut. HandedOut'
  BY <1>v, <1>v DEF BindInvariant, BindValues, HandedOut, BindsHaveRows, PcOf, RowsLead, KeysApart
<1> QED
  BY <1>BindTypes, <1>NothingAhead, <1>KeysApart, <1>RowsLead, <1>BoundRow, <1>BindsHaveRows, <1>BindsAsk,
     <1>OwnEpoch, <1>HostsClosed, <1>ClosesFinal, <1>NoneUnknown, <1>HandedOut DEF BindInvariant

LEMMA RecordStep ==
  ASSUME BindInvariant, NEW e \in Epoch, Record(e)
  PROVE  BindInvariant'
<1>t. BindTypes /\ BindValues
  BY BindTypedValues DEF BindInvariant
<1>m. bind \in [Epoch -> BindRec]
  BY <1>t DEF BindTypes
<1>0. bind[e].pc = "record" /\ bind[e].s \in Session /\ row[e] # NoRow /\ made[row[e].key] = bind[e].s
  BY <1>t DEF Record, BindInvariant, BindsHaveRows, PcOf, BindValues
<1>1. UNCHANGED <<closeRow, rotations, used, made, asked, host, handed>>
  BY DEF Record, broker
<1>2. CASE rec.epoch # e
  <2>1. bind' = [bind EXCEPT ![e] = Off] /\ row' = [row EXCEPT ![e] = NoRow] /\ rec' = rec
    BY <1>2 DEF Record, BindEnds, Released
  <2>2. bind' \in [Epoch -> BindRec] /\ bind'[e].pc = "off" /\ \A f \in Epoch : f # e => bind'[f] = bind[f]
    BY <1>m, <2>1, Stopped
  <2>3. row' \in [Epoch -> RowRec] /\ row'[e] = NoRow /\ \A f \in Epoch : f # e => row'[f] = row[f]
    BY <1>t, <2>1 DEF BindTypes, RowRec
  <2>4. BindTypes'
    BY <1>t, <1>1, <2>1, <2>2, <2>3 DEF BindTypes
  <2> QED
    BY <1>0, <1>1, <1>2, <2>1, <2>2, <2>3, <2>4, DropStep
<1>3. CASE rec.epoch = e
  <2>1. bind' = [bind EXCEPT ![e].pc = "index"] /\ rec' = [rec EXCEPT !.sess = bind[e].s] /\ row' = row
    BY <1>3 DEF Record, Goto
  <2>2. /\ bind' \in [Epoch -> BindRec]
        /\ bind'[e].pc = "index"
        /\ bind'[e].s = bind[e].s
        /\ bind'[e].req = bind[e].req
        /\ \A f \in Epoch : f # e => bind'[f] = bind[f]
    <3>1. "index" \in Pcs
      BY DEF Pcs
    <3>2. bind' = Going(bind, e, "index")
      BY <2>1 DEF Going
    <3> QED
      BY <1>m, <3>1, <3>2, GoingFacts
  <2>3. rec' \in [epoch : Epoch, sess : Session \cup {0}] /\ rec'.epoch = e /\ rec'.sess = bind[e].s
    BY <1>0, <1>t, <1>3, <2>1 DEF BindTypes
  <2>4. BindTypes'
    BY <1>t, <1>1, <2>1, <2>2, <2>3 DEF BindTypes
  <2> QED
    BY <1>0, <1>1, <1>3, <2>1, <2>2, <2>3, <2>4, RecordedStep
<1> QED
  BY <1>2, <1>3

(* A create that applied, its answer kept or lost.                         *)
LEMMA MadeStep ==
  ASSUME BindInvariant, NEW e \in Epoch, NEW k, k = row[e].key, Applied(e, k),
         BindTypes', UNCHANGED <<rec, row, closeRow, used, handed>>,
         bind[e].pc \in {"create", "retire"},
         \A f \in Epoch : f # e => bind'[f] = bind[f],
         \/ bind'[e].pc = "off"
         \/ /\ (bind[e].pc = "create" /\ bind'[e].pc = "record") \/ (bind[e].pc = "retire" /\ bind'[e].pc = "close")
            /\ bind'[e].s = made'[k] /\ bind'[e].req = bind[e].req
  PROVE  BindInvariant'
<1>t. BindTypes /\ BindValues
  BY BindTypedValues DEF BindInvariant
<1>m. bind \in [Epoch -> BindRec]
  BY <1>t DEF BindTypes
<1>b. /\ k \in Key /\ made'[k] \in Session /\ row[e].req \in Request /\ row[e] # NoRow
      /\ \A j \in Key : j # k \/ made[j] # 0 => made'[j] = made[j]
      /\ \A t \in Session : host[t] # "none" => host'[t] = host[t] /\ asked'[t] = asked[t]
      /\ asked'[made'[k]].req = row[e].req /\ asked'[made'[k]].epoch = e /\ host'[made'[k]] # "none"
      /\ \A t \in Session : host'[t] # host[t] => t = made'[k] /\ host[t] = "none" /\ made[k] = 0 /\ host'[t] = "cold"
      /\ \A t \in Session : t # made'[k] => host'[t] = host[t] /\ asked'[t] = asked[t]
  BY DEF Applied
<1>2. UNCHANGED <<rec, row, closeRow, used, handed>>
  OBVIOUS
<1>BindTypes. BindTypes'
  BY <1>t, <1>t DEF BindTypes
<1>v. BindValues /\ BindValues'
  BY <1>t, <1>BindTypes, BindTypedValues, PTL
<1>NothingAhead. NothingAhead'
  <2>1. \A f \in Epoch : f > rec.epoch => row[f] = NoRow /\ bind'[f].pc = "off"
    BY <1>2 DEF BindInvariant, NothingAhead
  <2>2. e <= rec.epoch
    BY <1>v, <1>b DEF BindInvariant, BindValues, NothingAhead, Epoch
  <2>3. \A t \in Session : host'[t] # "none" => asked'[t].epoch <= rec.epoch
    BY <1>v, <1>b, <2>2 DEF BindInvariant, NothingAhead
  <2>4. \A t \in Session : host'[t] = "none" => closeRow[t] = "none"
    BY <1>b DEF BindInvariant, NothingAhead
  <2> QED
    BY <1>2, <2>1, <2>3, <2>4 DEF NothingAhead
<1>KeysApart. KeysApart'
  <2>1. KeysApart
    BY DEF BindInvariant
  <2>2. \A j \in Key : j > used => made'[j] = 0
    <3>1. k <= used
      BY <1>b, <2>1 DEF KeysApart
    <3>2. \A j \in Key : j > used => j # k
      BY <1>v, <3>1 DEF BindValues, Key
    <3> QED
      BY <1>b, <2>1, <3>2 DEF KeysApart
  <2>3. \A j \in Key : made'[j] # 0 => host'[made'[j]] # "none"
    <3> SUFFICES ASSUME NEW j \in Key, made'[j] # 0, j # k
                 PROVE  host'[made'[j]] # "none"
      BY <1>b
    <3>1. made'[j] = made[j] /\ made[j] \in Session
      BY <1>v, <1>b DEF BindValues
    <3> QED
      BY <1>b, <2>1, <3>1 DEF KeysApart
  <2> QED
    BY <1>2, <2>1, <2>2, <2>3 DEF KeysApart
<1>RowsLead. RowsLead'
  <2> SUFFICES ASSUME NEW f \in Epoch, row[f] # NoRow, made'[row[f].key] # 0
               PROVE  asked'[made'[row[f].key]].req = row[f].req /\ asked'[made'[row[f].key]].epoch = f
    BY <1>2 DEF RowsLead
  <2>1. f # e => row[f].key \in Key /\ row[f].key # k
    BY <1>v, <1>b DEF BindInvariant, KeysApart, BindValues
  <2>2. CASE f = e
    BY <1>b, <2>2
  <2>3. CASE f # e
    <3>1. row[f].key \in Key /\ made'[row[f].key] = made[row[f].key] /\ made[row[f].key] \in Session
      BY <1>v, <1>b, <2>1, <2>3 DEF BindValues
    <3>2. host[made[row[f].key]] # "none"
      BY <1>v, <3>1 DEF BindInvariant, KeysApart, BindValues
    <3>3. asked'[made[row[f].key]] = asked[made[row[f].key]]
      BY <1>b, <3>1, <3>2
    <3> QED
      BY <3>1, <3>3 DEF BindInvariant, RowsLead
  <2> QED
    BY <2>2, <2>3
<1>BoundRow. BoundRow'
  BY <1>v, <1>b, <1>2
     DEF BindInvariant, BindValues, BoundRow, NothingAhead, BindsHaveRows, PcOf, OwnEpoch, KeysApart,
         RowsLead, NoneUnknown
<1>BindsHaveRows. BindsHaveRows'
  <2> SUFFICES ASSUME NEW f \in Epoch,
                      bind'[f].pc \in {"create", "retire", "record", "close", "closed", "index", "replace", "replaced"}
               PROVE  /\ row[f] # NoRow
                      /\ bind'[f].pc \notin {"create", "retire"}
                           => bind'[f].s # 0 /\ made'[row[f].key] = bind'[f].s
                      /\ bind'[f].pc \in {"create", "record", "index"} => row[f].req = bind'[f].req
    BY <1>2 DEF BindsHaveRows, PcOf
  <2>1. CASE f = e
    <3>1. bind'[e].pc \in {"record", "close"} /\ bind'[e].s = made'[k] /\ bind'[e].req = bind[e].req
          /\ (bind'[e].pc = "record" => bind[e].pc = "create")
      BY <2>1
    <3>2. bind[e].pc = "create" => row[e].req = bind[e].req
      BY DEF BindInvariant, BindsHaveRows, PcOf
    <3> QED
      BY <1>b, <2>1, <3>1, <3>2
  <2>2. CASE f # e
    <3>1. bind'[f] = bind[f]
      BY <2>2
    <3>2. /\ row[f] # NoRow
          /\ bind[f].pc \notin {"create", "retire"} => bind[f].s # 0 /\ made[row[f].key] = bind[f].s
          /\ bind[f].pc \in {"create", "record", "index"} => row[f].req = bind[f].req
      BY <3>1 DEF BindInvariant, BindsHaveRows, PcOf
    <3>3. row[f].key \in Key
      BY <1>v, <3>2 DEF BindValues
    <3> QED
      BY <1>b, <3>1, <3>2, <3>3
  <2> QED
    BY <2>1, <2>2
<1>BindsAsk. BindsAsk'
  BY <1>v, <1>b, <1>2 DEF BindInvariant, BindValues, BindsAsk, PcOf
<1>OwnEpoch. OwnEpoch'
  <2> SUFFICES ASSUME NEW f \in Epoch
               PROVE  /\ bind'[f].pc = "inspect" =>
                           bind'[f].s # 0 /\ host'[bind'[f].s] # "none" /\ asked'[bind'[f].s].epoch = f
                      /\ f = rec.epoch /\ bind'[f].pc \in {"create", "retire", "record", "close", "closed"}
                           => rec.sess = 0
                      /\ f = rec.epoch /\ bind'[f].pc \in {"index", "inspect", "replace", "replaced"}
                           => rec.sess = bind'[f].s
    BY <1>2 DEF OwnEpoch, PcOf
  <2>1. CASE f = e
    BY <2>1 DEF BindInvariant, OwnEpoch, PcOf
  <2>2. CASE f # e
    <3>1. bind'[f] = bind[f] /\ bind[f].s \in Session \cup {0}
      BY <1>v, <2>2 DEF BindValues
    <3>2. bind[f].s # 0 /\ host[bind[f].s] # "none"
            => host'[bind[f].s] = host[bind[f].s] /\ asked'[bind[f].s] = asked[bind[f].s]
      BY <1>b, <3>1
    <3> QED
      BY <3>1, <3>2 DEF BindInvariant, OwnEpoch, PcOf
  <2> QED
    BY <2>1, <2>2
<1>HostsClosed. HostsClosed'
  <2> SUFFICES ASSUME NEW f \in Epoch, bind'[f].pc \in {"closed", "replaced"}
               PROVE  host'[bind'[f].s] \notin {"cold", "live"}
    BY DEF HostsClosed, PcOf, Live
  <2>1. f # e /\ bind'[f] = bind[f]
    OBVIOUS
  <2>2. bind[f].s \in Session /\ host[bind[f].s] # "none" /\ ~Live(bind[f].s)
    BY <1>v, <2>1 DEF BindInvariant, BindValues, HostsClosed, BindsHaveRows, KeysApart, PcOf, OwnEpoch
  <2>3. host'[bind[f].s] = host[bind[f].s]
    BY <1>b, <2>2
  <2> QED
    BY <2>1, <2>2, <2>3 DEF Live
<1>ClosesFinal. ClosesFinal'
  BY <1>v, <1>b, <1>2
     DEF BindInvariant, BindValues, ClosesFinal, OwnEpoch, BindsHaveRows, PcOf, KeysApart, NothingAhead,
         Live
<1>NoneUnknown. NoneUnknown'
  <2> SUFFICES ASSUME NEW t \in Session, Live(t)', asked'[t].epoch = rec.epoch
               PROVE  t = rec.sess \/ (row[rec.epoch] # NoRow /\ made'[row[rec.epoch].key] = t)
    BY <1>2 DEF NoneUnknown
  <2>1. CASE t = made'[k]
    BY <1>b, <2>1
  <2>2. CASE t # made'[k]
    <3>1. Live(t) /\ asked[t].epoch = rec.epoch
      BY <1>b, <2>2 DEF Live
    <3>2. t = rec.sess \/ (row[rec.epoch] # NoRow /\ made[row[rec.epoch].key] = t)
      BY <3>1 DEF BindInvariant, NoneUnknown
    <3>3. t # 0 /\ (row[rec.epoch] # NoRow => row[rec.epoch].key \in Key)
      BY <1>v DEF BindValues, Session
    <3> QED
      BY <1>b, <3>2, <3>3
  <2> QED
    BY <2>1, <2>2
<1>HandedOut. HandedOut'
  BY <1>v, <1>b, <1>2 DEF BindInvariant, BindValues, HandedOut, BindsHaveRows, PcOf, RowsLead, KeysApart
<1> QED
  BY <1>BindTypes, <1>NothingAhead, <1>KeysApart, <1>RowsLead, <1>BoundRow, <1>BindsHaveRows, <1>BindsAsk,
     <1>OwnEpoch, <1>HostsClosed, <1>ClosesFinal, <1>NoneUnknown, <1>HandedOut DEF BindInvariant

LEMMA CreatedStep ==
  ASSUME BindInvariant, NEW e \in Epoch, Created(e)
  PROVE  BindInvariant'
<1>t. BindTypes /\ BindValues
  BY BindTypedValues DEF BindInvariant
<1>m. bind \in [Epoch -> BindRec]
  BY <1>t DEF BindTypes
<1>1. PICK k : k = row[e].key
  OBVIOUS
<1>2. Applied(e, k)
  BY <1>1, ApplyFacts DEF Created
<1>3. PICK p \in Pcs, s \in Session :
        /\ bind' = [bind EXCEPT ![e].pc = p, ![e].s = s] /\ s = made'[k]
        /\ (bind[e].pc = "create" /\ p = "record") \/ (bind[e].pc = "retire" /\ p = "close")
  BY <1>1, <1>2 DEF Created, Creating, Pcs, Applied
<1>4. bind' \in [Epoch -> BindRec]
  <2>1. bind' = GoingWith(bind, e, p, s)
    BY <1>3 DEF GoingWith
  <2> QED
    BY <1>m, <2>1, GoingWithTyped
<1>5. /\ bind'[e].s = made'[k] /\ bind'[e].req = bind[e].req /\ \A f \in Epoch : f # e => bind'[f] = bind[f]
      /\ (bind[e].pc = "create" /\ bind'[e].pc = "record") \/ (bind[e].pc = "retire" /\ bind'[e].pc = "close")
  BY <1>m, <1>3, GoesWith
<1>6. UNCHANGED <<rec, row, closeRow, used, handed, rotations>>
  BY DEF Created, journaled
<1>7. BindTypes'
  BY <1>t, <1>2, <1>4, <1>6 DEF BindTypes, Applied
<1> QED
  BY <1>1, <1>2, <1>5, <1>6, <1>7, MadeStep

LEMMA CreateFailsStep ==
  ASSUME BindInvariant, NEW e \in Epoch, NEW b \in BOOLEAN, CreateFails(e, b)
  PROVE  BindInvariant'
<1>t. BindTypes /\ BindValues
  BY BindTypedValues DEF BindInvariant
<1>m. bind \in [Epoch -> BindRec]
  BY <1>t DEF BindTypes
<1>1. bind' = [bind EXCEPT ![e] = Off]
  BY DEF CreateFails, BindEnds, Throws
<1>2. bind' \in [Epoch -> BindRec] /\ bind'[e].pc = "off" /\ \A f \in Epoch : f # e => bind'[f] = bind[f]
  BY <1>m, <1>1, Stopped
<1>3. UNCHANGED <<rec, row, closeRow, rotations, used, handed>> /\ bind[e].pc \in {"create", "retire"}
  BY DEF CreateFails, Throws, journaled, Creating
<1>4. CASE UNCHANGED broker
  <2>1. UNCHANGED <<made, asked, host>>
    BY <1>4 DEF broker
  <2>2. BindTypes'
    BY <1>t, <1>2, <1>3, <2>1 DEF BindTypes
  <2> QED
    BY <1>2, <1>3, <2>1, <2>2, QuietStep DEF BindInvariant, ClosesFinal, Live
<1>5. CASE Applies(e)
  <2>1. PICK k : k = row[e].key
    OBVIOUS
  <2>2. Applied(e, k)
    BY <1>5, <2>1, ApplyFacts DEF CreateFails
  <2>3. BindTypes'
    BY <1>t, <1>2, <1>3, <2>2 DEF BindTypes, Applied
  <2> QED
    BY <1>2, <1>3, <2>1, <2>2, <2>3, MadeStep
<1> QED
  BY <1>4, <1>5 DEF CreateFails

LEMMA BindInitLemma == BindInit => BindInvariant
<1> SUFFICES ASSUME BindInit PROVE BindInvariant
  OBVIOUS
<1>1. Off \in BindRec /\ Off.pc = "off"
  BY DEF Off, BindRec, Pcs
<1>2. BindTypes
  BY <1>1, BindAssumption DEF BindInit, BindTypes, RowRec, Hosts, Asks
<1>3. /\ rec.epoch = 0 /\ rec.sess = 0 /\ handed.s = 0 /\ used = 0
      /\ \A e \in Epoch : row[e] = NoRow /\ bind[e].pc = "off"
      /\ \A s \in Session : host[s] = "none" /\ closeRow[s] = "none"
      /\ \A k \in Key : made[k] = 0
  BY <1>1 DEF BindInit
<1> QED
  BY <1>2, <1>3 DEF BindInvariant, NothingAhead, KeysApart, RowsLead, BoundRow, BindsHaveRows, BindsAsk,
         OwnEpoch, HostsClosed, ClosesFinal,
                    NoneUnknown, HandedOut, PcOf, Live

LEMMA BindStepLemma == BindInvariant /\ [BindNext]_bindVars => BindInvariant'
<1> SUFFICES ASSUME BindInvariant, [BindNext]_bindVars PROVE BindInvariant'
  OBVIOUS
<1>1. CASE UNCHANGED bindVars
  <2>1. BindTypes'
    BY <1>1 DEF bindVars, BindInvariant, BindTypes
  <2> QED
    BY <1>1, <2>1, QuietStep DEF bindVars, BindInvariant, ClosesFinal, Live
<1>2. ASSUME NEW e \in Epoch, Step(e) PROVE BindInvariant'
  BY <1>2, AskStep, StartBoundStep, StartColdStep, CreatedStep, UnknownModelStep, PoisonedStep, RecordStep,
     IndexedStep,
     IndexFailsStep, ClosesStep, RetiresStep, InspectLiveStep, ResumeStep, DisownedStep,
     CreateFailsStep, CloseFailsStep, InspectFailsStep, ResumeFailsStep DEF Step
<1> QED
  BY <1>1, <1>2, QuietSteps, ResetStep DEF BindNext

LEMMA BindInvariantLemma == BindSpec => []BindInvariant
BY BindInitLemma, BindStepLemma, PTL DEF BindSpec

(* The property follows.                                                   *)
LEMMA InvariantKeepsOneHost == BindInvariant => OneHost
<1> SUFFICES ASSUME BindInvariant PROVE OneHost
  OBVIOUS
<1>t. BindTypes /\ BindValues
  BY BindTypedValues DEF BindInvariant
<1>1. DOMAIN host = Session
  BY <1>t DEF BindTypes
<1>2. BoundAsAsked
  BY DEF BindInvariant, HandedOut, BoundAsAsked
<1>3. Closable
  BY <1>t DEF BindInvariant, ClosesFinal, Closable, BindValues
<1>4. ASSUME NEW s \in Current, NEW t \in Current PROVE s = t
  <2>1. s \in Session /\ (s = rec.sess \/ (row[rec.epoch] # NoRow /\ made[row[rec.epoch].key] = s))
    BY <1>1 DEF Current, BindInvariant, NoneUnknown
  <2>2. t \in Session /\ (t = rec.sess \/ (row[rec.epoch] # NoRow /\ made[row[rec.epoch].key] = t))
    BY <1>1 DEF Current, BindInvariant, NoneUnknown
  <2>3. row[rec.epoch] # NoRow /\ rec.sess # 0 => made[row[rec.epoch].key] = rec.sess
    BY DEF BindInvariant, BoundRow
  <2> QED
    BY <2>1, <2>2, <2>3
<1>5. NoStray
  BY <1>1, <1>4 DEF NoStray, Current, BindInvariant, NoneUnknown
<1> QED
  BY <1>2, <1>3, <1>5 DEF OneHost

(* The rows, the bindings and the broker keep the types the tables and the *)
(* SDK declare.                                                            *)
THEOREM BindTypeCorrect == BindSpec => []BindTypeOK
<1>1. BindInvariant => BindTypeOK
  BY DEF BindInvariant, BindTypes, BindTypeOK, RowRec, Hosts
<1> QED
  BY <1>1, BindInvariantLemma, PTL

(* Of the sessions created for the epoch an origin is in, at most one has a*)
(* host, and the origin knows it; a cold binding is the one that was asked *)
(* for, and a bound session can still be closed: for any number of epochs, *)
(* sessions, requests, crashes, lost answers and rotations.                *)
THEOREM AlwaysOneHost == BindSpec => []OneHost
BY BindInvariantLemma, InvariantKeepsOneHost, PTL

HIDE BindAssumption DEF Epoch, Session, Key

-----------------------------------------------------------------------------
(* The cut-off of a silent turn. The argument: a pass comes to its end only*)
(* with the proof in hand and the owner told, and wherever a pass that     *)
(* nobody repeats ends, a status check was armed before or is armed now.   *)
Passing ==
  /\ step \in {"post", "notify", "complete"} => proof /\ who = "cutoff"
  /\ step # "idle" => who \in {"cutoff", "recheck", "discard"}
  /\ step = "complete" => told \/ view = "retired"
Checked ==
  view # "none" /\ trigger = "open" /\ (step = "idle" \/ who # "cutoff") /\ (Blind \/ stalled) => timer

CutoffInvariant ==
  /\ CutoffTypeOK /\ ClosedWhenGone /\ CutTold /\ NewerKept
  /\ Passing /\ Checked

LEMMA CutoffInitLemma == CutoffInit => CutoffInvariant
BY DEF CutoffInit, CutoffInvariant, CutoffTypeOK, ClosedWhenGone, CutTold, NewerKept, Passing, Checked,
       Blind

(* The host, its frames, the relay, the status reads that settle, /new and *)
(* a crash: they leave the pass where it was or end it for good.           *)
LEMMA WorldStep ==
  ASSUME CutoffInvariant,
         \/ Finishes \/ Exits \/ PidReused \/ Frame \/ RelayLost \/ Stall \/ Ages
         \/ RetiredStall \/ ReconcileTerminal \/ ReconcileUnread \/ HostRecheck \/ New \/ Dies \/ Recover
  PROVE  CutoffInvariant'
<1> USE DEF CutoffInvariant, CutoffTypeOK, ClosedWhenGone, CutTold, NewerKept, Passing, Checked, Blind
<1>1. CASE Finishes
  BY <1>1 DEF Finishes, stored, stall, signals, bounds
<1>2. CASE Exits
  BY <1>2 DEF Exits, stored, stall, signals, bounds
<1>3. CASE PidReused
  BY <1>3 DEF PidReused, Fault, stored, stall, signals
<1>4. CASE Frame
  BY <1>4 DEF Frame, Attached, stored, signals
<1>5. CASE RelayLost
  BY <1>5 DEF RelayLost, Attached, stored, stall, signals, bounds
<1>6. CASE Stall
  BY <1>6 DEF Stall, Attached, stored, signals, bounds
<1>7. CASE Ages
  BY <1>7 DEF Ages, stored, signals, bounds
<1>8. CASE RetiredStall
  BY <1>8 DEF RetiredStall, Attached, stored, stall, signals, bounds
<1>9. CASE ReconcileTerminal
  BY <1>9 DEF ReconcileTerminal, MayReconcile, SettleNow, signals, bounds
<1>10. CASE ReconcileUnread
  BY <1>10 DEF ReconcileUnread, MayReconcile, StatusUnread, Fault, stored, stall, signals
<1>11. CASE HostRecheck
  BY <1>11 DEF HostRecheck, stored, stall, signals, bounds
<1>12. CASE New
  BY <1>12 DEF New, stall, signals, bounds
<1>13. CASE Dies
  BY <1>13 DEF Dies, PassEnds, stored
<1>14. CASE Recover
  BY <1>14 DEF Recover, stored, stall, signals, bounds
<1> QED
  BY <1>1, <1>2, <1>3, <1>4, <1>5, <1>6, <1>7, <1>8, <1>9, <1>10, <1>11, <1>12, <1>13, <1>14

(* Activity ends the stall, unless the end of the host is what is waited   *)
(* for.                                                                    *)
LEMMA FrameHeardStep ==
  ASSUME CutoffInvariant, FrameHeard
  PROVE  CutoffInvariant'
<1>1. CutoffTypeOK'
  BY DEF CutoffInvariant, CutoffTypeOK, FrameHeard, stall, ClearStall, stored, signals, bounds, Blind
<1>2. ClosedWhenGone'
  BY DEF CutoffInvariant, ClosedWhenGone, Passing, FrameHeard, stall, ClearStall, stored, signals, bounds,
         Blind
<1>3. CutTold'
  BY DEF CutoffInvariant, CutTold, Passing, FrameHeard, stall, ClearStall, stored, signals, bounds, Blind
<1>4. NewerKept'
  BY DEF CutoffInvariant, NewerKept, FrameHeard, stall, ClearStall, stored, signals, bounds, Blind
<1>5. Passing'
  BY DEF CutoffInvariant, Passing, FrameHeard, stall, ClearStall, stored, signals, bounds, Blind
<1>6. Checked'
  BY DEF CutoffInvariant, Checked, Blind, Passing, FrameHeard, stall, ClearStall, stored, signals, bounds
<1> QED
  BY <1>1, <1>2, <1>3, <1>4, <1>5, <1>6 DEF CutoffInvariant

(* The status says running: the cut-off begins, or the check is armed      *)
(* again.                                                                  *)
LEMMA ReconcileRunningStep ==
  ASSUME CutoffInvariant, ReconcileRunning
  PROVE  CutoffInvariant'
<1>1. CutoffTypeOK'
  BY DEF CutoffInvariant, CutoffTypeOK, ReconcileRunning, MayReconcile, StatusKnown, bounds, stall,
         CanTerminate, Attached, stored, signals, Blind
<1>2. ClosedWhenGone'
  BY DEF CutoffInvariant, ClosedWhenGone, Passing, ReconcileRunning, MayReconcile, StatusKnown, bounds,
         stall, CanTerminate, Attached, stored, signals, Blind
<1>3. CutTold'
  BY DEF CutoffInvariant, CutTold, Passing, ReconcileRunning, MayReconcile, StatusKnown, bounds, stall,
         CanTerminate, Attached, stored, signals, Blind
<1>4. NewerKept'
  BY DEF CutoffInvariant, NewerKept, ReconcileRunning, MayReconcile, StatusKnown, bounds, stall,
         CanTerminate, Attached, stored, signals, Blind
<1>5. Passing'
  BY DEF CutoffInvariant, Passing, ReconcileRunning, MayReconcile, StatusKnown, bounds, stall,
         CanTerminate, Attached, stored, signals, Blind
<1>6. Checked'
  BY DEF CutoffInvariant, Checked, Blind, Passing, ReconcileRunning, MayReconcile, StatusKnown, bounds,
         stall, CanTerminate, Attached, stored, signals
<1> QED
  BY <1>1, <1>2, <1>3, <1>4, <1>5, <1>6 DEF CutoffInvariant

(* terminateHost, step by step.                                            *)
LEMMA LookStep ==
  ASSUME CutoffInvariant, Look
  PROVE  CutoffInvariant'
<1>1. CutoffTypeOK'
  BY DEF CutoffInvariant, CutoffTypeOK, Look, AtPc, Guarded, StatusKnown, bounds, signals, stall, stored,
         ExitProved, PassEnds, Refused, Fault, Blind
<1>2. ClosedWhenGone'
  BY DEF CutoffInvariant, ClosedWhenGone, Passing, Look, AtPc, Guarded, StatusKnown, bounds, signals,
         stall, stored, ExitProved, PassEnds, Refused, Fault, Blind
<1>3. CutTold'
  BY DEF CutoffInvariant, CutTold, Passing, Look, AtPc, Guarded, StatusKnown, bounds, signals, stall,
         stored, ExitProved, PassEnds, Refused, Fault, Blind
<1>4. NewerKept'
  BY DEF CutoffInvariant, NewerKept, Look, AtPc, Guarded, StatusKnown, bounds, signals, stall, stored,
         ExitProved, PassEnds, Refused, Fault, Blind
<1>5. Passing'
  BY DEF CutoffInvariant, Passing, Look, AtPc, Guarded, StatusKnown, bounds, signals, stall, stored,
         ExitProved, PassEnds, Refused, Fault, Blind
<1>6. Checked'
  BY DEF CutoffInvariant, Checked, Blind, Passing, Look, AtPc, Guarded, StatusKnown, bounds, signals,
         stall, stored, ExitProved, PassEnds, Refused, Fault
<1> QED
  BY <1>1, <1>2, <1>3, <1>4, <1>5, <1>6 DEF CutoffInvariant

LEMMA GuardStep ==
  ASSUME CutoffInvariant, Guard
  PROVE  CutoffInvariant'
<1>1. CutoffTypeOK'
  BY DEF CutoffInvariant, CutoffTypeOK, Guard, AtPc, CanTerminate, Attached, StatusKnown, bounds, signals,
         stall, stored, GuardRefused, PassEnds, StatusUnread, Fault, Blind
<1>2. ClosedWhenGone'
  BY DEF CutoffInvariant, ClosedWhenGone, Passing, Guard, AtPc, CanTerminate, Attached, StatusKnown,
         bounds, signals, stall, stored, GuardRefused, PassEnds, StatusUnread, Fault, Blind
<1>3. CutTold'
  BY DEF CutoffInvariant, CutTold, Passing, Guard, AtPc, CanTerminate, Attached, StatusKnown, bounds,
         signals, stall, stored, GuardRefused, PassEnds, StatusUnread, Fault, Blind
<1>4. NewerKept'
  BY DEF CutoffInvariant, NewerKept, Guard, AtPc, CanTerminate, Attached, StatusKnown, bounds, signals,
         stall, stored, GuardRefused, PassEnds, StatusUnread, Fault, Blind
<1>5. Passing'
  BY DEF CutoffInvariant, Passing, Guard, AtPc, CanTerminate, Attached, StatusKnown, bounds, signals,
         stall, stored, GuardRefused, PassEnds, StatusUnread, Fault, Blind
<1>6. Checked'
  BY DEF CutoffInvariant, Checked, Blind, Passing, Guard, AtPc, CanTerminate, Attached, StatusKnown,
         bounds, signals, stall, stored, GuardRefused, PassEnds, StatusUnread, Fault
<1> QED
  BY <1>1, <1>2, <1>3, <1>4, <1>5, <1>6 DEF CutoffInvariant

LEMMA SignalStep ==
  ASSUME CutoffInvariant, Signal
  PROVE  CutoffInvariant'
<1>1. CutoffTypeOK'
  BY DEF CutoffInvariant, CutoffTypeOK, Signal, AtPc, stall, stored, bounds, ExitProved, Guarded, PassEnds,
         Refused, Fault, Blind
<1>2. ClosedWhenGone'
  BY DEF CutoffInvariant, ClosedWhenGone, Passing, Signal, AtPc, stall, stored, bounds, ExitProved,
         Guarded, PassEnds, Refused, Fault, Blind
<1>3. CutTold'
  BY DEF CutoffInvariant, CutTold, Passing, Signal, AtPc, stall, stored, bounds, ExitProved, Guarded,
         PassEnds, Refused, Fault, Blind
<1>4. NewerKept'
  BY DEF CutoffInvariant, NewerKept, Signal, AtPc, stall, stored, bounds, ExitProved, Guarded, PassEnds,
         Refused, Fault, Blind
<1>5. Passing'
  BY DEF CutoffInvariant, Passing, Signal, AtPc, stall, stored, bounds, ExitProved, Guarded, PassEnds,
         Refused, Fault, Blind
<1>6. Checked'
  BY DEF CutoffInvariant, Checked, Blind, Passing, Signal, AtPc, stall, stored, bounds, ExitProved,
         Guarded, PassEnds, Refused, Fault
<1> QED
  BY <1>1, <1>2, <1>3, <1>4, <1>5, <1>6 DEF CutoffInvariant

LEMMA GraceStep ==
  ASSUME CutoffInvariant, Grace
  PROVE  CutoffInvariant'
<1>1. CutoffTypeOK'
  BY DEF CutoffInvariant, CutoffTypeOK, Grace, AtPc, ExitProved, Guarded, PassEnds, stall, bounds,
         Terminating, stored, Fault, signals
<1>2. ClosedWhenGone'
  BY DEF CutoffInvariant, ClosedWhenGone, Passing, Grace, AtPc, ExitProved, Guarded, PassEnds, stall,
         bounds, Terminating, stored, Fault, signals
<1>3. CutTold'
  BY DEF CutoffInvariant, CutTold, Passing, Grace, AtPc, ExitProved, Guarded, PassEnds, stall, bounds,
         Terminating, stored, Fault, signals
<1>4. NewerKept'
  BY DEF CutoffInvariant, NewerKept, Grace, AtPc, ExitProved, Guarded, PassEnds, stall, bounds,
         Terminating, stored, Fault, signals
<1>5. Passing'
  BY DEF CutoffInvariant, Passing, Grace, AtPc, ExitProved, Guarded, PassEnds, stall, bounds, Terminating,
         stored, Fault, signals
<1>6. Checked'
  BY DEF CutoffInvariant, Checked, Blind, Passing, Grace, AtPc, ExitProved, Guarded, PassEnds, stall,
         bounds, Terminating, stored, Fault, signals
<1> QED
  BY <1>1, <1>2, <1>3, <1>4, <1>5, <1>6 DEF CutoffInvariant

LEMMA EscalateStep ==
  ASSUME CutoffInvariant, Escalate
  PROVE  CutoffInvariant'
<1>1. CutoffTypeOK'
  BY DEF CutoffInvariant, CutoffTypeOK, Escalate, AtPc, Guarded, CanTerminate, Attached, signals, stall,
         stored, bounds, Terminating, PassEnds, StatusUnread, Fault
<1>2. ClosedWhenGone'
  BY DEF CutoffInvariant, ClosedWhenGone, Passing, Escalate, AtPc, Guarded, CanTerminate, Attached,
         signals, stall, stored, bounds, Terminating, PassEnds, StatusUnread, Fault
<1>3. CutTold'
  BY DEF CutoffInvariant, CutTold, Passing, Escalate, AtPc, Guarded, CanTerminate, Attached, signals,
         stall, stored, bounds, Terminating, PassEnds, StatusUnread, Fault
<1>4. NewerKept'
  BY DEF CutoffInvariant, NewerKept, Escalate, AtPc, Guarded, CanTerminate, Attached, signals, stall,
         stored, bounds, Terminating, PassEnds, StatusUnread, Fault
<1>5. Passing'
  BY DEF CutoffInvariant, Passing, Escalate, AtPc, Guarded, CanTerminate, Attached, signals, stall, stored,
         bounds, Terminating, PassEnds, StatusUnread, Fault
<1>6. Checked'
  BY DEF CutoffInvariant, Checked, Blind, Passing, Escalate, AtPc, Guarded, CanTerminate, Attached,
         signals, stall, stored, bounds, Terminating, PassEnds, StatusUnread, Fault
<1> QED
  BY <1>1, <1>2, <1>3, <1>4, <1>5, <1>6 DEF CutoffInvariant

LEMMA KillStep ==
  ASSUME CutoffInvariant, Kill
  PROVE  CutoffInvariant'
<1>1. CutoffTypeOK'
  BY DEF CutoffInvariant, CutoffTypeOK, Kill, AtPc, stall, stored, bounds, ExitProved, Guarded, PassEnds,
         Terminating, Fault
<1>2. ClosedWhenGone'
  BY DEF CutoffInvariant, ClosedWhenGone, Passing, Kill, AtPc, stall, stored, bounds, ExitProved, Guarded,
         PassEnds, Terminating, Fault
<1>3. CutTold'
  BY DEF CutoffInvariant, CutTold, Passing, Kill, AtPc, stall, stored, bounds, ExitProved, Guarded,
         PassEnds, Terminating, Fault
<1>4. NewerKept'
  BY DEF CutoffInvariant, NewerKept, Kill, AtPc, stall, stored, bounds, ExitProved, Guarded, PassEnds,
         Terminating, Fault
<1>5. Passing'
  BY DEF CutoffInvariant, Passing, Kill, AtPc, stall, stored, bounds, ExitProved, Guarded, PassEnds,
         Terminating, Fault
<1>6. Checked'
  BY DEF CutoffInvariant, Checked, Blind, Passing, Kill, AtPc, stall, stored, bounds, ExitProved, Guarded,
         PassEnds, Terminating, Fault
<1> QED
  BY <1>1, <1>2, <1>3, <1>4, <1>5, <1>6 DEF CutoffInvariant

LEMMA DeadStep ==
  ASSUME CutoffInvariant, Dead
  PROVE  CutoffInvariant'
<1>1. CutoffTypeOK'
  BY DEF CutoffInvariant, CutoffTypeOK, Dead, AtPc, ExitProved, Guarded, PassEnds, stall, bounds,
         Terminating, stored
<1>2. ClosedWhenGone'
  BY DEF CutoffInvariant, ClosedWhenGone, Passing, Dead, AtPc, ExitProved, Guarded, PassEnds, stall,
         bounds, Terminating, stored
<1>3. CutTold'
  BY DEF CutoffInvariant, CutTold, Passing, Dead, AtPc, ExitProved, Guarded, PassEnds, stall, bounds,
         Terminating, stored
<1>4. NewerKept'
  BY DEF CutoffInvariant, NewerKept, Dead, AtPc, ExitProved, Guarded, PassEnds, stall, bounds, Terminating,
         stored
<1>5. Passing'
  BY DEF CutoffInvariant, Passing, Dead, AtPc, ExitProved, Guarded, PassEnds, stall, bounds, Terminating,
         stored
<1>6. Checked'
  BY DEF CutoffInvariant, Checked, Blind, Passing, Dead, AtPc, ExitProved, Guarded, PassEnds, stall,
         bounds, Terminating, stored
<1> QED
  BY <1>1, <1>2, <1>3, <1>4, <1>5, <1>6 DEF CutoffInvariant

LEMMA CheckStep ==
  ASSUME CutoffInvariant, Check
  PROVE  CutoffInvariant'
<1>1. CutoffTypeOK'
  BY DEF CutoffInvariant, CutoffTypeOK, Check, AtPc, ExitProved, Guarded, PassEnds, stall, bounds, Refused,
         stored, Fault, Terminating, CanTerminate, Attached, Blind
<1>2. ClosedWhenGone'
  BY DEF CutoffInvariant, ClosedWhenGone, Passing, Check, AtPc, ExitProved, Guarded, PassEnds, stall,
         bounds, Refused, stored, Fault, Terminating, CanTerminate, Attached, Blind
<1>3. CutTold'
  BY DEF CutoffInvariant, CutTold, Passing, Check, AtPc, ExitProved, Guarded, PassEnds, stall, bounds,
         Refused, stored, Fault, Terminating, CanTerminate, Attached, Blind
<1>4. NewerKept'
  BY DEF CutoffInvariant, NewerKept, Check, AtPc, ExitProved, Guarded, PassEnds, stall, bounds, Refused,
         stored, Fault, Terminating, CanTerminate, Attached, Blind
<1>5. Passing'
  BY DEF CutoffInvariant, Passing, Check, AtPc, ExitProved, Guarded, PassEnds, stall, bounds, Refused,
         stored, Fault, Terminating, CanTerminate, Attached, Blind
<1>6. Checked'
  BY DEF CutoffInvariant, Checked, Blind, Passing, Check, AtPc, ExitProved, Guarded, PassEnds, stall,
         bounds, Refused, stored, Fault, Terminating, CanTerminate, Attached
<1> QED
  BY <1>1, <1>2, <1>3, <1>4, <1>5, <1>6 DEF CutoffInvariant

(* The proof is stored: the last status read, the notice, the completion.  *)
LEMMA RereadStep ==
  ASSUME CutoffInvariant, Reread
  PROVE  CutoffInvariant'
<1>1. CutoffTypeOK'
  BY DEF CutoffInvariant, CutoffTypeOK, Reread, Settling, signals, SettleNow, PassEnds, bounds,
         CanTerminate, Attached, stall, stored, Recheck, Fault
<1>2. ClosedWhenGone'
  BY DEF CutoffInvariant, ClosedWhenGone, Passing, Reread, Settling, signals, SettleNow, PassEnds, bounds,
         CanTerminate, Attached, stall, stored, Recheck, Fault
<1>3. CutTold'
  BY DEF CutoffInvariant, CutTold, Passing, Reread, Settling, signals, SettleNow, PassEnds, bounds,
         CanTerminate, Attached, stall, stored, Recheck, Fault
<1>4. NewerKept'
  BY DEF CutoffInvariant, NewerKept, Reread, Settling, signals, SettleNow, PassEnds, bounds, CanTerminate,
         Attached, stall, stored, Recheck, Fault
<1>5. Passing'
  BY DEF CutoffInvariant, Passing, Reread, Settling, signals, SettleNow, PassEnds, bounds, CanTerminate,
         Attached, stall, stored, Recheck, Fault
<1>6. Checked'
  BY DEF CutoffInvariant, Checked, Blind, Passing, Reread, Settling, signals, SettleNow, PassEnds, bounds,
         CanTerminate, Attached, stall, stored, Recheck, Fault
<1> QED
  BY <1>1, <1>2, <1>3, <1>4, <1>5, <1>6 DEF CutoffInvariant

LEMMA NotifyStep ==
  ASSUME CutoffInvariant, Notify
  PROVE  CutoffInvariant'
<1>1. CutoffTypeOK'
  BY DEF CutoffInvariant, CutoffTypeOK, Notify, Settling, signals, Discarded, bounds, Fault, PassEnds,
         Recheck, stall
<1>2. ClosedWhenGone'
  BY DEF CutoffInvariant, ClosedWhenGone, Passing, Notify, Settling, signals, Discarded, bounds, Fault,
         PassEnds, Recheck, stall
<1>3. CutTold'
  <2>1. told => told'
    BY Zenon DEF Notify
  <2>2. trigger' = trigger
    BY DEF Notify
  <2> QED
    BY <2>1, <2>2 DEF CutoffInvariant, CutTold
<1>4. NewerKept'
  BY DEF CutoffInvariant, NewerKept, Notify, Settling, signals, Discarded, bounds, Fault, PassEnds,
         Recheck, stall
<1>5. Passing'
  BY DEF CutoffInvariant, Passing, Notify, Settling, signals, Discarded, bounds, Fault, PassEnds, Recheck,
         stall
<1>6. Checked'
  BY DEF CutoffInvariant, Checked, Blind, Passing, Notify, Settling, signals, Discarded, bounds, Fault,
         PassEnds, Recheck, stall
<1> QED
  BY <1>1, <1>2, <1>3, <1>4, <1>5, <1>6 DEF CutoffInvariant

LEMMA CompleteStep ==
  ASSUME CutoffInvariant, Complete
  PROVE  CutoffInvariant'
<1>1. CutoffTypeOK'
  BY DEF CutoffInvariant, CutoffTypeOK, Complete, Settling, signals, Discarded, PassEnds, Rotates, bounds,
         Fault, Recheck, stall, stored
<1>2. ClosedWhenGone'
  BY DEF CutoffInvariant, ClosedWhenGone, Passing, Complete, Settling, signals, Discarded, PassEnds,
         Rotates, bounds, Fault, Recheck, stall, stored
<1>3. CutTold'
  BY DEF CutoffInvariant, CutTold, Passing, Complete, Settling, signals, Discarded, PassEnds, Rotates,
         bounds, Fault, Recheck, stall, stored
<1>4. NewerKept'
  BY DEF CutoffInvariant, NewerKept, Complete, Settling, signals, Discarded, PassEnds, Rotates, bounds,
         Fault, Recheck, stall, stored
<1>5. Passing'
  BY DEF CutoffInvariant, Passing, Complete, Settling, signals, Discarded, PassEnds, Rotates, bounds,
         Fault, Recheck, stall, stored
<1>6. Checked'
  BY DEF CutoffInvariant, Checked, Blind, Passing, Complete, Settling, signals, Discarded, PassEnds,
         Rotates, bounds, Fault, Recheck, stall, stored
<1> QED
  BY <1>1, <1>2, <1>3, <1>4, <1>5, <1>6 DEF CutoffInvariant

LEMMA CutoffStepLemma == CutoffInvariant /\ [CutoffNext]_cutoff => CutoffInvariant'
<1> SUFFICES ASSUME CutoffInvariant, [CutoffNext]_cutoff PROVE CutoffInvariant'
  OBVIOUS
<1>1. CASE UNCHANGED cutoff
  BY <1>1 DEF cutoff, stored, stall, signals, bounds, CutoffInvariant, CutoffTypeOK, ClosedWhenGone,
         CutTold,
              NewerKept, Passing, Checked, Blind
<1>2. CASE CutoffNext
  BY <1>2, WorldStep, FrameHeardStep, ReconcileRunningStep, LookStep, GuardStep, SignalStep, GraceStep,
     EscalateStep, KillStep, DeadStep, CheckStep, RereadStep, NotifyStep, CompleteStep DEF CutoffNext
<1> QED
  BY <1>1, <1>2

LEMMA CutoffInvariantLemma == CutoffSpec => []CutoffInvariant
BY CutoffInitLemma, CutoffStepLemma, PTL DEF CutoffSpec

(* The turn, the pass and the host are in the states the code declares.    *)
THEOREM CutoffTypeCorrect == CutoffSpec => []CutoffTypeOK
<1>1. CutoffInvariant => CutoffTypeOK
  BY DEF CutoffInvariant
<1> QED
  BY <1>1, CutoffInvariantLemma, PTL

(* A silent turn is closed only on the proof that its host is gone, after  *)
(* its owner was told, without touching a newer epoch, and an unfinished   *)
(* one is always checked again: for any number of frames, unreadable       *)
(* tables, failed writes, reused pids and crashes.                         *)
THEOREM CutOffAlwaysProved == CutoffSpec => []CutOffProved
<1>1. CutoffInvariant => CutOffProved
  BY DEF CutoffInvariant, Checked, CutOffProved, Polled
<1> QED
  BY <1>1, CutoffInvariantLemma, PTL

-----------------------------------------------------------------------------
(* What a relay reports. It is over when it is closed, and one that is not *)
(* ready any more is over; it has a stream up only when it is ready.       *)
OverWhenClosed ==
  /\ closed <=> stream = "none"
  /\ ready = "failed" => closed
  /\ stream = "up" => ready = "yes"

(* A request the host has not been shown: not made, waiting or unwritten.  *)
Unseen == \A r \in Req : req[r] \in {"none", "asks", "unwritten"} => reach[r] = "unseen"

(* Frames are on their way on a stream that is up, from turns whose prompt *)
(* was written to it, and no turn is written before it is given.           *)
Frames ==
  /\ stream # "up" => wire = <<>>
  /\ \A i \in DOMAIN wire : wire[i] \in owner
  /\ \A t \in owner : t <= current

(* The id that is held is the current turn's, and an earlier turn whose id *)
(* is not remembered has nothing more to say.                              *)
Hushed ==
  /\ known \in {0, current}
  /\ \A t \in Turn : t < current /\ t \notin past
       => /\ t \in owner => streamed[t] = MaxOutput
          /\ \A i \in DOMAIN wire : wire[i] # t

OwnDeliveries == \A i \in DOMAIN deliveries : deliveries[i][1] = deliveries[i][2]

LinkOK ==
  /\ stream \in {"opening", "up", "down", "none"} /\ ready \in {"no", "yes", "failed"}
  /\ closed \in BOOLEAN /\ lapses \in Nat /\ opened \in Nat
RequestsOK ==
  /\ req \in [Req -> {"none", "asks", "unwritten", "written", "lost", "answered", "timeout"}]
  /\ reach \in [Req -> {"unseen", "seen", "answered"}]
ContentOK ==
  /\ current \in 0..MaxTurn /\ known \in 0..MaxTurn /\ past \subseteq Turn /\ owner \subseteq Turn
  /\ streamed \in [Turn -> Nat] /\ wire \in Seq(Turn)
  /\ deliveries \in Seq(Turn \X Turn) /\ got \subseteq Turn \X Turn
RequestsTold == Unseen /\ NobodyLeft /\ UnwrittenUnseen
LinkInv == LinkOK /\ OverWhenClosed
RequestInv == RequestsOK /\ RequestsTold
ContentInv == ContentOK /\ Frames /\ Hushed /\ OwnDeliveries /\ OwnContent
RelayInvariant == LinkInv /\ RequestInv /\ ContentInv

LEMMA RelayInitLemma == RelayInit => RelayInvariant
<1> SUFFICES ASSUME RelayInit PROVE RelayInvariant
  OBVIOUS
<1>1. LinkInv
  BY DEF RelayInit, LinkInv, LinkOK, OverWhenClosed
<1>2. RequestInv
  BY DEF RelayInit, RequestInv, RequestsOK, RequestsTold, Unseen, NobodyLeft, UnwrittenUnseen
<1>3. ContentOK
  BY RelayAssumption DEF RelayInit, ContentOK, Turn
<1>4. Frames /\ Hushed /\ OwnDeliveries /\ OwnContent
  BY DEF RelayInit, Frames, Hushed, OwnDeliveries, OwnContent, Turn
<1> QED
  BY <1>1, <1>2, <1>3, <1>4 DEF RelayInvariant, ContentInv

-----------------------------------------------------------------------------
(* What is true of turns and frames stays true while they and whether the  *)
(* stream is up do not change.                                             *)
LEMMA ContentStill ==
  ASSUME ContentInv, UNCHANGED content, stream = "up" <=> stream' = "up"
  PROVE  ContentInv'
BY DEF ContentInv, ContentOK, Frames, Hushed, OwnDeliveries, OwnContent, content

(* A relay that is closed leaves no request waiting.                       *)
LEMMA CloseTells ==
  ASSUME LinkInv, RequestInv, close, UNCHANGED <<lapses, opened, reach>>
  PROVE  LinkInv' /\ RequestInv' /\ stream' = "none"
<1>1. LinkInv' /\ stream' = "none"
  BY DEF LinkInv, LinkOK, OverWhenClosed, close
<1>2. RequestsOK'
  BY DEF RequestInv, RequestsOK, close, Resumed
<1>3. \A r \in Req : req'[r] # "written" /\ (ready = "no" => req'[r] # "asks")
  BY DEF RequestInv, RequestsOK, close, Resumed
<1>4. \A r \in Req : (req'[r] = req[r]) \/ (req'[r] = "lost") \/ (req'[r] = "unwritten" /\ req[r] = "asks")
  BY DEF RequestInv, RequestsOK, close, Resumed
<1>5. Unseen' /\ UnwrittenUnseen'
  BY <1>4 DEF RequestInv, RequestsTold, Unseen, UnwrittenUnseen
<1>6. NobodyLeft'
  BY <1>3, <1>4 DEF RequestInv, RequestsTold, NobodyLeft, LinkInv, LinkOK, close
<1> QED
  BY <1>1, <1>2, <1>5, <1>6 DEF RequestInv, RequestsTold

(* When the stream ends, everything that waited on it is told.             *)
LEMMA EndTells ==
  ASSUME RequestInv, failPending, ready' = ready, reach' = reach
  PROVE  RequestInv'
<1>1. RequestsOK'
  BY DEF RequestInv, RequestsOK, failPending
<1>2. \A r \in Req : (req'[r] = req[r] /\ req'[r] # "written") \/ req'[r] = "lost"
  BY DEF RequestInv, RequestsOK, failPending
<1> QED
  BY <1>1, <1>2 DEF RequestInv, RequestsTold, Unseen, NobodyLeft, UnwrittenUnseen

-----------------------------------------------------------------------------
(* The stream opens, ends, is opened again and is given up.                *)
LEMMA HelloStep == RelayInvariant /\ Hello => RelayInvariant'
<1> SUFFICES ASSUME LinkInv, RequestInv, ContentInv, Hello PROVE LinkInv' /\ RequestInv' /\ ContentInv'
  BY DEF RelayInvariant
<1>1. LinkInv'
  BY DEF LinkInv, LinkOK, OverWhenClosed, Hello
<1>2. RequestInv'
  BY DEF RequestInv, RequestsOK, RequestsTold, Unseen, NobodyLeft, UnwrittenUnseen, Hello, calls
<1>3. ContentInv'
  BY DEF ContentInv, ContentOK, Frames, Hushed, OwnDeliveries, OwnContent, Hello, content
<1> QED
  BY <1>1, <1>2, <1>3

LEMMA NoHelloStep == RelayInvariant /\ NoHello => RelayInvariant'
<1> SUFFICES ASSUME LinkInv, RequestInv, ContentInv, NoHello
             PROVE  LinkInv' /\ RequestInv' /\ ContentInv'
  BY DEF RelayInvariant
<1>1. CASE ready = "no"
  <2>1. close /\ UNCHANGED <<lapses, opened, reach, content>> /\ stream = "opening"
    BY <1>1 DEF NoHello
  <2> QED
    BY <2>1, CloseTells, ContentStill
<1>2. CASE ready # "no"
  <2>1. /\ stream = "opening" /\ stream' = "down" /\ lapses' = lapses + 1 /\ failPending
        /\ UNCHANGED <<ready, closed, opened, reach, content>>
    BY <1>2 DEF NoHello
  <2>2. LinkInv'
    BY <2>1 DEF LinkInv, LinkOK, OverWhenClosed
  <2> QED
    BY <2>1, <2>2, EndTells, ContentStill
<1> QED
  BY <1>1, <1>2

LEMMA StreamEndsStep == RelayInvariant /\ StreamEnds => RelayInvariant'
<1> SUFFICES ASSUME LinkInv, RequestInv, ContentInv, StreamEnds
             PROVE  LinkInv' /\ RequestInv' /\ ContentInv'
  BY DEF RelayInvariant
<1>1. LinkInv'
  BY DEF LinkInv, LinkOK, OverWhenClosed, StreamEnds
<1>2. RequestInv'
  BY EndTells DEF StreamEnds
<1>3. ContentInv'
  BY DEF ContentInv, ContentOK, Frames, Hushed, OwnDeliveries, OwnContent, StreamEnds
<1> QED
  BY <1>1, <1>2, <1>3

LEMMA ReopenStep == RelayInvariant /\ Reopen => RelayInvariant'
<1> SUFFICES ASSUME LinkInv, RequestInv, ContentInv, Reopen PROVE LinkInv' /\ RequestInv' /\ ContentInv'
  BY DEF RelayInvariant
<1>1. LinkInv'
  BY DEF LinkInv, LinkOK, OverWhenClosed, Reopen
<1>2. RequestInv'
  BY DEF RequestInv, RequestsOK, RequestsTold, Unseen, NobodyLeft, UnwrittenUnseen, Reopen, calls
<1>3. ContentInv'
  BY DEF ContentInv, ContentOK, Frames, Hushed, OwnDeliveries, OwnContent, Reopen
<1> QED
  BY <1>1, <1>2, <1>3

LEMMA OverStep == RelayInvariant /\ (Exhausted \/ CloseRelay) => RelayInvariant'
<1> SUFFICES ASSUME LinkInv, RequestInv, ContentInv, Exhausted \/ CloseRelay
             PROVE  LinkInv' /\ RequestInv' /\ ContentInv'
  BY DEF RelayInvariant
<1>1. close /\ UNCHANGED <<lapses, opened, reach, current, known, past, owner, streamed,
                            deliveries, got>>
  BY DEF Exhausted, CloseRelay, content
<1>2. wire' = <<>>
  BY DEF Exhausted, CloseRelay, content, ContentInv, Frames
<1>3. ContentInv'
  BY <1>1, <1>2 DEF ContentInv, ContentOK, Frames, Hushed, OwnDeliveries, OwnContent
<1> QED
  BY <1>1, <1>3, CloseTells

-----------------------------------------------------------------------------
(* A request is made, written, lost, answered or given up.                 *)
LEMMA RequestStep ==
  ASSUME RelayInvariant, NEW r \in Req,
         AskHost(r) \/ NotOpen(r) \/ WriteFrame(r) \/ WriteThrows(r) \/ HostAnswers(r) \/ Timeout(r)
  PROVE  RelayInvariant'
<1> SUFFICES ASSUME LinkInv, RequestInv, ContentInv PROVE LinkInv' /\ RequestInv' /\ ContentInv'
  BY DEF RelayInvariant
<1>1. LinkInv'
  BY DEF LinkInv, LinkOK, OverWhenClosed, link, AskHost, NotOpen, WriteFrame, WriteThrows, HostAnswers,
         Timeout
<1>2. PICK c \in {"asks", "unwritten", "written", "lost", "answered", "timeout"},
           h \in {"unseen", "seen", "answered"} :
        /\ req' = [req EXCEPT ![r] = c] /\ reach' = [reach EXCEPT ![r] = h]
        /\ c \in {"asks", "unwritten"} => h = "unseen"
        /\ c = "written" => stream = "up"
        /\ c = "asks" => ~closed
  <2>1. CASE AskHost(r)
    BY <2>1 DEF AskHost, RequestInv, RequestsOK, RequestsTold, Unseen
  <2>2. CASE NotOpen(r)
    BY <2>2 DEF NotOpen, RequestInv, RequestsOK, RequestsTold, Unseen
  <2>3. CASE WriteFrame(r)
    BY <2>3 DEF WriteFrame, RequestInv, RequestsOK, RequestsTold, Unseen
  <2>4. CASE WriteThrows(r)
    BY <2>4 DEF WriteThrows, RequestInv, RequestsOK, RequestsTold, Unseen
  <2>5. CASE HostAnswers(r)
    BY <2>5 DEF HostAnswers, RequestInv, RequestsOK
  <2>6. CASE Timeout(r)
    BY <2>6 DEF Timeout, RequestInv, RequestsOK
  <2> QED
    BY <2>1, <2>2, <2>3, <2>4, <2>5, <2>6
<1>3. UNCHANGED <<stream, ready>>
  BY DEF link, AskHost, NotOpen, WriteFrame, WriteThrows, HostAnswers, Timeout
<1>4. RequestsOK'
  BY <1>2 DEF RequestInv, RequestsOK
<1>5. \A s \in Req : \/ s = r /\ req'[s] = c /\ reach'[s] = h
                     \/ req'[s] = req[s] /\ reach'[s] = reach[s]
  BY <1>2 DEF RequestInv, RequestsOK
<1>6. RequestsTold'
  BY <1>2, <1>3, <1>5 DEF RequestInv, RequestsTold, Unseen, NobodyLeft, UnwrittenUnseen, LinkInv,
         OverWhenClosed
<1>7. /\ UNCHANGED <<current, known, past, streamed, wire, deliveries, got>>
      /\ owner' = owner \/ owner' = owner \cup ({current} \ {0})
  BY DEF content, AskHost, NotOpen, WriteFrame, WriteThrows, HostAnswers, Timeout
<1>8. owner \subseteq owner' /\ \A t \in owner' : t \in owner \/ (t = current /\ t \in Turn)
  <2>1. current # 0 => current \in Turn
    BY RelayAssumption DEF ContentInv, ContentOK, Turn
  <2> QED
    BY <1>7, <2>1
<1>9. ContentOK'
  <2>1. owner' \subseteq Turn
    BY <1>8 DEF ContentInv, ContentOK
  <2> QED
    BY <1>7, <2>1 DEF ContentInv, ContentOK
<1>10. Frames'
  <2>1. \A t \in owner' : t <= current
    BY <1>8, RelayAssumption DEF ContentInv, ContentOK, Frames, Turn
  <2> QED
    BY <1>3, <1>7, <1>8, <2>1 DEF ContentInv, Frames
<1>12. Hushed'
  <2>1. \A t \in Turn : t < current /\ t \in owner' => t \in owner
    BY <1>8, RelayAssumption DEF ContentInv, ContentOK, Turn
  <2> QED
    BY <1>7, <2>1 DEF ContentInv, Hushed
<1>11. OwnDeliveries' /\ OwnContent'
  BY <1>7 DEF ContentInv, OwnDeliveries, OwnContent
<1> QED
  BY <1>1, <1>4, <1>6, <1>9, <1>10, <1>11, <1>12 DEF RequestInv, ContentInv

-----------------------------------------------------------------------------
(* Turns and their frames. The stream and the requests stay as they are.   *)
LEMMA LinkStill ==
  ASSUME LinkInv, RequestInv, UNCHANGED <<link, calls>> PROVE LinkInv' /\ RequestInv' /\ stream' = stream
BY DEF LinkInv, LinkOK, OverWhenClosed, RequestInv, RequestsOK, RequestsTold, Unseen, NobodyLeft,
       UnwrittenUnseen, link, calls

LEMMA beginTurnStep == RelayInvariant /\ beginTurn => RelayInvariant'
<1> SUFFICES ASSUME LinkInv, RequestInv, ContentInv, beginTurn
             PROVE  LinkInv' /\ RequestInv' /\ ContentInv'
  BY DEF RelayInvariant
<1>1. LinkInv' /\ RequestInv' /\ stream' = stream
  BY LinkStill DEF beginTurn
<1>2. ContentOK'
  <2>1. current' \in 0..MaxTurn /\ known' \in 0..MaxTurn
    BY RelayAssumption DEF ContentInv, ContentOK, beginTurn
  <2>2. known # 0 => known \in Turn
    BY RelayAssumption DEF ContentInv, ContentOK, Turn
  <2>3. past' \subseteq Turn
    BY <2>2 DEF ContentInv, ContentOK, beginTurn
  <2> QED
    BY <2>1, <2>3 DEF ContentInv, ContentOK, beginTurn
<1>3. Frames'
  BY <1>1 DEF ContentInv, ContentOK, Frames, beginTurn, Turn
<1>4. ASSUME NEW t \in Turn, t < current', t \notin past'
      PROVE  (t \in owner => streamed[t] = MaxOutput) /\ \A i \in DOMAIN wire : wire[i] # t
  <2>1. CASE t < current
    BY <1>4, <2>1 DEF ContentInv, Hushed, beginTurn
  <2>2. CASE t = current
    <3>1. known # current
      BY <1>4, <2>2 DEF beginTurn, Turn
    <3>2. Heard(t)
      BY <3>1, <2>2 DEF beginTurn
    <3>3. t \in owner => (streamed[t] = MaxOutput /\ \A i \in DOMAIN wire : wire[i] # t)
      BY <3>2 DEF Heard, Turn
    <3> QED
      BY <3>3 DEF ContentInv, Frames
  <2> QED
    BY <1>4, <2>1, <2>2 DEF beginTurn, ContentInv, ContentOK, Turn
<1>5. Hushed'
  BY <1>4 DEF Hushed, beginTurn
<1>6. OwnDeliveries' /\ OwnContent'
  BY DEF ContentInv, OwnDeliveries, OwnContent, beginTurn
<1> QED
  BY <1>1, <1>2, <1>3, <1>5, <1>6 DEF ContentInv

LEMMA correlateStep == RelayInvariant /\ correlate => RelayInvariant'
<1> SUFFICES ASSUME LinkInv, RequestInv, ContentInv, correlate
             PROVE  LinkInv' /\ RequestInv' /\ ContentInv'
  BY DEF RelayInvariant
<1>1. LinkInv' /\ RequestInv' /\ stream' = stream
  BY LinkStill DEF correlate
<1> QED
  BY <1>1 DEF ContentInv, ContentOK, Frames, Hushed, OwnDeliveries, OwnContent, correlate

LEMMA HostSendsStep ==
  ASSUME RelayInvariant, NEW t \in Turn, HostSends(t)
  PROVE  RelayInvariant'
<1> SUFFICES ASSUME LinkInv, RequestInv, ContentInv PROVE LinkInv' /\ RequestInv' /\ ContentInv'
  BY DEF RelayInvariant
<1>1. LinkInv' /\ RequestInv' /\ stream' = stream
  BY LinkStill DEF HostSends
<1>2. /\ wire \in Seq(Turn) /\ wire' = Append(wire, t) /\ t \in owner /\ streamed[t] < MaxOutput
      /\ stream = "up"
  BY DEF HostSends, ContentInv, ContentOK
<1>3. \A i \in DOMAIN wire' : (i \in DOMAIN wire /\ wire'[i] = wire[i]) \/ wire'[i] = t
  BY <1>2
<1>s. streamed \in [Turn -> Nat] /\ streamed[t] + 1 \in Nat /\ streamed' = [streamed EXCEPT ![t] = streamed[t] + 1]
  BY DEF HostSends, ContentInv, ContentOK
<1>4. /\ streamed' \in [Turn -> Nat] /\ \A u \in Turn : u # t => streamed'[u] = streamed[u]
  BY <1>s
<1>5. ContentOK'
  BY <1>2, <1>4 DEF HostSends, ContentInv, ContentOK
<1>6. Frames'
  BY <1>1, <1>2, <1>3 DEF HostSends, ContentInv, Frames
<1>7. t < current => t \in past
  BY <1>2, RelayAssumption DEF ContentInv, Hushed
<1>8. Hushed'
  BY <1>3, <1>4, <1>7 DEF HostSends, ContentInv, Hushed
<1>9. OwnDeliveries' /\ OwnContent'
  BY DEF HostSends, ContentInv, OwnDeliveries, OwnContent
<1> QED
  BY <1>1, <1>5, <1>6, <1>8, <1>9 DEF ContentInv

LEMMA ReceiveStep == RelayInvariant /\ Receive => RelayInvariant'
<1> SUFFICES ASSUME LinkInv, RequestInv, ContentInv, Receive
             PROVE  LinkInv' /\ RequestInv' /\ ContentInv'
  BY DEF RelayInvariant
<1>1. LinkInv' /\ RequestInv' /\ stream' = stream
  BY LinkStill DEF Receive
<1>2. PICK t : t = Head(wire)
  OBVIOUS
<1>3. /\ wire \in Seq(Turn) /\ wire # <<>> /\ wire' = Tail(wire) /\ stream = "up"
      /\ \/ Matches(t) /\ known' = t /\ deliveries' = Append(deliveries, <<t, current>>)
         \/ UNCHANGED <<known, deliveries>>
      /\ UNCHANGED <<current, past, owner, streamed, got>>
  BY <1>2 DEF Receive, ContentInv, ContentOK
<1>4. /\ t \in Turn /\ t = wire[1] /\ 1 \in DOMAIN wire
      /\ wire' \in Seq(Turn) /\ \A i \in DOMAIN wire' : i + 1 \in DOMAIN wire /\ wire'[i] = wire[i + 1]
  BY <1>2, <1>3
<1>5. Matches(t) => t = current
  <2>1. t <= current
    BY <1>4 DEF ContentInv, Frames
  <2>2. t < current => t \in past
    BY <1>4 DEF ContentInv, Hushed
  <2> QED
    BY <2>1, <2>2, <1>4 DEF Matches, Adopts, ContentInv, ContentOK, Hushed, Turn
<1>6. /\ deliveries' \in Seq(Turn \X Turn)
      /\ \A i \in DOMAIN deliveries' :
           (i \in DOMAIN deliveries /\ deliveries'[i] = deliveries[i]) \/ deliveries'[i] = <<t, t>>
  <2>1. PICK x : x = <<t, t>>
    OBVIOUS
  <2>2. x \in Turn \X Turn
    BY <1>4, <2>1
  <2>3. /\ deliveries \in Seq(Turn \X Turn)
        /\ deliveries' = deliveries \/ deliveries' = Append(deliveries, x)
    BY <1>3, <1>5, <2>1 DEF ContentInv, ContentOK
  <2>4. CASE deliveries' = deliveries
    BY <2>3, <2>4
  <2>5. CASE deliveries' = Append(deliveries, x)
    <3>1. deliveries' \in Seq(Turn \X Turn)
      BY <2>2, <2>3, <2>5
    <3>2. \A i \in DOMAIN deliveries' :
            (i \in DOMAIN deliveries /\ deliveries'[i] = deliveries[i]) \/ deliveries'[i] = x
      BY <2>2, <2>3, <2>5
    <3> QED
      BY <2>1, <3>1, <3>2
  <2> QED
    BY <2>3, <2>4, <2>5
<1>7. known' \in {0, current}
  BY <1>3, <1>5 DEF ContentInv, Hushed
<1>8. ContentOK'
  <2>1. known' \in 0..MaxTurn
    BY <1>7, RelayAssumption DEF ContentInv, ContentOK
  <2> QED
    BY <1>3, <1>4, <1>6, <2>1 DEF ContentInv, ContentOK
<1>9. Frames'
  BY <1>1, <1>3, <1>4 DEF ContentInv, Frames
<1>10. Hushed'
  BY <1>3, <1>4, <1>7 DEF ContentInv, Hushed
<1>11. OwnDeliveries' /\ OwnContent'
  BY <1>3, <1>6 DEF ContentInv, OwnDeliveries, OwnContent
<1> QED
  BY <1>1, <1>8, <1>9, <1>10, <1>11 DEF ContentInv

LEMMA HandOverStep == RelayInvariant /\ HandOver => RelayInvariant'
<1> SUFFICES ASSUME LinkInv, RequestInv, ContentInv, HandOver
             PROVE  LinkInv' /\ RequestInv' /\ ContentInv'
  BY DEF RelayInvariant
<1>1. LinkInv' /\ RequestInv' /\ stream' = stream
  BY LinkStill DEF HandOver
<1>2. PICK d : d = Head(deliveries)
  OBVIOUS
<1>3. /\ deliveries \in Seq(Turn \X Turn) /\ deliveries # <<>> /\ deliveries' = Tail(deliveries)
      /\ got' = got \/ (got' = got \cup {<<d[1], current>>} /\ d[2] = current)
      /\ UNCHANGED <<current, known, past, owner, streamed, wire>>
  BY <1>2 DEF HandOver, ContentInv, ContentOK
<1>4. /\ d \in Turn \X Turn /\ d = deliveries[1] /\ 1 \in DOMAIN deliveries
      /\ deliveries' \in Seq(Turn \X Turn)
      /\ \A i \in DOMAIN deliveries' : i + 1 \in DOMAIN deliveries /\ deliveries'[i] = deliveries[i + 1]
  BY <1>2, <1>3
<1>5. d[1] = d[2]
  BY <1>4 DEF ContentInv, OwnDeliveries
<1>6. got' \subseteq Turn \X Turn /\ OwnContent'
  <2>1. CASE got' = got
    BY <2>1 DEF ContentInv, ContentOK, OwnContent
  <2>2. CASE got' = got \cup {<<d[1], current>>} /\ d[2] = current
    <3>1. PICK x : x = <<d[1], current>>
      OBVIOUS
    <3>2. x \in Turn \X Turn /\ x[1] = x[2]
      BY <1>4, <1>5, <2>2, <3>1
    <3>3. got' = got \cup {x}
      BY <2>2, <3>1
    <3> QED
      BY <3>2, <3>3 DEF ContentInv, ContentOK, OwnContent
  <2> QED
    BY <1>3, <2>1, <2>2
<1>7. ContentOK'
  BY <1>3, <1>4, <1>6 DEF ContentInv, ContentOK
<1>8. Frames' /\ Hushed'
  BY <1>1, <1>3 DEF ContentInv, Frames, Hushed
<1>9. OwnDeliveries'
  BY <1>4 DEF ContentInv, OwnDeliveries
<1> QED
  BY <1>1, <1>6, <1>7, <1>8, <1>9 DEF ContentInv

-----------------------------------------------------------------------------
LEMMA RelayStepLemma == RelayInvariant /\ [RelayNext]_relay => RelayInvariant'
<1> SUFFICES ASSUME RelayInvariant, [RelayNext]_relay PROVE RelayInvariant'
  OBVIOUS
<1>1. CASE UNCHANGED relay
  <2>1. UNCHANGED <<link, calls, content>> /\ stream' = stream
    BY <1>1 DEF relay, link, calls, content
  <2> QED
    BY <2>1, LinkStill, ContentStill DEF RelayInvariant
<1>2. CASE RelayNext
  BY <1>2, HelloStep, NoHelloStep, StreamEndsStep, ReopenStep, OverStep, RequestStep, beginTurnStep,
     correlateStep, HostSendsStep, ReceiveStep, HandOverStep DEF RelayNext
<1> QED
  BY <1>1, <1>2

LEMMA RelayInvariantLemma == RelaySpec => []RelayInvariant
BY RelayInitLemma, RelayStepLemma, PTL DEF RelaySpec

(* The stream, the requests and the turns of a relay are in the states the *)
(* code declares.                                                          *)
THEOREM RelayTypeCorrect == RelaySpec => []RelayTypeOK
<1>1. RelayInvariant => RelayTypeOK
  BY DEF RelayInvariant, LinkInv, LinkOK, RequestInv, RequestsOK, ContentInv, ContentOK, RelayTypeOK
<1> QED
  BY <1>1, RelayInvariantLemma, PTL

(* No caller is left waiting on a relay that is gone, a request reported   *)
(* as never written was never seen by the host, and the actor is given as  *)
(* a turn's output only what that turn said: for any requests, turns,      *)
(* streams and frames.                                                     *)
THEOREM RelayAlwaysHonest == RelaySpec => []RelayHonest
<1>1. RelayInvariant => RelayHonest
  BY DEF RelayInvariant, RequestInv, RequestsTold, ContentInv, RelayHonest
<1> QED
  BY <1>1, RelayInvariantLemma, PTL

-----------------------------------------------------------------------------
(* The slots of the relays.                                                *)
Places == {"off", "looks", "waits", "reserved", "opening", "open", "runs", "idle"}

(* Those that have a slot, and those on whose account nobody needs to be   *)
(* woken: they look, or have a slot they are not about to lose.            *)
Taken == {"reserved", "opening", "open", "runs", "idle"}
Awake == {"looks", "reserved", "opening", "open", "runs"}
Num(f, P) == Cardinality({x \in Caller : f[x] \in P})

(* Callers at f, of which W sleep: no more slots are taken than there are, *)
(* and while somebody sleeps every slot but k has somebody awake.          *)
Sleepers(f, W) ==
  /\ f \in [Caller -> Places] /\ W \in Seq(Caller)
  /\ \A i, j \in 1..Len(W) : W[i] = W[j] => i = j
  /\ \A i \in 1..Len(W) : f[W[i]] = "waits"
  /\ \A x \in Caller : f[x] = "waits" => \E i \in 1..Len(W) : W[i] = x
SlotsGood(f, W, k) ==
  /\ Sleepers(f, W)
  /\ Num(f, Taken) <= Slots
  /\ W # <<>> => Num(f, Awake) + k >= Slots
SlotsInvariant == SlotsGood(slotOf, waiters, 0)

LEMMA NumMoves ==
  ASSUME NEW f \in [Caller -> Places], NEW c \in Caller, NEW v \in Places, NEW P
  PROVE  /\ Num(f, P) \in Nat /\ Num([f EXCEPT ![c] = v], P) \in Nat
         /\ v \in P /\ f[c] \notin P => Num([f EXCEPT ![c] = v], P) = Num(f, P) + 1
         /\ v \notin P /\ f[c] \in P => Num([f EXCEPT ![c] = v], P) = Num(f, P) - 1
         /\ (v \in P <=> f[c] \in P) => Num([f EXCEPT ![c] = v], P) = Num(f, P)
<1> DEFINE g == [f EXCEPT ![c] = v]
           A == {x \in Caller : f[x] \in P}
           B == {x \in Caller : g[x] \in P}
<1>1. IsFiniteSet(A) /\ IsFiniteSet(B)
  BY FS_Subset, TailPoolAssumption
<1>2. Cardinality(A) \in Nat /\ Cardinality(B) \in Nat
  BY <1>1, FS_CardinalityType
<1>3. CASE v \in P /\ f[c] \notin P
  <2>1. B = A \cup {c} /\ c \notin A
    BY <1>3
  <2>2. Cardinality(A \cup {c}) = Cardinality(A) + 1
    BY <1>1, <2>1, FS_AddElement
  <2> QED
    BY <2>1, <2>2, <1>2, <1>3 DEF Num
<1>4. CASE v \notin P /\ f[c] \in P
  <2>1. B = A \ {c} /\ c \in A
    BY <1>4
  <2>2. Cardinality(A \ {c}) = Cardinality(A) - 1
    BY <1>1, <2>1, FS_RemoveElement
  <2> QED
    BY <2>1, <2>2, <1>2, <1>4 DEF Num
<1>5. CASE v \in P <=> f[c] \in P
  <2>1. A = B
    BY <1>5
  <2> QED
    BY <2>1, <1>2, <1>5 DEF Num
<1> QED
  BY <1>2, <1>3, <1>4, <1>5 DEF Num

(* A caller moves, in or out of anything but sleep.                        *)
LEMMA MovesGood ==
  ASSUME NEW f, NEW W, SlotsGood(f, W, 0),
         NEW c \in Caller, NEW v \in Places, v # "waits", f[c] # "waits",
         v \in Taken /\ f[c] \notin Taken => Num(f, Taken) < Slots
  PROVE  /\ SlotsGood([f EXCEPT ![c] = v], W, 1)
         /\ v \in Awake \/ f[c] \notin Awake => SlotsGood([f EXCEPT ![c] = v], W, 0)
<1> DEFINE g == [f EXCEPT ![c] = v]
<1>0. f \in [Caller -> Places] /\ v \in Places /\ Slots \in Nat
  BY TailPoolAssumption DEF SlotsGood, Sleepers
<1>1. g \in [Caller -> Places]
  BY <1>0
<1>2. /\ \A i \in 1..Len(W) : g[W[i]] = "waits"
      /\ \A x \in Caller : g[x] = "waits" => \E i \in 1..Len(W) : W[i] = x
  BY <1>0 DEF SlotsGood, Sleepers
<1>3. Num(g, Taken) <= Slots
  <2>1. Num(f, Taken) \in Nat /\ Num(g, Taken) \in Nat
    BY <1>0, NumMoves, Zenon
  <2>3. v \in Taken /\ f[c] \notin Taken => Num(g, Taken) = Num(f, Taken) + 1
    BY <1>0, NumMoves
  <2>4. v \notin Taken /\ f[c] \in Taken => Num(g, Taken) = Num(f, Taken) - 1
    BY <1>0, NumMoves
  <2>5. (v \in Taken <=> f[c] \in Taken) => Num(g, Taken) = Num(f, Taken)
    BY <1>0, NumMoves
  <2>2. Num(f, Taken) <= Slots
    BY DEF SlotsGood, Sleepers
  <2> QED
    BY <1>0, <2>1, <2>2, <2>3, <2>4, <2>5
<1>4. W # <<>> => /\ Num(g, Awake) + 1 >= Slots
                  /\ v \in Awake \/ f[c] \notin Awake => Num(g, Awake) + 0 >= Slots
  <2>1. Num(f, Awake) \in Nat /\ Num(g, Awake) \in Nat
    BY <1>0, NumMoves, Zenon
  <2>2. W # <<>> => Num(f, Awake) + 0 >= Slots
    BY DEF SlotsGood, Sleepers
  <2>3. v \in Awake /\ f[c] \notin Awake => Num(g, Awake) = Num(f, Awake) + 1
    BY <1>0, NumMoves
  <2>4. v \notin Awake /\ f[c] \in Awake => Num(g, Awake) = Num(f, Awake) - 1
    BY <1>0, NumMoves
  <2>5. (v \in Awake <=> f[c] \in Awake) => Num(g, Awake) = Num(f, Awake)
    BY <1>0, NumMoves
  <2> QED
    BY <1>0, <2>1, <2>2, <2>3, <2>4, <2>5
<1>5. Sleepers(g, W)
  BY <1>1, <1>2 DEF SlotsGood, Sleepers
<1> HIDE DEF g
<1>6. SlotsGood(g, W, 1)
  BY <1>3, <1>4, <1>5 DEF SlotsGood
<1>7. v \in Awake \/ f[c] \notin Awake => SlotsGood(g, W, 0)
  BY <1>3, <1>4, <1>5 DEF SlotsGood
<1> QED
  BY <1>6, <1>7 DEF g

(* One sleeper more is awake.                                              *)
LEMMA WakesGood ==
  ASSUME NEW f, NEW W, SlotsGood(f, W, 1), WakesFrom(W, f)
  PROVE  SlotsInvariant'
<1>0. f \in [Caller -> Places] /\ W \in Seq(Caller) /\ Slots \in Nat
  BY TailPoolAssumption DEF SlotsGood, Sleepers
<1>1. CASE W = <<>>
  BY <1>1 DEF WakesFrom, SlotsGood, Sleepers, SlotsInvariant
<1>2. CASE W # <<>>
  <2> DEFINE c == W[1]
             g == [f EXCEPT ![c] = "looks"]
             V == Tail(W)
  <2>1. c \in Caller /\ f[c] = "waits" /\ 1 \in 1..Len(W) /\ Len(W) \in Nat
    BY <1>0, <1>2 DEF SlotsGood, Sleepers
  <2>2. slotOf' = g /\ waiters' = V
    BY <1>2, <2>1 DEF WakesFrom
  <2>3. V \in Seq(Caller) /\ Len(V) = Len(W) - 1 /\ \A i \in 1..Len(V) : V[i] = W[i + 1] /\ i + 1 \in 1..Len(W)
    BY <1>0, <1>2, <2>1
  <2>4. \A i, j \in 1..Len(V) : V[i] = V[j] => i = j
    BY <2>1, <2>3 DEF SlotsGood, Sleepers
  <2>5. \A i \in 1..Len(V) : g[V[i]] = "waits"
    BY <2>1, <2>3, <1>0 DEF SlotsGood, Sleepers
  <2>6. ASSUME NEW x \in Caller, g[x] = "waits" PROVE \E i \in 1..Len(V) : V[i] = x
    <3>1. x # c /\ f[x] = "waits"
      BY <2>6, <1>0
    <3>2. PICK i \in 1..Len(W) : W[i] = x
      BY <3>1 DEF SlotsGood, Sleepers
    <3>3. i # 1
      BY <3>1, <3>2
    <3>4. i - 1 \in 1..Len(V) /\ (i - 1) + 1 = i
      BY <3>3, <2>1, <2>3
    <3> QED
      BY <3>2, <3>4, <2>3
  <2>7. Num(g, Taken) <= Slots /\ Num(g, Awake) + 0 >= Slots
    <3>1. "looks" \in Places
      BY DEF Places
    <3>2. /\ Num(f, Taken) \in Nat
          /\ ("looks" \in Taken <=> f[c] \in Taken) => Num(g, Taken) = Num(f, Taken)
      BY <1>0, <2>1, <3>1, NumMoves, Zenon
    <3>3. /\ Num(f, Awake) \in Nat
          /\ "looks" \in Awake /\ f[c] \notin Awake => Num(g, Awake) = Num(f, Awake) + 1
      BY <1>0, <2>1, <3>1, NumMoves, Zenon
    <3>4. /\ "looks" \notin Taken /\ "waits" \notin Taken
          /\ "looks" \in Awake /\ "waits" \notin Awake
      BY DEF Taken, Awake
    <3> QED
      BY <3>2, <3>3, <3>4, <2>1, <1>0, <1>2 DEF SlotsGood, Sleepers
  <2>8. g \in [Caller -> Places]
    BY <1>0 DEF Places
  <2>9. SlotsGood(g, V, 0)
    BY <2>3, <2>4, <2>5, <2>6, <2>7, <2>8 DEF SlotsGood, Sleepers
  <2> QED
    BY <2>2, <2>9 DEF SlotsInvariant
<1> QED
  BY <1>1, <1>2

(* Every slot is held by a caller that keeps it: taking one more off those *)
(* that look leaves enough awake.                                          *)
LEMMA SaturatedCovered ==
  ASSUME SlotsInvariant, NEW c \in Caller, Saturated(c), NEW v \in {"off", "waits"}
  PROVE  Num([slotOf EXCEPT ![c] = v], Awake) >= Slots
<1> DEFINE g == [slotOf EXCEPT ![c] = v]
           H == {x \in Caller : g[x] \in Awake}
           U == Handles \cup Reserved
<1>0. slotOf \in [Caller -> Places] /\ Slots \in Nat
  BY TailPoolAssumption DEF SlotsInvariant, SlotsGood, Sleepers
<1>1. IsFiniteSet(Handles) /\ IsFiniteSet(Reserved) /\ IsFiniteSet(H)
  BY FS_Subset, TailPoolAssumption DEF Handles, Reserved
<1>2. Handles \cap Reserved = {}
  BY DEF Handles, Reserved
<1>3. IsFiniteSet(U) /\ Cardinality(U) = Cardinality(Handles) + Cardinality(Reserved)
  <2>1. Cardinality(Handles \cap Reserved) = 0
    BY <1>2, FS_EmptySet
  <2>2. Cardinality(Handles) \in Nat /\ Cardinality(Reserved) \in Nat
    BY <1>1, FS_CardinalityType
  <2>3. IsFiniteSet(U)
        /\ Cardinality(U) = Cardinality(Handles) + Cardinality(Reserved) - Cardinality(Handles \cap Reserved)
    BY <1>1, FS_Union, Zenon
  <2> QED
    BY <2>1, <2>2, <2>3
<1>4. U \subseteq H
  BY <1>0 DEF Saturated, Evictable, Handles, Reserved, Running, Awake
<1>5. Cardinality(U) <= Cardinality(H)
  BY <1>1, <1>4, FS_Subset
<1>6. Cardinality(U) \in Nat /\ Cardinality(H) \in Nat /\ Cardinality(U) >= Slots
  BY <1>1, <1>3, FS_CardinalityType DEF Saturated, Full
<1> QED
  BY <1>0, <1>5, <1>6 DEF Num

LEMMA TakenIs ==
  Num(slotOf, Taken) = Cardinality(Handles) + Cardinality(Reserved)
<1> DEFINE U == Handles \cup Reserved
<1>1. IsFiniteSet(Handles) /\ IsFiniteSet(Reserved)
  BY FS_Subset, TailPoolAssumption DEF Handles, Reserved
<1>2. Handles \cap Reserved = {} /\ U = {x \in Caller : slotOf[x] \in Taken}
  BY DEF Handles, Reserved, Taken
<1>3. Cardinality(Handles \cap Reserved) = 0
  BY <1>2, FS_EmptySet
<1>4. Cardinality(Handles) \in Nat /\ Cardinality(Reserved) \in Nat
  BY <1>1, FS_CardinalityType
<1>5. Cardinality(U) = Cardinality(Handles) + Cardinality(Reserved) - Cardinality(Handles \cap Reserved)
  BY <1>1, FS_Union, Zenon
<1>6. Num(slotOf, Taken) = Cardinality(U)
  BY <1>2, Zenon DEF Num
<1> QED
  BY <1>3, <1>4, <1>5, <1>6


LEMMA TailInitLemma == TailInit => SlotsInvariant
<1> SUFFICES ASSUME TailInit PROVE SlotsInvariant
  OBVIOUS
<1>1. {x \in Caller : slotOf[x] \in Taken} = {}
  BY DEF TailInit, Taken
<1>2. Num(slotOf, Taken) = 0
  BY <1>1, FS_EmptySet, Zenon DEF Num
<1>3. waiters \in Seq(Caller) /\ Len(waiters) = 0
  BY DEF TailInit
<1>4. slotOf \in [Caller -> Places] /\ \A x \in Caller : slotOf[x] # "waits"
  BY DEF TailInit, Places
<1> QED
  BY <1>2, <1>3, <1>4, TailPoolAssumption DEF SlotsInvariant, SlotsGood, Sleepers, TailInit

LEMMA SlotsTyped ==
  ASSUME SlotsInvariant PROVE slotOf \in [Caller -> Places] /\ SlotsGood(slotOf, waiters, 0)
BY DEF SlotsInvariant, SlotsGood, Sleepers

(* A caller that does not sleep moves, and nobody is woken.                *)
LEMMA QuietMove ==
  ASSUME SlotsInvariant, NEW c \in Caller, NEW v \in Places, v # "waits", slotOf[c] # "waits",
         v \in Taken /\ slotOf[c] \notin Taken => Num(slotOf, Taken) < Slots,
         v \in Awake \/ slotOf[c] \notin Awake,
         slotOf' = [slotOf EXCEPT ![c] = v], waiters' = waiters
  PROVE  SlotsInvariant'
<1>1. SlotsGood([slotOf EXCEPT ![c] = v], waiters, 0)
  BY SlotsTyped, MovesGood
<1> QED
  BY <1>1 DEF SlotsInvariant

(* A caller that does not sleep gives up what it has, and one is woken.    *)
LEMMA WakingMove ==
  ASSUME SlotsInvariant, NEW c \in Caller, NEW v \in {"off", "idle"}, slotOf[c] # "waits",
         v = "off" \/ slotOf[c] \in Taken,
         WakesFrom(waiters, [slotOf EXCEPT ![c] = v])
  PROVE  SlotsInvariant'
<1>1. v \in Places /\ v # "waits" /\ (v = "off" => v \notin Taken)
  BY DEF Places, Taken
<1>2. SlotsGood([slotOf EXCEPT ![c] = v], waiters, 1)
  BY <1>1, SlotsTyped, MovesGood
<1> QED
  BY <1>2, WakesGood

LEMMA AttachStep == ASSUME SlotsInvariant, NEW c \in Caller, Attach(c) PROVE SlotsInvariant'
<1>1. "looks" \in Places /\ "looks" \in Awake /\ "looks" \notin Taken
  BY DEF Places, Awake, Taken
<1> QED
  BY <1>1, QuietMove DEF Attach

LEMMA ReserveStep == ASSUME SlotsInvariant, NEW c \in Caller, Reserve(c) PROVE SlotsInvariant'
<1>1. "reserved" \in Places /\ "reserved" \in Awake
  BY DEF Places, Awake
<1>2. Cardinality(Handles) + Cardinality(Reserved) < Slots
  <2>1. Num(slotOf, Taken) \in Nat
    BY SlotsTyped, NumMoves, <1>1
  <2> QED
    BY <2>1, TakenIs, TailPoolAssumption DEF Reserve, Full
<1> QED
  BY <1>1, <1>2, TakenIs, QuietMove DEF Reserve

LEMMA EvictStep == ASSUME SlotsInvariant, NEW c \in Caller, Evict(c) PROVE SlotsInvariant'
<1>1. PICK h \in Evictable : WakesFrom(waiters, [slotOf EXCEPT ![h] = "off"])
  BY DEF Evict, notifyEvictable
<1>2. h \in Caller /\ slotOf[h] # "waits"
  BY DEF Evictable, Handles
<1> QED
  BY <1>1, <1>2, WakingMove

LEMMA WaitsStep == ASSUME SlotsInvariant, NEW c \in Caller, Waits(c) PROVE SlotsInvariant'
<1> DEFINE g == [slotOf EXCEPT ![c] = "waits"]
           V == Append(waiters, c)
<1>0. slotOf \in [Caller -> Places] /\ waiters \in Seq(Caller) /\ Len(waiters) \in Nat /\ slotOf[c] = "looks"
  BY DEF SlotsInvariant, SlotsGood, Sleepers, Waits, Saturated
<1>1. slotOf' = g /\ waiters' = V
  BY DEF Waits
<1>2. /\ V \in Seq(Caller) /\ Len(V) = Len(waiters) + 1 /\ V[Len(V)] = c
      /\ \A i \in 1..Len(waiters) : V[i] = waiters[i]
  BY <1>0
<1>3. \A i \in 1..Len(waiters) : waiters[i] # c /\ waiters[i] \in Caller
  BY <1>0 DEF SlotsInvariant, SlotsGood, Sleepers
<1>4. g \in [Caller -> Places]
  BY <1>0 DEF Places
<1>5. \A i, j \in 1..Len(V) : V[i] = V[j] => i = j
  <2> TAKE i, j \in 1..Len(V)
  <2>1. CASE i \in 1..Len(waiters) /\ j \in 1..Len(waiters)
    BY <2>1, <1>2 DEF SlotsInvariant, SlotsGood, Sleepers
  <2>2. CASE ~(i \in 1..Len(waiters) /\ j \in 1..Len(waiters))
    BY <2>2, <1>0, <1>2, <1>3
  <2> QED
    BY <2>1, <2>2
<1>6. \A i \in 1..Len(V) : g[V[i]] = "waits"
  <2> TAKE i \in 1..Len(V)
  <2>1. CASE i \in 1..Len(waiters)
    BY <2>1, <1>0, <1>2, <1>3 DEF SlotsInvariant, SlotsGood, Sleepers
  <2>2. CASE i \notin 1..Len(waiters)
    BY <2>2, <1>0, <1>2
  <2> QED
    BY <2>1, <2>2
<1>7. ASSUME NEW x \in Caller, g[x] = "waits" PROVE \E i \in 1..Len(V) : V[i] = x
  <2>1. CASE x = c
    BY <2>1, <1>0, <1>2
  <2>2. CASE x # c
    <3>1. slotOf[x] = "waits"
      BY <2>2, <1>7, <1>0
    <3>2. PICK i \in 1..Len(waiters) : waiters[i] = x
      BY <3>1 DEF SlotsInvariant, SlotsGood, Sleepers
    <3>3. i \in 1..Len(V)
      BY <1>0, <1>2
    <3> QED
      BY <3>2, <3>3, <1>2
  <2> QED
    BY <2>1, <2>2
<1>8. Num(g, Taken) = Num(slotOf, Taken)
  <2>1. "waits" \in Places /\ "waits" \notin Taken /\ "looks" \notin Taken
    BY DEF Places, Taken
  <2>2. ("waits" \in Taken <=> slotOf[c] \in Taken) => Num(g, Taken) = Num(slotOf, Taken)
    BY <1>0, <2>1, NumMoves, Zenon
  <2> QED
    BY <1>0, <2>1, <2>2
<1>9. Num(g, Awake) \in Nat /\ Num(g, Awake) + 0 >= Slots
  <2>1. "waits" \in Places /\ Num(g, Awake) >= Slots
    BY SaturatedCovered DEF Waits, Places
  <2>2. Num(g, Awake) \in Nat
    BY <1>0, <2>1, NumMoves, Zenon
  <2> QED
    BY <2>1, <2>2, TailPoolAssumption
<1>10. Num(g, Taken) <= Slots
  BY <1>8 DEF SlotsInvariant, SlotsGood, Sleepers
<1>11. SlotsGood(g, V, 0)
  BY <1>2, <1>4, <1>5, <1>6, <1>7, <1>9, <1>10 DEF SlotsGood, Sleepers
<1> QED
  BY <1>1, <1>11 DEF SlotsInvariant

LEMMA TailCapacityErrorStep ==
  ASSUME SlotsInvariant, NEW c \in Caller, TailCapacityError(c) PROVE SlotsInvariant'
<1> DEFINE g == [slotOf EXCEPT ![c] = "off"]
<1>1. "off" \in Places /\ "off" \notin Taken /\ slotOf[c] = "looks" /\ "looks" # "waits" /\ "off" # "waits"
  BY DEF Places, Taken, TailCapacityError, Saturated
<1>2. SlotsGood(g, waiters, 1)
  BY <1>1, SlotsTyped, MovesGood
<1>3. Num(g, Awake) \in Nat /\ Num(g, Awake) >= Slots
  BY <1>1, SlotsTyped, NumMoves, SaturatedCovered DEF TailCapacityError
<1>4. SlotsGood(g, waiters, 0)
  BY <1>2, <1>3 DEF SlotsGood, Sleepers
<1> QED
  BY <1>4 DEF SlotsInvariant, TailCapacityError

(* Without the one that sleeps at k the others sleep as before.            *)
LEMMA WaitersButGood ==
  ASSUME SlotsInvariant, NEW c \in Caller, slotOf[c] = "waits"
  PROVE  SlotsGood([slotOf EXCEPT ![c] = "off"], WaitersBut(c), 1)
<1> DEFINE g == [slotOf EXCEPT ![c] = "off"]
<1>0. /\ slotOf \in [Caller -> Places] /\ waiters \in Seq(Caller) /\ Len(waiters) \in Nat
      /\ DOMAIN waiters = 1..Len(waiters)
  BY DEF SlotsInvariant, SlotsGood, Sleepers
<1>1. c \in Range(waiters)
  BY <1>0 DEF SlotsInvariant, SlotsGood, Sleepers, Range
<1> DEFINE k == CHOOSE n \in DOMAIN waiters : waiters[n] = c
           V == [i \in 1..(Len(waiters) - 1) |-> waiters[IF i < k THEN i ELSE i + 1]]
<1>2. WaitersBut(c) = V
  BY <1>1 DEF WaitersBut
<1>3. k \in 1..Len(waiters) /\ waiters[k] = c
  BY <1>0, <1>1 DEF Range
<1> HIDE DEF k
<1>4. \A i \in 1..(Len(waiters) - 1) :
        /\ (IF i < k THEN i ELSE i + 1) \in 1..Len(waiters)
        /\ (IF i < k THEN i ELSE i + 1) # k
        /\ V[i] = waiters[IF i < k THEN i ELSE i + 1]
  BY <1>0, <1>3
<1>5. \A i \in 1..Len(waiters) : waiters[i] \in Caller
  BY <1>0
<1>6. V \in Seq(Caller) /\ Len(V) = Len(waiters) - 1
  <2>1. Len(waiters) - 1 \in Nat
    BY <1>0, <1>3
  <2>2. V \in [1..(Len(waiters) - 1) -> Caller]
    BY <1>4, <1>5
  <2> QED
    BY <2>1, <2>2
<1> HIDE DEF V
<1>7. \A i, j \in 1..Len(V) : V[i] = V[j] => i = j
  <2> TAKE i, j \in 1..Len(V)
  <2> DEFINE p == IF i < k THEN i ELSE i + 1
             q == IF j < k THEN j ELSE j + 1
  <2>1. p \in 1..Len(waiters) /\ q \in 1..Len(waiters) /\ V[i] = waiters[p] /\ V[j] = waiters[q]
    BY <1>4, <1>6
  <2>2. waiters[p] = waiters[q] => p = q
    BY <2>1 DEF SlotsInvariant, SlotsGood, Sleepers
  <2>3. p = q => i = j
    BY <1>3, <1>0, <1>6
  <2> QED
    BY <2>1, <2>2, <2>3
<1>8. \A i \in 1..Len(V) : g[V[i]] = "waits"
  <2> TAKE i \in 1..Len(V)
  <2> DEFINE p == IF i < k THEN i ELSE i + 1
  <2>1. p \in 1..Len(waiters) /\ p # k /\ V[i] = waiters[p]
    BY <1>4, <1>6
  <2>2. waiters[p] # c /\ waiters[p] \in Caller /\ slotOf[waiters[p]] = "waits"
    BY <2>1, <1>3, <1>5 DEF SlotsInvariant, SlotsGood, Sleepers
  <2> QED
    BY <2>1, <2>2, <1>0
<1>9. ASSUME NEW x \in Caller, g[x] = "waits" PROVE \E i \in 1..Len(V) : V[i] = x
  <2>1. x # c /\ slotOf[x] = "waits"
    BY <1>9, <1>0
  <2>2. PICK p \in 1..Len(waiters) : waiters[p] = x
    BY <2>1 DEF SlotsInvariant, SlotsGood, Sleepers
  <2>3. p # k
    BY <2>1, <2>2, <1>3
  <2>4. CASE p < k
    <3>1. p \in 1..(Len(waiters) - 1)
      BY <2>4, <1>0, <1>3
    <3> QED
      BY <3>1, <2>4, <2>2, <1>4, <1>6
  <2>5. CASE ~(p < k)
    <3>1. p - 1 \in 1..(Len(waiters) - 1) /\ ~(p - 1 < k) /\ (p - 1) + 1 = p
      BY <2>5, <2>3, <1>0, <1>3
    <3> QED
      BY <3>1, <2>2, <1>4, <1>6
  <2> QED
    BY <2>4, <2>5
<1>10. Num(g, Taken) = Num(slotOf, Taken) /\ Num(g, Awake) = Num(slotOf, Awake) /\ Num(g, Awake) \in Nat
  <2>1. /\ "off" \in Places /\ "off" \notin Taken /\ "waits" \notin Taken
        /\ "off" \notin Awake /\ "waits" \notin Awake
    BY DEF Places, Taken, Awake
  <2>2. ("off" \in Taken <=> slotOf[c] \in Taken) => Num(g, Taken) = Num(slotOf, Taken)
    BY <1>0, <2>1, NumMoves, Zenon
  <2>3. /\ Num(g, Awake) \in Nat
        /\ ("off" \in Awake <=> slotOf[c] \in Awake) => Num(g, Awake) = Num(slotOf, Awake)
    BY <1>0, <2>1, NumMoves, Zenon
  <2> QED
    BY <2>1, <2>2, <2>3
<1>11. waiters # <<>>
  BY <1>3, <1>0
<1>12. g \in [Caller -> Places]
  BY <1>0 DEF Places
<1>13. Num(g, Taken) <= Slots /\ Num(g, Awake) + 1 >= Slots
  BY <1>10, <1>11, TailPoolAssumption DEF SlotsInvariant, SlotsGood, Sleepers
<1>14. SlotsGood(g, V, 1)
  BY <1>6, <1>7, <1>8, <1>9, <1>12, <1>13 DEF SlotsGood, Sleepers
<1> QED
  BY <1>2, <1>14

LEMMA AbortStep == ASSUME SlotsInvariant, NEW c \in Caller, Abort(c) PROVE SlotsInvariant'
<1>1. CASE slotOf[c] = "waits"
  BY <1>1, WaitersButGood, WakesGood DEF Abort
<1>2. CASE slotOf[c] = "looks"
  <2>1. c \notin Range(waiters)
    BY <1>2 DEF Range, SlotsInvariant, SlotsGood, Sleepers
  <2>2. WaitersBut(c) = waiters
    BY <2>1 DEF WaitersBut
  <2> QED
    BY <1>2, <2>2, WakingMove DEF Abort
<1> QED
  BY <1>1, <1>2 DEF Abort

LEMMA OtherSlotSteps ==
  ASSUME SlotsInvariant, NEW c \in Caller,
         AbortReserved(c) \/ Start(c) \/ Ready(c) \/ CloseHandle(c) \/ TurnRuns(c) \/ TurnEnds(c)
  PROVE  SlotsInvariant'
<1>1. CASE AbortReserved(c)
  BY <1>1, WakingMove DEF AbortReserved, notifyEvictable
<1>2. CASE Start(c)
  <2>1. "opening" \in Places /\ "opening" \in Awake /\ "reserved" \in Taken
    BY DEF Places, Awake, Taken
  <2> QED
    BY <1>2, <2>1, QuietMove DEF Start
<1>3. CASE Ready(c)
  <2>1. "open" \in Places /\ "open" \in Awake /\ "opening" \in Taken
    BY DEF Places, Awake, Taken
  <2> QED
    BY <1>3, <2>1, QuietMove DEF Ready
<1>4. CASE CloseHandle(c)
  BY <1>4, WakingMove DEF CloseHandle, notifyEvictable, Handles
<1>5. CASE TurnRuns(c)
  <2>1. "runs" \in Places /\ "runs" \in Awake /\ "open" \in Taken /\ "idle" \in Taken
    BY DEF Places, Awake, Taken
  <2> QED
    BY <1>5, <2>1, QuietMove DEF TurnRuns
<1>6. CASE TurnEnds(c)
  <2>1. "runs" \in Taken
    BY DEF Taken
  <2> QED
    BY <1>6, <2>1, WakingMove DEF TurnEnds, notifyEvictable
<1> QED
  BY <1>1, <1>2, <1>3, <1>4, <1>5, <1>6

LEMMA TailStepLemma == SlotsInvariant /\ [TailNext]_tailPool => SlotsInvariant'
<1> SUFFICES ASSUME SlotsInvariant, [TailNext]_tailPool PROVE SlotsInvariant'
  OBVIOUS
<1>1. CASE UNCHANGED tailPool
  BY <1>1 DEF tailPool, SlotsInvariant, SlotsGood, Sleepers, Num
<1>2. CASE TailNext
  BY <1>2, AttachStep, ReserveStep, EvictStep, WaitsStep, TailCapacityErrorStep, AbortStep,
     OtherSlotSteps DEF TailNext
<1> QED
  BY <1>1, <1>2

LEMMA SlotsInvariantLemma == TailSpec => []SlotsInvariant
BY TailInitLemma, TailStepLemma, PTL DEF TailSpec

LEMMA SlotsOK == SlotsInvariant => WithinSlots /\ NoSlotSleptOn
<1> SUFFICES ASSUME SlotsInvariant PROVE WithinSlots /\ NoSlotSleptOn
  OBVIOUS
<1> DEFINE H == {x \in Caller : slotOf[x] \in Awake}
           U == {x \in Caller : slotOf[x] \in Taken}
<1>1. WithinSlots
  BY TakenIs DEF SlotsInvariant, SlotsGood, Sleepers, WithinSlots
<1>2. SUFFICES ASSUME waiters # <<>>, ~\E c \in Caller : slotOf[c] = "looks"
               PROVE  Full /\ \A h \in Evictable : slotOf[h] \in {"opening", "open"}
  BY <1>1 DEF NoSlotSleptOn
<1>3. IsFiniteSet(U) /\ IsFiniteSet(H)
  BY FS_Subset, TailPoolAssumption
<1>4. H \subseteq U
  BY <1>2 DEF Awake, Taken
<1>5. Cardinality(H) \in Nat /\ Cardinality(U) \in Nat /\ Slots \in Nat
  BY <1>3, FS_CardinalityType, TailPoolAssumption
<1>6. Cardinality(U) <= Slots /\ Cardinality(H) + 0 >= Slots
  <2>1. Num(slotOf, Taken) <= Slots /\ Num(slotOf, Awake) + 0 >= Slots
    BY <1>2 DEF SlotsInvariant, SlotsGood, Sleepers
  <2> QED
    BY <2>1, Zenon DEF Num
<1>7. Cardinality(H) <= Cardinality(U) /\ (Cardinality(H) = Cardinality(U) => H = U)
  BY <1>3, <1>4, FS_Subset, Zenon
<1>8. H = U /\ Cardinality(U) = Slots
  BY <1>5, <1>6, <1>7
<1>9. Num(slotOf, Taken) = Slots
  BY <1>8, Zenon DEF Num
<1>10. Full
  BY <1>9, <1>5, TakenIs DEF Full
<1>11. \A h \in Evictable : slotOf[h] \in {"opening", "open"}
  <2> TAKE h \in Evictable
  <2>1. h \in Caller /\ slotOf[h] \in {"opening", "open", "idle"}
    BY DEF Evictable, Handles, Running
  <2>2. slotOf[h] # "idle"
    BY <2>1, <1>8 DEF Awake, Taken
  <2> QED
    BY <2>1, <2>2
<1> QED
  BY <1>10, <1>11

-----------------------------------------------------------------------------
(* The hosts. The tasks of a mailbox, told apart as far as they matter: one*)
(* that dispatches what waits, and a retirement asked by another origin.   *)
Tasks == {"admit", "dispatch", "retire_capacity", "retire_idle", "new"}
Pends(s) == \E i \in 1..Len(s) : s[i] \in {"admit", "dispatch"}
Asked(s) == \E i \in 1..Len(s) : s[i] = "retire_capacity"
Once(s) == \A i, j \in 1..Len(s) : s[i] = "retire_capacity" /\ s[j] = "retire_capacity" => i = j

LEMMA AppendTask ==
  ASSUME NEW s \in Seq(Tasks), NEW t \in Tasks
  PROVE  /\ Append(s, t) \in Seq(Tasks) /\ Append(s, t) # <<>>
         /\ Asked(Append(s, t)) => Asked(s) \/ t = "retire_capacity"
         /\ Pends(s) \/ t \in {"admit", "dispatch"} => Pends(Append(s, t))
         /\ Once(s) /\ (t # "retire_capacity" \/ ~Asked(s)) => Once(Append(s, t))
<1> DEFINE V == Append(s, t)
<1>1. /\ V \in Seq(Tasks) /\ Len(s) \in Nat /\ Len(V) = Len(s) + 1 /\ V[Len(V)] = t
      /\ \A i \in 1..Len(s) : V[i] = s[i]
  OBVIOUS
<1> HIDE DEF V
<1>2. V # <<>>
  BY <1>1
<1>3. ASSUME NEW i \in 1..Len(V) PROVE i = Len(V) \/ i \in 1..Len(s)
  BY <1>1
<1>4. Asked(V) => Asked(s) \/ t = "retire_capacity"
  BY <1>1, <1>3 DEF Asked
<1>5. Pends(s) \/ t \in {"admit", "dispatch"} => Pends(V)
  <2>1. \A i \in 1..Len(s) : i \in 1..Len(V)
    BY <1>1
  <2>2. Len(V) \in 1..Len(V)
    BY <1>1
  <2> QED
    BY <1>1, <2>1, <2>2 DEF Pends
<1>6. Once(s) /\ (t # "retire_capacity" \/ ~Asked(s)) => Once(V)
  BY <1>1, <1>3 DEF Once, Asked
<1> QED
  BY <1>1, <1>2, <1>4, <1>5, <1>6 DEF V

LEMMA TailTask ==
  ASSUME NEW s \in Seq(Tasks), s # <<>>
  PROVE  /\ Tail(s) \in Seq(Tasks)
         /\ Asked(Tail(s)) => Asked(s)
         /\ Once(s) => Once(Tail(s))
         /\ Once(s) /\ Head(s) = "retire_capacity" => ~Asked(Tail(s))
         /\ Head(s) = "retire_capacity" => Asked(s)
         /\ Pends(s) /\ Head(s) \notin {"admit", "dispatch"} => Pends(Tail(s))
<1> DEFINE V == Tail(s)
<1>1. /\ V \in Seq(Tasks) /\ Len(s) \in Nat /\ Len(s) > 0 /\ Len(V) = Len(s) - 1 /\ Head(s) = s[1]
      /\ \A i \in 1..Len(V) : V[i] = s[i + 1]
  OBVIOUS
<1> HIDE DEF V
<1>2. 1 \in 1..Len(s) /\ \A i \in 1..Len(V) : i + 1 \in 1..Len(s) /\ i + 1 # 1
  BY <1>1
<1>3. Asked(V) => Asked(s)
  BY <1>1, <1>2 DEF Asked
<1>4. Once(s) => Once(V)
  <2> SUFFICES ASSUME Once(s), NEW i \in 1..Len(V), NEW j \in 1..Len(V),
                      V[i] = "retire_capacity", V[j] = "retire_capacity"
               PROVE  i = j
    BY DEF Once
  <2>1. s[i + 1] = "retire_capacity" /\ s[j + 1] = "retire_capacity"
    BY <1>1
  <2>2. i + 1 = j + 1
    BY <2>1, <1>2 DEF Once
  <2> QED
    BY <2>2
<1>5. Once(s) /\ Head(s) = "retire_capacity" => ~Asked(V)
  BY <1>1, <1>2 DEF Once, Asked
<1>6. Head(s) = "retire_capacity" => Asked(s)
  BY <1>1, <1>2 DEF Asked
<1>7. Pends(s) /\ Head(s) \notin {"admit", "dispatch"} => Pends(V)
  <2> SUFFICES ASSUME NEW i \in 1..Len(s), s[i] \in {"admit", "dispatch"}, Head(s) \notin {"admit", "dispatch"}
               PROVE  Pends(V)
    BY DEF Pends
  <2>1. i # 1
    BY <1>1
  <2>2. i - 1 \in 1..Len(V) /\ (i - 1) + 1 = i
    BY <1>1, <2>1
  <2> QED
    BY <1>1, <2>2 DEF Pends
<1> QED
  BY <1>1, <1>3, <1>4, <1>5, <1>6, <1>7 DEF V

LEMMA FirstTask ==
  ASSUME NEW s \in Seq(Tasks), NEW t \in {"dispatch"}
  PROVE  /\ <<t>> \o s \in Seq(Tasks) /\ <<t>> \o s # <<>>
         /\ Asked(<<t>> \o s) => Asked(s)
         /\ Once(s) => Once(<<t>> \o s)
<1> DEFINE V == <<t>> \o s
<1>1. /\ V \in Seq(Tasks) /\ Len(s) \in Nat /\ Len(V) = Len(s) + 1 /\ V[1] = t
      /\ \A i \in 1..Len(s) : V[i + 1] = s[i]
  BY DEF Tasks
<1> HIDE DEF V
<1>2. ASSUME NEW i \in 1..Len(V) PROVE V[i] = "retire_capacity" => i - 1 \in 1..Len(s) /\ V[i] = s[i - 1]
  <2>1. CASE i = 1
    BY <2>1, <1>1
  <2>2. CASE i # 1
    <3>1. i - 1 \in 1..Len(s) /\ (i - 1) + 1 = i
      BY <2>2, <1>1
    <3> QED
      BY <3>1, <1>1
  <2> QED
    BY <2>1, <2>2
<1>3. Asked(V) => Asked(s)
  BY <1>2 DEF Asked
<1>4. Once(s) => Once(V)
  <2> SUFFICES ASSUME Once(s), NEW i \in 1..Len(V), NEW j \in 1..Len(V),
                      V[i] = "retire_capacity", V[j] = "retire_capacity"
               PROVE  i = j
    BY DEF Once
  <2>1. i - 1 = j - 1
    BY <1>2 DEF Once
  <2> QED
    BY <2>1, <1>1
<1>5. V # <<>>
  BY <1>1
<1> QED
  BY <1>1, <1>3, <1>4, <1>5 DEF V

LEMMA UnheldIs ==
  ASSUME NEW a \in Actor, held \in Seq(Actor), IsInjective(held)
  PROVE  /\ Unheld(a) \in Seq(Actor) /\ IsInjective(Unheld(a))
         /\ Range(Unheld(a)) \subseteq Range(held) \ {a}
<1>0. Len(held) \in Nat /\ DOMAIN held = 1..Len(held) /\ \A i \in 1..Len(held) : held[i] \in Actor
  OBVIOUS
<1>1. CASE a \notin Range(held)
  BY <1>1 DEF Unheld
<1>2. CASE a \in Range(held)
  <2> DEFINE k == CHOOSE n \in DOMAIN held : held[n] = a
             V == [i \in 1..(Len(held) - 1) |-> held[IF i < k THEN i ELSE i + 1]]
  <2>1. Unheld(a) = V
    BY <1>2 DEF Unheld
  <2>2. k \in 1..Len(held) /\ held[k] = a
    BY <1>0, <1>2 DEF Range
  <2> HIDE DEF k
  <2>3. Len(held) - 1 \in Nat
    BY <1>0, <2>2
  <2>4. \A i \in 1..(Len(held) - 1) :
          /\ (IF i < k THEN i ELSE i + 1) \in 1..Len(held)
          /\ (IF i < k THEN i ELSE i + 1) # k
          /\ V[i] = held[IF i < k THEN i ELSE i + 1]
    BY <1>0, <2>2
  <2>5. V \in [1..(Len(held) - 1) -> Actor]
    BY <1>0, <2>4
  <2>6. V \in Seq(Actor) /\ DOMAIN V = 1..(Len(held) - 1)
    BY <2>3, <2>5
  <2> HIDE DEF V
  <2>7. \A i, j \in 1..(Len(held) - 1) : V[i] = V[j] => i = j
    <3> TAKE i, j \in 1..(Len(held) - 1)
    <3> DEFINE p == IF i < k THEN i ELSE i + 1
               q == IF j < k THEN j ELSE j + 1
    <3>1. p \in 1..Len(held) /\ q \in 1..Len(held) /\ V[i] = held[p] /\ V[j] = held[q]
      BY <2>4
    <3>2. held[p] = held[q] => p = q
      BY <3>1, <1>0 DEF IsInjective
    <3>3. p = q => i = j
      BY <1>0, <2>2
    <3> QED
      BY <3>1, <3>2, <3>3
  <2>8. \A i \in 1..(Len(held) - 1) : V[i] \in Range(held) \ {a}
    <3> TAKE i \in 1..(Len(held) - 1)
    <3> DEFINE p == IF i < k THEN i ELSE i + 1
    <3>1. p \in 1..Len(held) /\ p # k /\ V[i] = held[p]
      BY <2>4
    <3>2. held[p] # a
      BY <3>1, <2>2, <1>0 DEF IsInjective
    <3> QED
      BY <3>1, <3>2, <1>0 DEF Range
  <2> QED
    BY <2>1, <2>6, <2>7, <2>8 DEF Range, IsInjective
<1> QED
  BY <1>1, <1>2

LEMMA HeldMore ==
  ASSUME NEW a \in Actor, held \in Seq(Actor), IsInjective(held), a \notin Range(held)
  PROVE  /\ Append(held, a) \in Seq(Actor) /\ IsInjective(Append(held, a))
         /\ Range(Append(held, a)) \subseteq Range(held) \cup {a}
<1> DEFINE h == Append(held, a)
<1>1. /\ h \in Seq(Actor) /\ Len(held) \in Nat /\ Len(h) = Len(held) + 1 /\ h[Len(h)] = a
      /\ \A i \in 1..Len(held) : h[i] = held[i]
      /\ DOMAIN h = 1..Len(h) /\ DOMAIN held = 1..Len(held)
  OBVIOUS
<1> HIDE DEF h
<1>2. \A i \in 1..Len(h) : i = Len(h) \/ i \in 1..Len(held)
  BY <1>1
<1>3. \A i \in 1..Len(held) : held[i] # a
  BY <1>1 DEF Range
<1>4. Range(h) \subseteq Range(held) \cup {a}
  BY <1>1, <1>2 DEF Range
<1>5. IsInjective(h)
  BY <1>1, <1>2, <1>3 DEF IsInjective
<1> QED
  BY <1>1, <1>4, <1>5 DEF h

LEMMA HeldLess ==
  ASSUME NEW h \in Seq(Actor), IsInjective(h), h # <<>>
  PROVE  /\ Tail(h) \in Seq(Actor) /\ IsInjective(Tail(h)) /\ Range(Tail(h)) \subseteq Range(h)
         /\ Head(h) \in Actor /\ Head(h) \in Range(h)
<1>1. /\ Tail(h) \in Seq(Actor) /\ Len(h) \in Nat /\ Len(h) > 0 /\ Len(Tail(h)) = Len(h) - 1 /\ Head(h) = h[1]
      /\ \A i \in 1..Len(Tail(h)) : Tail(h)[i] = h[i + 1]
      /\ DOMAIN h = 1..Len(h) /\ DOMAIN Tail(h) = 1..Len(Tail(h))
  OBVIOUS
<1>2. 1 \in 1..Len(h) /\ \A i \in 1..Len(Tail(h)) : i + 1 \in 1..Len(h)
  BY <1>1
<1>3. Range(Tail(h)) \subseteq Range(h)
  BY <1>1, <1>2 DEF Range
<1>4. IsInjective(Tail(h))
  <2> SUFFICES ASSUME NEW i \in 1..Len(Tail(h)), NEW j \in 1..Len(Tail(h)), Tail(h)[i] = Tail(h)[j]
               PROVE  i = j
    BY <1>1 DEF IsInjective
  <2>1. h[i + 1] = h[j + 1]
    BY <1>1
  <2>2. i + 1 = j + 1
    BY <2>1, <1>1, <1>2 DEF IsInjective
  <2> QED
    BY <2>2
<1>5. Head(h) \in Actor /\ Head(h) \in Range(h)
  BY <1>1, <1>2 DEF Range
<1> QED
  BY <1>1, <1>3, <1>4, <1>5

-----------------------------------------------------------------------------
(* What the pool keeps. A retirement is asked by one origin at a time,     *)
(* which waits for it.                                                     *)
BoxesOK ==
  /\ box \in [Actor -> Seq(Tasks)] /\ \A x \in Actor : Once(box[x])
  /\ \A x, y \in Actor : Asked(box[x]) /\ Asked(box[y]) => x = y
  /\ \A x \in Actor : Asked(box[x]) => replacer \in Actor /\ running[replacer] = "await"

(* An origin that is held or promised a slot has no host, but perhaps one  *)
(* that is ending, and one that is ending has no turn.                     *)
HeldIdle ==
  \A x \in Actor :
    /\ x \in Range(held) \/ res[x] # "none"
       => ~busyTurn[x] /\ ~old[x] /\ (hostSession[x] = "none" \/ dying[x])
    /\ dying[x] => ~busyTurn[x] /\ ~old[x] /\ running[x] = "idle"

(* A dispatch under way has its trigger and a host or the promise of a     *)
(* slot; one that waits for a retirement replaces and has no host.         *)
DispatchesOK ==
  \A x \in Actor :
    /\ running[x] # "idle" => pend[x] > 0 /\ box[x] # <<>> /\ ~busyTurn[x]
    /\ running[x] = "bind" => HostLive(x) \/ res[x] = "free"
    /\ running[x] = "await" => x = replacer /\ ~HostLive(x)

(* What waits has its timer, its turn, a dispatch under way or a task.     *)
Remembered ==
  \A x \in Actor : pend[x] > 0 => retry[x] \/ busyTurn[x] \/ running[x] # "idle" \/ Pends(box[x])

HeldOK == held \in Seq(Actor) /\ IsInjective(held)
FlagsOK ==
  /\ pend \in [Actor -> Nat] /\ busyTurn \in [Actor -> BOOLEAN] /\ old \in [Actor -> BOOLEAN]
  /\ dying \in [Actor -> BOOLEAN] /\ retry \in [Actor -> BOOLEAN]
PoolInvariant ==
  PoolTypeOK /\ FlagsOK /\ HeldOK /\ BoxesOK /\ HeldIdle /\ DispatchesOK /\ Remembered /\ WithinCap

(* The same of the state a step leaves, but for the holds, reservations,   *)
(* timers and mailboxes a wake-up may still change.                        *)
NowLive(x) == busyTurn'[x] \/ old'[x] \/ dying'[x] \/ hostSession'[x] # "none"
NowTypes(r, o) ==
  /\ running' \in [Actor -> {"idle", "await", "bind"}]
  /\ hostSession' \in [Actor -> {"none", "cur", "old"}] /\ r \in [Actor -> {"none", "free", "repl"}]
  /\ o \in Actor \cup {0} /\ cand' \subseteq Actor
NowFlags(t) ==
  /\ pend' \in [Actor -> Nat] /\ busyTurn' \in [Actor -> BOOLEAN] /\ old' \in [Actor -> BOOLEAN]
  /\ dying' \in [Actor -> BOOLEAN] /\ t \in [Actor -> BOOLEAN]
NowBoxes(o, b) ==
  /\ b \in [Actor -> Seq(Tasks)] /\ \A x \in Actor : Once(b[x])
  /\ \A x, y \in Actor : Asked(b[x]) /\ Asked(b[y]) => x = y
  /\ \A x \in Actor : Asked(b[x]) => o \in Actor /\ running'[o] = "await"
NowIdle(h, r) ==
  \A x \in Actor :
    /\ x \in Range(h) \/ r[x] # "none"
       => ~busyTurn'[x] /\ ~old'[x] /\ (hostSession'[x] = "none" \/ dying'[x])
    /\ dying'[x] => ~busyTurn'[x] /\ ~old'[x] /\ running'[x] = "idle"
NowDispatches(r, o, b) ==
  \A x \in Actor :
    /\ running'[x] # "idle" => pend'[x] > 0 /\ b[x] # <<>> /\ ~busyTurn'[x]
    /\ running'[x] = "bind" => NowLive(x) \/ r[x] = "free"
    /\ running'[x] = "await" => x = o /\ ~NowLive(x)
NowRemembered(t, b) ==
  \A x \in Actor : pend'[x] > 0 => t[x] \/ busyTurn'[x] \/ running'[x] # "idle" \/ Pends(b[x])
NowHeld(h) == h \in Seq(Actor) /\ IsInjective(h)
NowCap(r) == Cardinality(LiveNow \cup {x \in Actor : r[x] = "free"}) <= Cap
NowGood(h, r, o, t, b) ==
  /\ NowTypes(r, o) /\ NowFlags(t) /\ NowHeld(h) /\ NowBoxes(o, b) /\ NowIdle(h, r)
  /\ NowDispatches(r, o, b) /\ NowRemembered(t, b) /\ NowCap(r)

LEMMA NowIsNext ==
  ASSUME NowGood(held', res', replacer', retry', box') PROVE PoolInvariant'
<1>1. PoolTypeOK'
  BY DEF NowGood, NowTypes, PoolTypeOK
<1>2. FlagsOK' /\ HeldOK'
  BY DEF NowGood, NowFlags, FlagsOK, NowHeld, HeldOK
<1>3. BoxesOK'
  BY DEF NowGood, NowBoxes, BoxesOK
<1>4. HeldIdle'
  BY DEF NowGood, NowIdle, HeldIdle
<1>5. DispatchesOK'
  BY DEF NowGood, NowDispatches, DispatchesOK, NowLive, HostLive
<1>6. Remembered'
  BY DEF NowGood, NowRemembered, Remembered
<1>7. WithinCap'
  BY Zenon DEF NowGood, NowCap, WithinCap, LiveNow, HostLive, Promised
<1> QED
  BY <1>1, <1>2, <1>3, <1>4, <1>5, <1>6, <1>7 DEF PoolInvariant

LEMMA CapNat == Cap \in Nat /\ IsFiniteSet(Actor) /\ 0 \notin Actor
BY PoolAssumption

(* No step that keeps the hosts and the promises within those of before    *)
(* passes the cap.                                                         *)
LEMMA NoMore ==
  ASSUME PoolInvariant, NEW r,
         \A x \in Actor : NowLive(x) \/ r[x] = "free" => HostLive(x) \/ res[x] = "free"
  PROVE  NowCap(r)
<1> DEFINE A == {x \in Actor : HostLive(x)} \cup Promised
           B == LiveNow \cup {x \in Actor : r[x] = "free"}
<1>1. IsFiniteSet(A)
  <2>1. A \subseteq Actor
    BY DEF Promised
  <2> QED
    BY <2>1, FS_Subset, CapNat
<1>2. B \subseteq A
  BY DEF LiveNow, NowLive, Promised
<1>3. Cardinality(B) <= Cardinality(A) /\ IsFiniteSet(B)
  BY <1>1, <1>2, FS_Subset
<1>4. Cardinality(A) \in Nat /\ Cardinality(B) \in Nat
  BY <1>1, <1>3, FS_CardinalityType
<1>5. Cardinality(A) <= Cap
  BY DEF PoolInvariant, WithinCap
<1> QED
  BY <1>3, <1>4, <1>5, CapNat DEF NowCap

(* Where hosts and promises together are below the cap, one more fits.     *)
LEMMA RoomForOne ==
  ASSUME NEW L \in SUBSET Actor, NEW free \in SUBSET Actor, NEW c \in Actor,
         Cardinality(L) + Cardinality(free) < Cap
  PROVE  Cardinality((L \cup free) \cup {c}) <= Cap
<1>1. IsFiniteSet(L) /\ IsFiniteSet(free)
  BY FS_Subset, CapNat
<1>2. IsFiniteSet(L \cup free) /\ Cardinality(L \cup free) = Cardinality(L) + Cardinality(free) - Cardinality(L \cap free)
  BY <1>1, FS_Union, Zenon
<1>3. Cardinality((L \cup free) \cup {c}) = IF c \in L \cup free THEN Cardinality(L \cup free) ELSE Cardinality(L \cup free) + 1
  BY <1>2, FS_AddElement, Zenon
<1>4. Cardinality(L) \in Nat /\ Cardinality(free) \in Nat /\ Cardinality(L \cap free) \in Nat /\ Cardinality(L \cup free) \in Nat
  <2>1. IsFiniteSet(L \cap free)
    BY <1>1, FS_Intersection
  <2> QED
    BY <1>1, <1>2, <2>1, FS_CardinalityType
<1> QED
  BY <1>2, <1>3, <1>4, CapNat

(* A wake-up hands out only what is there.                                 *)
LEMMA FreedGood ==
  ASSUME NEW h, NEW r, NEW o, NEW t, NEW b,
         NowGood(h, r, o, t, b), HostFreed(h, r, o, t, b)
  PROVE  PoolInvariant'
<1> DEFINE free == {x \in Actor : r[x] = "free"}
           kind == IF Cardinality(LiveNow) + Cardinality(free) < Cap THEN "free"
                   ELSE IF o = 0 THEN "repl" ELSE "none"
           c == Head(h)
           wake == h # <<>> /\ r[c] = "none" /\ kind # "none"
<1>1. CASE ~wake
  <2>1. held' = h /\ res' = r /\ replacer' = o /\ retry' = t /\ box' = b
    BY <1>1, Zenon DEF HostFreed
  <2> QED
    BY <2>1, NowIsNext
<1>2. CASE wake
  <2> DEFINE R == [r EXCEPT ![c] = kind]
             O == IF kind = "repl" THEN c ELSE o
             T == [t EXCEPT ![c] = FALSE]
             B == [b EXCEPT ![c] = Append(@, "dispatch")]
             H == Tail(h)
  <2>1. held' = H /\ res' = R /\ replacer' = O /\ retry' = T /\ box' = B
    BY <1>2, Zenon DEF HostFreed
  <2>2. /\ H \in Seq(Actor) /\ IsInjective(H) /\ Range(H) \subseteq Range(h)
        /\ c \in Actor /\ c \in Range(h) /\ r[c] = "none"
    BY <1>2, HeldLess DEF NowGood, NowHeld
  <2>3. kind = "free" \/ (kind = "repl" /\ o = 0)
    BY <1>2
  <2>4. kind = "free" => Cardinality(LiveNow) + Cardinality(free) < Cap
    OBVIOUS
  <2> HIDE DEF kind, c, wake
  <2> HIDE <1>2
  <2>5. NowTypes(R, O) /\ NowFlags(T) /\ NowHeld(H)
    <3>1. R \in [Actor -> {"none", "free", "repl"}]
      BY <2>3 DEF NowGood, NowTypes
    <3>2. O \in Actor \cup {0}
      BY <2>2 DEF NowGood, NowTypes
    <3>3. T \in [Actor -> BOOLEAN]
      BY DEF NowGood, NowFlags
    <3> QED
      BY <2>2, <3>1, <3>2, <3>3 DEF NowGood, NowTypes, NowFlags, NowHeld
  <2>6. NowBoxes(O, B)
    <3>1. b \in [Actor -> Seq(Tasks)] /\ "dispatch" \in Tasks
      BY DEF NowGood, NowBoxes, Tasks
    <3>2. \A x \in Actor : B[x] = IF x = c THEN Append(b[c], "dispatch") ELSE b[x]
      BY <3>1
    <3>3. /\ Append(b[c], "dispatch") \in Seq(Tasks)
          /\ Asked(Append(b[c], "dispatch")) => Asked(b[c])
          /\ Once(b[c]) => Once(Append(b[c], "dispatch"))
      BY <3>1, <2>2, AppendTask
    <3>4. B \in [Actor -> Seq(Tasks)]
      BY <3>1, <3>3
    <3>5. \A x \in Actor : Asked(B[x]) => Asked(b[x])
      BY <3>2, <3>3
    <3>6. \A x \in Actor : Once(B[x])
      BY <3>2, <3>3 DEF NowGood, NowBoxes
    <3>7. ASSUME NEW x \in Actor, Asked(B[x]) PROVE O \in Actor /\ running'[O] = "await"
      <4>1. o \in Actor /\ running'[o] = "await"
        BY <3>5, <3>7 DEF NowGood, NowBoxes
      <4>2. O = o
        BY <2>3, <4>1, CapNat
      <4> QED
        BY <4>1, <4>2
    <3> QED
      BY <3>4, <3>5, <3>6, <3>7 DEF NowGood, NowBoxes
  <2>7. NowIdle(H, R)
    BY <2>2 DEF NowGood, NowIdle, NowTypes
  <2>8. NowDispatches(R, O, B)
    <3> SUFFICES ASSUME NEW x \in Actor
                 PROVE  /\ running'[x] # "idle" => pend'[x] > 0 /\ B[x] # <<>> /\ ~busyTurn'[x]
                        /\ running'[x] = "bind" => NowLive(x) \/ R[x] = "free"
                        /\ running'[x] = "await" => x = O /\ ~NowLive(x)
      BY DEF NowDispatches
    <3>1. running'[x] # "idle" => pend'[x] > 0 /\ b[x] # <<>> /\ ~busyTurn'[x]
      BY DEF NowGood, NowDispatches
    <3>2. b[x] # <<>> => B[x] # <<>>
      <4>1. b \in [Actor -> Seq(Tasks)] /\ "dispatch" \in Tasks
        BY DEF NowGood, NowBoxes, Tasks
      <4>2. Append(b[c], "dispatch") # <<>>
        BY <4>1, <2>2, AppendTask
      <4> QED
        BY <4>1, <4>2
    <3>3. running'[x] = "bind" => NowLive(x) \/ R[x] = "free"
      <4>1. running'[x] = "bind" => NowLive(x) \/ r[x] = "free"
        BY DEF NowGood, NowDispatches
      <4>2. r[x] = "free" => R[x] = "free"
        BY <2>2 DEF NowGood, NowTypes
      <4> QED
        BY <4>1, <4>2
    <3>4. running'[x] = "await" => x = O /\ ~NowLive(x)
      <4>1. running'[x] = "await" => x = o /\ ~NowLive(x)
        BY DEF NowGood, NowDispatches
      <4>2. x = o => x = O
        BY <2>3, CapNat
      <4> QED
        BY <4>1, <4>2
    <3> QED
      BY <3>1, <3>2, <3>3, <3>4
  <2>9. NowRemembered(T, B)
    <3>1. b \in [Actor -> Seq(Tasks)] /\ "dispatch" \in Tasks /\ t \in [Actor -> BOOLEAN]
      BY DEF NowGood, NowBoxes, NowFlags, Tasks
    <3>2. Pends(Append(b[c], "dispatch"))
      BY <3>1, <2>2, AppendTask
    <3> SUFFICES ASSUME NEW x \in Actor, pend'[x] > 0
                 PROVE  T[x] \/ busyTurn'[x] \/ running'[x] # "idle" \/ Pends(B[x])
      BY DEF NowRemembered
    <3>3. CASE x = c
      BY <3>1, <3>2, <3>3
    <3>4. CASE x # c
      <4>1. T[x] = t[x] /\ B[x] = b[x]
        BY <3>1, <3>4
      <4> QED
        BY <4>1 DEF NowGood, NowRemembered
    <3> QED
      BY <3>3, <3>4
  <2>10. NowCap(R)
    <3> DEFINE new == {x \in Actor : R[x] = "free"}
               L == LiveNow
    <3>2. CASE kind = "repl"
      <4>1. new = free
        BY <2>2, <3>2 DEF NowGood, NowTypes
      <4> QED
        BY <4>1 DEF NowGood, NowCap
    <3>3. CASE kind = "free"
      <4>1. new = free \cup {c}
        BY <2>2, <3>3 DEF NowGood, NowTypes
      <4>2. L \cup new = (L \cup free) \cup {c}
        BY <4>1
      <4>3. Cardinality(L) + Cardinality(free) < Cap
        BY <2>4, <3>3
      <4>4. L \subseteq Actor /\ free \subseteq Actor
        BY DEF LiveNow
      <4>5. Cardinality((L \cup free) \cup {c}) <= Cap
        <5> HIDE DEF L, free
        <5> QED
          BY <2>2, <4>3, <4>4, RoomForOne
      <4> QED
        BY <4>2, <4>5, Zenon DEF NowCap
    <3> QED
      BY <2>3, <3>2, <3>3
  <2>11. NowGood(H, R, O, T, B)
    BY <2>5, <2>6, <2>7, <2>8, <2>9, <2>10 DEF NowGood
  <2> QED
    BY <2>1, <2>11, NowIsNext
<1> QED
  BY <1>1, <1>2

LEMMA PoolInitLemma == PoolInit => PoolInvariant
<1> SUFFICES ASSUME PoolInit PROVE PoolInvariant
  OBVIOUS
<1>1. PoolTypeOK /\ FlagsOK
  BY DEF PoolInit, PoolTypeOK, FlagsOK
<1>2. HeldOK
  BY DEF PoolInit, HeldOK, IsInjective
<1>3. BoxesOK
  BY DEF PoolInit, BoxesOK, Once, Asked
<1>4. HeldIdle
  BY DEF PoolInit, HeldIdle, Range
<1>5. DispatchesOK /\ Remembered
  BY DEF PoolInit, DispatchesOK, Remembered
<1>6. WithinCap
  <2>1. {x \in Actor : HostLive(x)} \cup Promised = {}
    BY DEF PoolInit, HostLive, Promised
  <2>2. Cardinality({}) = 0
    BY FS_EmptySet
  <2> QED
    BY <2>1, <2>2, CapNat DEF WithinCap
<1> QED
  BY <1>1, <1>2, <1>3, <1>4, <1>5, <1>6 DEF PoolInvariant

(* Steps that only queue and take tasks.                                   *)
LEMMA MailStep ==
  ASSUME PoolInvariant, UNCHANGED <<running, cand, busyTurn, old, hostSession, dying, pool>>,
         pend' \in [Actor -> Nat], retry' \in [Actor -> BOOLEAN], box' \in [Actor -> Seq(Tasks)],
         \A x \in Actor : Once(box'[x]) /\ (Asked(box'[x]) => Asked(box[x])),
         \A x \in Actor : running[x] # "idle" => pend'[x] > 0 /\ box'[x] # <<>>,
         \A x \in Actor : pend'[x] > 0 => retry'[x] \/ busyTurn[x] \/ running[x] # "idle" \/ Pends(box'[x])
  PROVE  PoolInvariant'
<1>1. NowTypes(res', replacer') /\ NowFlags(retry') /\ NowHeld(held')
  BY DEF pool, PoolInvariant, PoolTypeOK, FlagsOK, HeldOK, NowTypes, NowFlags, NowHeld
<1>2. NowBoxes(replacer', box')
  BY DEF pool, PoolInvariant, BoxesOK, NowBoxes
<1>3. NowIdle(held', res')
  BY DEF pool, PoolInvariant, HeldIdle, NowIdle
<1>4. NowDispatches(res', replacer', box')
  BY DEF pool, PoolInvariant, DispatchesOK, NowDispatches, NowLive, HostLive
<1>5. NowRemembered(retry', box')
  BY DEF NowRemembered
<1>6. NowCap(res')
  <2>1. \A x \in Actor : NowLive(x) \/ res'[x] = "free" => HostLive(x) \/ res[x] = "free"
    BY DEF pool, NowLive, HostLive
  <2> QED
    BY <2>1, NoMore
<1> QED
  BY <1>1, <1>2, <1>3, <1>4, <1>5, <1>6, NowIsNext DEF NowGood

(* A task queued on one mailbox.                                           *)
LEMMA TaskQueued ==
  ASSUME PoolInvariant, NEW a \in Actor, NEW t \in Tasks \ {"retire_capacity"},
         box' = [box EXCEPT ![a] = Append(@, t)]
  PROVE  /\ box' \in [Actor -> Seq(Tasks)]
         /\ \A x \in Actor : Once(box'[x]) /\ (Asked(box'[x]) => Asked(box[x]))
         /\ \A x \in Actor : box[x] # <<>> => box'[x] # <<>>
         /\ \A x \in Actor : Pends(box[x]) => Pends(box'[x])
         /\ t \in {"admit", "dispatch"} => Pends(box'[a])
<1>1. box \in [Actor -> Seq(Tasks)] /\ Once(box[a]) /\ \A x \in Actor : Once(box[x])
  BY DEF PoolInvariant, BoxesOK
<1>2. /\ Append(box[a], t) \in Seq(Tasks) /\ Append(box[a], t) # <<>>
      /\ Asked(Append(box[a], t)) => Asked(box[a])
      /\ Pends(box[a]) \/ t \in {"admit", "dispatch"} => Pends(Append(box[a], t))
      /\ Once(Append(box[a], t))
  BY <1>1, AppendTask
<1>3. \A x \in Actor : box'[x] = IF x = a THEN Append(box[a], t) ELSE box[x]
  BY <1>1
<1> QED
  BY <1>1, <1>2, <1>3

(* A task taken from one mailbox.                                          *)
LEMMA TaskTaken ==
  ASSUME PoolInvariant, NEW a \in Actor, box[a] # <<>>
  PROVE  /\ Done(a) \in [Actor -> Seq(Tasks)]
         /\ \A x \in Actor : x # a => Done(a)[x] = box[x]
         /\ \A x \in Actor : Once(Done(a)[x]) /\ (Asked(Done(a)[x]) => Asked(box[x]))
         /\ Head(box[a]) = "retire_capacity" => Asked(box[a]) /\ ~Asked(Done(a)[a])
         /\ Pends(box[a]) /\ Head(box[a]) \notin {"admit", "dispatch"} => Pends(Done(a)[a])
<1>1. box \in [Actor -> Seq(Tasks)] /\ Once(box[a]) /\ \A x \in Actor : Once(box[x])
  BY DEF PoolInvariant, BoxesOK
<1>2. /\ Tail(box[a]) \in Seq(Tasks)
      /\ Asked(Tail(box[a])) => Asked(box[a])
      /\ Once(Tail(box[a]))
      /\ Head(box[a]) = "retire_capacity" => ~Asked(Tail(box[a])) /\ Asked(box[a])
      /\ Pends(box[a]) /\ Head(box[a]) \notin {"admit", "dispatch"} => Pends(Tail(box[a]))
  BY <1>1, TailTask
<1>3. \A x \in Actor : Done(a)[x] = IF x = a THEN Tail(box[a]) ELSE box[x]
  BY <1>1 DEF Done
<1>4. Done(a) \in [Actor -> Seq(Tasks)]
  BY <1>1, <1>2 DEF Done
<1> QED
  BY <1>1, <1>2, <1>3, <1>4

LEMMA ArrivePool == ASSUME PoolInvariant, NEW a \in Actor, Arrive(a) PROVE PoolInvariant'
<1>1. "admit" \in Tasks \ {"retire_capacity"} /\ box' = [box EXCEPT ![a] = Append(@, "admit")]
  BY DEF Arrive, Tasks
<1>2. pend' \in [Actor -> Nat] /\ pend'[a] > 0 /\ \A x \in Actor : x # a => pend'[x] = pend[x]
  BY DEF Arrive, PoolInvariant, FlagsOK
<1>3. \A x \in Actor : running[x] # "idle" => pend'[x] > 0 /\ box'[x] # <<>>
  BY <1>1, <1>2, TaskQueued DEF PoolInvariant, DispatchesOK
<1>4. UNCHANGED <<running, cand, busyTurn, old, hostSession, dying, retry, pool>>
  BY DEF Arrive
<1>5. \A x \in Actor : pend'[x] > 0 => retry'[x] \/ busyTurn[x] \/ running[x] # "idle" \/ Pends(box'[x])
  BY <1>1, <1>2, <1>4, TaskQueued DEF PoolInvariant, Remembered
<1> QED
  BY <1>1, <1>2, <1>3, <1>4, <1>5, TaskQueued, MailStep DEF PoolInvariant, FlagsOK

LEMMA RetryFiresPool == ASSUME PoolInvariant, NEW a \in Actor, RetryFires(a) PROVE PoolInvariant'
<1>1. "dispatch" \in Tasks \ {"retire_capacity"} /\ box' = [box EXCEPT ![a] = Append(@, "dispatch")]
  BY DEF RetryFires, Tasks
<1>2. retry' \in [Actor -> BOOLEAN] /\ \A x \in Actor : x # a => retry'[x] = retry[x]
  BY DEF RetryFires, PoolInvariant, FlagsOK
<1>3. UNCHANGED <<running, cand, pend, busyTurn, old, hostSession, dying, pool>>
  BY DEF RetryFires
<1>4. \A x \in Actor : running[x] # "idle" => pend'[x] > 0 /\ box'[x] # <<>>
  BY <1>1, <1>3, TaskQueued DEF PoolInvariant, DispatchesOK
<1>5. \A x \in Actor : pend'[x] > 0 => retry'[x] \/ busyTurn[x] \/ running[x] # "idle" \/ Pends(box'[x])
  BY <1>1, <1>2, <1>3, TaskQueued DEF PoolInvariant, Remembered
<1> QED
  BY <1>1, <1>2, <1>3, <1>4, <1>5, TaskQueued, MailStep DEF PoolInvariant, FlagsOK

(* A retirement for age or a /new queued.                                  *)
LEMMA PlainQueued ==
  ASSUME PoolInvariant, NEW a \in Actor, SweepIdleHost(a) \/ NewAsked(a)
  PROVE  PoolInvariant'
<1>1. PICK t \in Tasks \ {"retire_capacity"} : box' = [box EXCEPT ![a] = Append(@, t)]
  BY DEF SweepIdleHost, NewAsked, Tasks
<1>2. UNCHANGED <<running, cand, pend, busyTurn, old, hostSession, dying, retry, pool>>
  BY DEF SweepIdleHost, NewAsked
<1>3. \A x \in Actor : running[x] # "idle" => pend'[x] > 0 /\ box'[x] # <<>>
  BY <1>1, <1>2, TaskQueued DEF PoolInvariant, DispatchesOK
<1>4. \A x \in Actor : pend'[x] > 0 => retry'[x] \/ busyTurn[x] \/ running[x] # "idle" \/ Pends(box'[x])
  BY <1>1, <1>2, TaskQueued DEF PoolInvariant, Remembered
<1> QED
  BY <1>1, <1>2, <1>3, <1>4, TaskQueued, MailStep DEF PoolInvariant, FlagsOK

(* A task that finds nothing to dispatch, or steers what waits.            *)
LEMMA PlainTaken ==
  ASSUME PoolInvariant, NEW a \in Actor, Steer(a) \/ Nothing(a)
  PROVE  PoolInvariant'
<1>1. running[a] = "idle" /\ box[a] # <<>> /\ box' = Done(a)
  BY DEF Steer, Nothing, Runs
<1>2. UNCHANGED <<running, cand, busyTurn, old, hostSession, dying, retry, pool>>
  BY DEF Steer, Nothing
<1>3. /\ pend' \in [Actor -> Nat] /\ \A x \in Actor : x # a => pend'[x] = pend[x]
      /\ pend'[a] > 0 => busyTurn[a] \/ retry[a]
  BY DEF Steer, Nothing, PoolInvariant, FlagsOK
<1>4. \A x \in Actor : running[x] # "idle" => pend'[x] > 0 /\ box'[x] # <<>>
  BY <1>1, <1>2, <1>3, TaskTaken DEF PoolInvariant, DispatchesOK
<1>5. \A x \in Actor : pend'[x] > 0 => retry'[x] \/ busyTurn[x] \/ running[x] # "idle" \/ Pends(box'[x])
  BY <1>1, <1>2, <1>3, TaskTaken DEF PoolInvariant, Remembered
<1> QED
  BY <1>1, <1>2, <1>3, <1>4, <1>5, TaskTaken, MailStep DEF PoolInvariant, FlagsOK

(* A trigger held for a slot: its origin has no host, but perhaps one that *)
(* is ending, and the reservation of no dispatch under way is given back.  *)
LEMMA HoldPool ==
  ASSUME PoolInvariant, NEW a \in Actor, running[a] = "idle", box[a] # <<>>, Hold(a),
         ~busyTurn[a], ~old[a], hostSession[a] = "none" \/ dying[a],
         \/ UNCHANGED <<res, replacer>>
         \/ replacer = a /\ res' = Unreserved(a) /\ replacer' = 0
  PROVE  PoolInvariant'
<1>1. /\ box' = Done(a) /\ retry' = [retry EXCEPT ![a] = TRUE]
      /\ held' = IF a \in Range(held) THEN held ELSE Append(held, a)
      /\ UNCHANGED <<running, cand, pend, busyTurn, old, hostSession, dying>>
  BY DEF Hold
<1>2. NowHeld(held') /\ Range(held') \subseteq Range(held) \cup {a}
  <2>1. CASE a \in Range(held)
    BY <1>1, <2>1 DEF PoolInvariant, HeldOK, NowHeld
  <2>2. CASE a \notin Range(held)
    BY <1>1, <2>2, HeldMore DEF PoolInvariant, HeldOK, NowHeld
  <2> QED
    BY <2>1, <2>2
<1>3. /\ \A x \in Actor : res'[x] = res[x] \/ res'[x] = "none"
      /\ \A x \in Actor : x # a => res'[x] = res[x]
      /\ replacer' = replacer \/ replacer = a
  BY DEF Unreserved, PoolInvariant, PoolTypeOK
<1>4. NowTypes(res', replacer') /\ NowFlags(retry')
  BY <1>1 DEF PoolInvariant, PoolTypeOK, FlagsOK, NowTypes, NowFlags, Unreserved
<1>5. NowBoxes(replacer', box')
  <2>1. \A x \in Actor : Asked(box'[x]) => Asked(box[x]) /\ replacer # a
    BY <1>1, TaskTaken DEF PoolInvariant, BoxesOK
  <2> QED
    BY <1>1, <1>3, <2>1, TaskTaken DEF PoolInvariant, BoxesOK, NowBoxes
<1>6. NowIdle(held', res')
  BY <1>1, <1>2, <1>3 DEF PoolInvariant, HeldIdle, NowIdle
<1>7. NowDispatches(res', replacer', box')
  <2>1. \A x \in Actor : NowLive(x) <=> HostLive(x)
    BY <1>1 DEF NowLive, HostLive
  <2>2. ASSUME NEW x \in Actor, running'[x] # "idle"
        PROVE  x # a /\ running[x] # "idle" /\ box'[x] = box[x] /\ res'[x] = res[x]
    BY <1>1, <1>3, <2>2, TaskTaken
  <2>3. ASSUME NEW x \in Actor, running'[x] = "await" PROVE x = replacer'
    BY <1>1, <1>3, <2>2, <2>3 DEF PoolInvariant, DispatchesOK
  <2> QED
    BY <1>1, <2>1, <2>2, <2>3 DEF PoolInvariant, DispatchesOK, NowDispatches
<1>8. NowRemembered(retry', box')
  BY <1>1, TaskTaken DEF PoolInvariant, FlagsOK, Remembered, NowRemembered
<1>9. NowCap(res')
  <2>1. \A x \in Actor : NowLive(x) \/ res'[x] = "free" => HostLive(x) \/ res[x] = "free"
    BY <1>1, <1>3 DEF NowLive, HostLive
  <2> QED
    BY <2>1, NoMore
<1> QED
  BY <1>2, <1>4, <1>5, <1>6, <1>7, <1>8, <1>9, NowIsNext DEF NowGood

LEMMA HoldDyingPool == ASSUME PoolInvariant, NEW a \in Actor, HoldDying(a) PROVE PoolInvariant'
<1>1. running[a] = "idle" /\ box[a] # <<>> /\ Hold(a) /\ UNCHANGED <<res, replacer>> /\ dying[a]
  BY DEF HoldDying, MayDispatch, Runs
<1>2. ~busyTurn[a] /\ ~old[a]
  BY <1>1 DEF PoolInvariant, HeldIdle
<1> QED
  BY <1>1, <1>2, HoldPool

LEMMA RefusedPool == ASSUME PoolInvariant, NEW a \in Actor, RefusedHost(a) PROVE PoolInvariant'
<1>1. /\ running[a] = "idle" /\ box[a] # <<>> /\ Hold(a)
      /\ ~busyTurn[a] /\ ~old[a] /\ hostSession[a] = "none"
  BY DEF RefusedHost, SeeksHost, MayDispatch, Runs, HostLive
<1>2. \/ UNCHANGED <<res, replacer>>
      \/ replacer = a /\ res' = Unreserved(a) /\ replacer' = 0
  BY DEF RefusedHost
<1> QED
  BY <1>1, <1>2, HoldPool

(* A dispatch goes on to bind: it has a host or the promise of a slot.     *)
LEMMA HasHostPool == ASSUME PoolInvariant, NEW a \in Actor, HasHost(a) PROVE PoolInvariant'
<1>1. /\ running[a] = "idle" /\ box[a] # <<>> /\ ~busyTurn[a] /\ pend[a] > 0 /\ ~dying[a] /\ HostLive(a)
      /\ running' = [running EXCEPT ![a] = "bind"]
      /\ UNCHANGED <<box, cand, pend, busyTurn, old, hostSession, dying, retry, held, res, replacer>>
  BY DEF HasHost, MayDispatch, Runs, GoesToBind, pool
<1>2. /\ running' \in [Actor -> {"idle", "await", "bind"}] /\ running'[a] = "bind"
      /\ \A x \in Actor : x # a => running'[x] = running[x]
  BY <1>1 DEF PoolInvariant, PoolTypeOK
<1>3. NowTypes(res', replacer') /\ NowFlags(retry') /\ NowHeld(held')
  BY <1>1, <1>2 DEF PoolInvariant, PoolTypeOK, FlagsOK, HeldOK, NowTypes, NowFlags, NowHeld
<1>4. NowBoxes(replacer', box')
  BY <1>1, <1>2 DEF PoolInvariant, BoxesOK, NowBoxes
<1>5. NowIdle(held', res')
  BY <1>1, <1>2 DEF PoolInvariant, HeldIdle, NowIdle
<1>6. \A x \in Actor : NowLive(x) <=> HostLive(x)
  BY <1>1 DEF NowLive, HostLive
<1>7. NowDispatches(res', replacer', box')
  BY <1>1, <1>2, <1>6 DEF PoolInvariant, DispatchesOK, NowDispatches
<1>8. NowRemembered(retry', box')
  BY <1>1, <1>2 DEF PoolInvariant, Remembered, NowRemembered
<1>9. NowCap(res')
  BY <1>1, <1>6, NoMore
<1> QED
  BY <1>3, <1>4, <1>5, <1>7, <1>8, <1>9, NowIsNext DEF NowGood

LEMMA AdmittedPool == ASSUME PoolInvariant, NEW a \in Actor, Admitted(a) PROVE PoolInvariant'
<1>1. /\ running[a] = "idle" /\ box[a] # <<>> /\ ~busyTurn[a] /\ pend[a] > 0 /\ ~dying[a] /\ ~HostLive(a)
      /\ res[a] = "free" \/ HasRoom(a)
      /\ running' = [running EXCEPT ![a] = "bind"] /\ res' = [res EXCEPT ![a] = "free"]
      /\ UNCHANGED <<box, cand, pend, busyTurn, old, hostSession, dying, retry, held, replacer>>
  BY DEF Admitted, SeeksHost, MayDispatch, Runs, GoesToBind
<1>2. /\ running' \in [Actor -> {"idle", "await", "bind"}] /\ running'[a] = "bind"
      /\ \A x \in Actor : x # a => running'[x] = running[x] /\ res'[x] = res[x]
      /\ res' \in [Actor -> {"none", "free", "repl"}] /\ res'[a] = "free"
  BY <1>1 DEF PoolInvariant, PoolTypeOK
<1>3. NowTypes(res', replacer') /\ NowFlags(retry') /\ NowHeld(held')
  BY <1>1, <1>2 DEF PoolInvariant, PoolTypeOK, FlagsOK, HeldOK, NowTypes, NowFlags, NowHeld
<1>4. NowBoxes(replacer', box')
  BY <1>1, <1>2 DEF PoolInvariant, BoxesOK, NowBoxes
<1>5. NowIdle(held', res')
  BY <1>1, <1>2 DEF PoolInvariant, HeldIdle, NowIdle, HostLive
<1>6. \A x \in Actor : NowLive(x) <=> HostLive(x)
  BY <1>1 DEF NowLive, HostLive
<1>7. NowDispatches(res', replacer', box')
  BY <1>1, <1>2, <1>6 DEF PoolInvariant, DispatchesOK, NowDispatches
<1>8. NowRemembered(retry', box')
  BY <1>1, <1>2 DEF PoolInvariant, Remembered, NowRemembered
<1>9. NowCap(res')
  <2>1. CASE res[a] = "free"
    <3>1. \A x \in Actor : NowLive(x) \/ res'[x] = "free" => HostLive(x) \/ res[x] = "free"
      BY <1>2, <1>6, <2>1
    <3> QED
      BY <3>1, NoMore
  <2>2. CASE HasRoom(a)
    <3> DEFINE L == Others(a)
               B == LiveNow \cup {x \in Actor : res'[x] = "free"}
    <3>1. B = (L \cup Promised) \cup {a}
      <4>1. LiveNow = L
        BY <1>1, <1>6 DEF LiveNow, Others, NowLive
      <4>2. {x \in Actor : res'[x] = "free"} = Promised \cup {a}
        BY <1>2 DEF Promised
      <4> QED
        BY <4>1, <4>2
    <3>2. Cardinality(L) + Cardinality(Promised) < Cap
      BY <2>2 DEF HasRoom
    <3>3. L \subseteq Actor /\ Promised \subseteq Actor
      BY DEF Others, Promised
    <3> HIDE DEF L
    <3>4. Cardinality((L \cup Promised) \cup {a}) <= Cap
      BY <3>2, <3>3, RoomForOne
    <3> QED
      BY <3>1, <3>4, Zenon DEF NowCap
  <2> QED
    BY <1>1, <2>1, <2>2
<1> QED
  BY <1>3, <1>4, <1>5, <1>7, <1>8, <1>9, NowIsNext DEF NowGood

(* A retirement asked of the idle host b for the origin p, where no other  *)
(* is under way.                                                           *)
LEMMA AskedOne ==
  ASSUME NEW B \in [Actor -> Seq(Tasks)], \A x \in Actor : Once(B[x]) /\ ~Asked(B[x]),
         NEW b \in Actor, box' = [B EXCEPT ![b] = Append(@, "retire_capacity")],
         NEW p \in Actor, running'[p] = "await"
  PROVE  /\ NowBoxes(p, box')
         /\ \A x \in Actor : B[x] # <<>> => box'[x] # <<>>
         /\ \A x \in Actor : Pends(B[x]) => Pends(box'[x])
<1>1. "retire_capacity" \in Tasks
  BY DEF Tasks
<1>2. /\ Append(B[b], "retire_capacity") \in Seq(Tasks) /\ Append(B[b], "retire_capacity") # <<>>
      /\ Pends(B[b]) => Pends(Append(B[b], "retire_capacity"))
      /\ Once(Append(B[b], "retire_capacity"))
  BY <1>1, AppendTask
<1>3. \A x \in Actor : box'[x] = IF x = b THEN Append(B[b], "retire_capacity") ELSE B[x]
  OBVIOUS
<1>4. box' \in [Actor -> Seq(Tasks)]
  BY <1>2
<1>5. \A x \in Actor : Once(box'[x]) /\ (Asked(box'[x]) => x = b)
  BY <1>2, <1>3
<1> QED
  BY <1>2, <1>3, <1>4, <1>5 DEF NowBoxes

LEMMA ReplacePool == ASSUME PoolInvariant, NEW a \in Actor, Replace(a) PROVE PoolInvariant'
<1>1. /\ running[a] = "idle" /\ box[a] # <<>> /\ ~busyTurn[a] /\ pend[a] > 0 /\ ~dying[a] /\ ~HostLive(a)
      /\ res[a] # "free" /\ replacer \in {0, a}
      /\ res' = [res EXCEPT ![a] = "repl"] /\ replacer' = a
      /\ UNCHANGED <<pend, busyTurn, old, hostSession, dying, retry, held>>
  BY DEF Replace, SeeksHost, MayDispatch, Runs, OtherReplaces
<1>2. PICK b \in IdleOthers(a) :
        /\ cand' = IdleOthers(a) \ {b} /\ running' = [running EXCEPT ![a] = "await"]
        /\ box' = [box EXCEPT ![b] = Append(@, "retire_capacity")]
  BY DEF Replace, AskCandidate
<1>3. b \in Actor /\ cand' \subseteq Actor
  BY <1>2 DEF IdleOthers
<1>4. /\ running' \in [Actor -> {"idle", "await", "bind"}] /\ running'[a] = "await"
      /\ \A x \in Actor : x # a => running'[x] = running[x] /\ res'[x] = res[x]
      /\ res' \in [Actor -> {"none", "free", "repl"}] /\ res'[a] = "repl"
  BY <1>1, <1>2 DEF PoolInvariant, PoolTypeOK
<1>5. \A x \in Actor : ~Asked(box[x]) /\ running[x] # "await"
  BY <1>1, CapNat DEF PoolInvariant, BoxesOK, DispatchesOK
<1>6. /\ NowBoxes(a, box')
      /\ \A x \in Actor : box[x] # <<>> => box'[x] # <<>>
      /\ \A x \in Actor : Pends(box[x]) => Pends(box'[x])
  BY <1>2, <1>3, <1>4, <1>5, AskedOne DEF PoolInvariant, BoxesOK
<1>7. NowTypes(res', replacer') /\ NowFlags(retry') /\ NowHeld(held')
  BY <1>1, <1>3, <1>4 DEF PoolInvariant, FlagsOK, PoolTypeOK, HeldOK, NowTypes, NowFlags, NowHeld
<1>8. NowIdle(held', res')
  BY <1>1, <1>4 DEF PoolInvariant, HeldIdle, NowIdle, HostLive
<1>9. \A x \in Actor : NowLive(x) <=> HostLive(x)
  BY <1>1 DEF NowLive, HostLive
<1>10. NowDispatches(res', replacer', box')
  BY <1>1, <1>4, <1>5, <1>6, <1>9 DEF PoolInvariant, DispatchesOK, NowDispatches
<1>11. NowRemembered(retry', box')
  BY <1>1, <1>4, <1>6 DEF PoolInvariant, Remembered, NowRemembered
<1>12. NowCap(res')
  BY <1>4, <1>9, NoMore
<1> QED
  BY <1>1, <1>6, <1>7, <1>8, <1>10, <1>11, <1>12, NowIsNext DEF NowGood

(* A dispatch that binds ends, in whatever way: its reservation is given   *)
(* back, and with one given back the longest hold is woken.                *)
LEMMA DispatchEnds ==
  ASSUME PoolInvariant, NEW a \in Actor, running[a] = "bind", running' = [running EXCEPT ![a] = "idle"],
         UNCHANGED <<cand, old, dying>>,
         NEW h, NowHeld(h), Range(h) \subseteq Range(held),
         NEW t, NowFlags(t),
         \A x \in Actor : x # a => /\ pend'[x] = pend[x] /\ busyTurn'[x] = busyTurn[x]
                                   /\ hostSession'[x] = hostSession[x] /\ t[x] = retry[x],
         hostSession' \in [Actor -> {"none", "cur", "old"}],
         busyTurn'[a] \/ t[a],
         a \in Range(h) => ~busyTurn'[a] /\ hostSession'[a] = hostSession[a],
         ReleaseHost(a, h, t, Done(a))
  PROVE  PoolInvariant'
<1> DEFINE r == IF res[a] = "none" THEN res ELSE Unreserved(a)
           o == IF res[a] = "none" THEN replacer ELSE NoOwner(a)
           b == Done(a)
<1>1. /\ pend[a] > 0 /\ box[a] # <<>> /\ ~busyTurn[a] /\ ~dying[a]
      /\ HostLive(a) \/ res[a] = "free"
  BY DEF PoolInvariant, DispatchesOK, HeldIdle
<1>2. /\ running' \in [Actor -> {"idle", "await", "bind"}] /\ running'[a] = "idle"
      /\ \A x \in Actor : x # a => running'[x] = running[x]
  BY DEF PoolInvariant, PoolTypeOK
<1>3. /\ r \in [Actor -> {"none", "free", "repl"}] /\ r[a] = "none"
      /\ \A x \in Actor : x # a => r[x] = res[x]
  BY DEF Unreserved, PoolInvariant, PoolTypeOK
<1>4. o \in Actor \cup {0} /\ (o = replacer \/ replacer = a)
  BY DEF NoOwner, PoolInvariant, PoolTypeOK
<1>5. \/ HostFreed(h, r, o, t, b)
      \/ held' = h /\ res' = r /\ replacer' = o /\ retry' = t /\ box' = b
  BY DEF ReleaseHost
<1> HIDE DEF r, o
<1>6. NowTypes(r, o)
  BY <1>2, <1>3, <1>4 DEF PoolInvariant, PoolTypeOK, NowTypes
<1>7. NowBoxes(o, b)
  <2>1. \A x \in Actor : Asked(b[x]) => Asked(box[x]) /\ replacer # a
    BY <1>1, TaskTaken DEF PoolInvariant, BoxesOK
  <2> QED
    BY <1>1, <1>2, <1>4, <2>1, TaskTaken DEF PoolInvariant, BoxesOK, NowBoxes
<1>8. NowIdle(h, r)
  <2> SUFFICES ASSUME NEW x \in Actor
               PROVE  /\ x \in Range(h) \/ r[x] # "none"
                         => ~busyTurn'[x] /\ ~old'[x] /\ (hostSession'[x] = "none" \/ dying'[x])
                      /\ dying'[x] => ~busyTurn'[x] /\ ~old'[x] /\ running'[x] = "idle"
    BY DEF NowIdle
  <2>1. CASE x = a
    BY <2>1, <1>1, <1>3 DEF PoolInvariant, HeldIdle
  <2>2. CASE x # a
    BY <2>2, <1>2, <1>3 DEF PoolInvariant, HeldIdle
  <2> QED
    BY <2>1, <2>2
<1>9. \A x \in Actor : x # a => (NowLive(x) <=> HostLive(x))
  BY DEF NowLive, HostLive
<1>10. NowDispatches(r, o, b)
  <2>1. ASSUME NEW x \in Actor, running'[x] # "idle"
        PROVE  /\ x # a /\ running[x] = running'[x] /\ b[x] = box[x] /\ r[x] = res[x]
               /\ pend'[x] = pend[x] /\ busyTurn'[x] = busyTurn[x]
    BY <1>1, <1>2, <1>3, <2>1, TaskTaken
  <2>2. ASSUME NEW x \in Actor, running'[x] = "await" PROVE x = o
    BY <1>4, <2>1, <2>2 DEF PoolInvariant, DispatchesOK
  <2> QED
    BY <1>9, <2>1, <2>2 DEF PoolInvariant, DispatchesOK, NowDispatches
<1>11. NowRemembered(t, b)
  BY <1>1, <1>2, TaskTaken DEF PoolInvariant, Remembered, NowRemembered
<1>12. NowCap(r)
  <2>1. \A x \in Actor : NowLive(x) \/ r[x] = "free" => HostLive(x) \/ res[x] = "free"
    BY <1>1, <1>3, <1>9
  <2> QED
    BY <2>1, NoMore
<1>13. NowGood(h, r, o, t, b)
  BY <1>6, <1>7, <1>8, <1>10, <1>11, <1>12 DEF NowGood
<1>14. CASE HostFreed(h, r, o, t, b)
  BY <1>13, <1>14, FreedGood
<1>15. CASE held' = h /\ res' = r /\ replacer' = o /\ retry' = t /\ box' = b
  BY <1>13, <1>15, NowIsNext
<1> QED
  BY <1>5, <1>14, <1>15

LEMMA HostBoundPool == ASSUME PoolInvariant, NEW a \in Actor, HostBound(a) PROVE PoolInvariant'
<1>1. /\ running[a] = "bind" /\ running' = [running EXCEPT ![a] = "idle"]
      /\ hostSession' = [hostSession EXCEPT ![a] = "cur"] /\ busyTurn' = [busyTurn EXCEPT ![a] = TRUE]
      /\ pend' = [pend EXCEPT ![a] = @ - 1] /\ UNCHANGED <<cand, old, dying>>
      /\ ReleaseHost(a, Unheld(a), retry, Done(a))
  BY DEF HostBound
<1>2. NowHeld(Unheld(a)) /\ Range(Unheld(a)) \subseteq Range(held) /\ a \notin Range(Unheld(a))
  BY UnheldIs DEF PoolInvariant, HeldOK, NowHeld
<1>3. pend[a] \in Nat /\ pend[a] > 0
  BY <1>1 DEF PoolInvariant, FlagsOK, DispatchesOK
<1>4. NowFlags(retry)
  BY <1>1, <1>3 DEF PoolInvariant, FlagsOK, NowFlags
<1>5. hostSession' \in [Actor -> {"none", "cur", "old"}] /\ busyTurn'[a]
  BY <1>1 DEF PoolInvariant, PoolTypeOK, FlagsOK
<1>6. \A x \in Actor : x # a => /\ pend'[x] = pend[x] /\ busyTurn'[x] = busyTurn[x]
                                /\ hostSession'[x] = hostSession[x] /\ retry[x] = retry[x]
  BY <1>1 DEF PoolInvariant, PoolTypeOK, FlagsOK
<1> QED
  BY <1>1, <1>2, <1>4, <1>5, <1>6, DispatchEnds

LEMMA BindFailsPool == ASSUME PoolInvariant, NEW a \in Actor, BindFails(a) PROVE PoolInvariant'
<1> DEFINE t == [retry EXCEPT ![a] = TRUE]
<1>1. /\ running[a] = "bind" /\ running' = [running EXCEPT ![a] = "idle"]
      /\ UNCHANGED <<cand, pend, busyTurn, old, hostSession, dying>>
      /\ ReleaseHost(a, held, t, Done(a))
  BY DEF BindFails
<1>2. NowHeld(held) /\ NowFlags(t) /\ t[a] /\ hostSession' \in [Actor -> {"none", "cur", "old"}]
  BY <1>1 DEF PoolInvariant, PoolTypeOK, FlagsOK, NowFlags, HeldOK, NowHeld
<1>3. \A x \in Actor : x # a => /\ pend'[x] = pend[x] /\ busyTurn'[x] = busyTurn[x]
                                /\ hostSession'[x] = hostSession[x] /\ t[x] = retry[x]
  BY <1>1 DEF PoolInvariant, FlagsOK
<1>4. a \in Range(held) => ~busyTurn'[a] /\ hostSession'[a] = hostSession[a]
  BY <1>1 DEF PoolInvariant, HeldIdle
<1> HIDE DEF t
<1> QED
  BY <1>1, <1>2, <1>3, <1>4, DispatchEnds

LEMMA StartFailsPool == ASSUME PoolInvariant, NEW a \in Actor, StartFails(a) PROVE PoolInvariant'
<1> DEFINE t == [retry EXCEPT ![a] = TRUE]
<1>1. /\ running[a] = "bind" /\ running' = [running EXCEPT ![a] = "idle"]
      /\ hostSession' = [hostSession EXCEPT ![a] = "cur"]
      /\ UNCHANGED <<cand, pend, busyTurn, old, dying>>
      /\ ReleaseHost(a, Unheld(a), t, Done(a))
  BY DEF StartFails
<1>2. NowHeld(Unheld(a)) /\ Range(Unheld(a)) \subseteq Range(held) /\ a \notin Range(Unheld(a))
  BY UnheldIs DEF PoolInvariant, HeldOK, NowHeld
<1>3. NowFlags(t) /\ t[a] /\ hostSession' \in [Actor -> {"none", "cur", "old"}]
  BY <1>1 DEF PoolInvariant, PoolTypeOK, FlagsOK, NowFlags
<1>4. \A x \in Actor : x # a => /\ pend'[x] = pend[x] /\ busyTurn'[x] = busyTurn[x]
                                /\ hostSession'[x] = hostSession[x] /\ t[x] = retry[x]
  BY <1>1 DEF PoolInvariant, PoolTypeOK, FlagsOK
<1> HIDE DEF t
<1> QED
  BY <1>1, <1>2, <1>3, <1>4, DispatchEnds

LEMMA SettleTurnPool == ASSUME PoolInvariant, NEW a \in Actor, SettleTurn(a) PROVE PoolInvariant'
<1>1. /\ running[a] = "idle" /\ busyTurn[a]
      /\ busyTurn' = [busyTurn EXCEPT ![a] = FALSE] /\ hostSession' = [hostSession EXCEPT ![a] = "cur"]
      /\ UNCHANGED <<cand, pend, old, dying>>
  BY DEF SettleTurn
<1>2. /\ busyTurn' \in [Actor -> BOOLEAN] /\ ~busyTurn'[a]
      /\ hostSession' \in [Actor -> {"none", "cur", "old"}] /\ hostSession'[a] = "cur"
      /\ \A x \in Actor : x # a => busyTurn'[x] = busyTurn[x] /\ hostSession'[x] = hostSession[x]
  BY <1>1 DEF PoolInvariant, PoolTypeOK, FlagsOK
<1>3. a \notin Range(held) /\ res[a] = "none" /\ ~dying[a]
  BY <1>1 DEF PoolInvariant, HeldIdle
<1>4. NowCap(res)
  <2>1. \A x \in Actor : NowLive(x) \/ res[x] = "free" => HostLive(x) \/ res[x] = "free"
    BY <1>1, <1>2 DEF NowLive, HostLive
  <2> QED
    BY <2>1, NoMore
<1>5. \A x \in Actor : x # a => (NowLive(x) <=> HostLive(x))
  BY <1>1, <1>2 DEF NowLive, HostLive
<1>6. CASE pend[a] > 0 /\ ~retry[a]
  <2>1. /\ running' = [running EXCEPT ![a] = "bind"] /\ box' = [box EXCEPT ![a] = <<"dispatch">> \o @]
        /\ UNCHANGED <<retry, held, res, replacer>>
    BY <1>6 DEF SettleTurn, pool
  <2>2. /\ running' \in [Actor -> {"idle", "await", "bind"}] /\ running'[a] = "bind"
        /\ \A x \in Actor : x # a => running'[x] = running[x]
    BY <2>1 DEF PoolInvariant, PoolTypeOK
  <2>3. box \in [Actor -> Seq(Tasks)] /\ \A x \in Actor : Once(box[x])
    BY DEF PoolInvariant, BoxesOK
  <2>4. /\ <<"dispatch">> \o box[a] \in Seq(Tasks) /\ <<"dispatch">> \o box[a] # <<>>
        /\ Asked(<<"dispatch">> \o box[a]) => Asked(box[a])
        /\ Once(<<"dispatch">> \o box[a])
    BY <2>3, FirstTask
  <2>5. /\ box' \in [Actor -> Seq(Tasks)]
        /\ \A x \in Actor : box'[x] = IF x = a THEN <<"dispatch">> \o box[a] ELSE box[x]
    BY <2>1, <2>3, <2>4
  <2>6. NowTypes(res', replacer') /\ NowFlags(retry') /\ NowHeld(held')
    BY <1>1, <1>2, <2>1, <2>2 DEF PoolInvariant, PoolTypeOK, FlagsOK, HeldOK, NowTypes, NowFlags, NowHeld
  <2>7. NowBoxes(replacer', box')
    <3>1. \A x \in Actor : Once(box'[x]) /\ (Asked(box'[x]) => Asked(box[x]))
      BY <2>3, <2>4, <2>5
    <3>2. \A x \in Actor : running[x] = "await" => running'[x] = "await"
      BY <1>1, <2>2
    <3> QED
      BY <2>1, <2>5, <3>1, <3>2 DEF PoolInvariant, BoxesOK, NowBoxes
  <2>8. NowIdle(held', res')
    BY <1>1, <1>2, <1>3, <2>1, <2>2 DEF PoolInvariant, HeldIdle, NowIdle
  <2>9. NowDispatches(res', replacer', box')
    <3>1. pend'[a] > 0 /\ box'[a] # <<>> /\ NowLive(a)
      BY <1>1, <1>2, <1>6, <2>4, <2>5 DEF NowLive
    <3>2. \A x \in Actor : x # a => box'[x] = box[x] /\ busyTurn'[x] = busyTurn[x] /\ running'[x] = running[x]
      BY <1>2, <2>2, <2>5
    <3> QED
      BY <1>1, <1>2, <1>5, <2>1, <2>2, <3>1, <3>2 DEF PoolInvariant, DispatchesOK, NowDispatches
  <2>10. NowRemembered(retry', box')
    <3>1. \A x \in Actor : x # a => box'[x] = box[x] /\ busyTurn'[x] = busyTurn[x] /\ running'[x] = running[x]
      BY <1>2, <2>2, <2>5
    <3> QED
      BY <1>1, <2>1, <2>2, <3>1 DEF PoolInvariant, Remembered, NowRemembered
  <2> QED
    BY <1>4, <2>1, <2>6, <2>7, <2>8, <2>9, <2>10, NowIsNext DEF NowGood
<1>7. CASE ~(pend[a] > 0 /\ ~retry[a])
  <2>1. /\ running' = running
        /\ \/ HostFreed(held, res, replacer, retry, box)
           \/ UNCHANGED <<box, retry, held, res, replacer>>
    BY <1>7 DEF SettleTurn, pool
  <2>2. NowTypes(res, replacer) /\ NowFlags(retry) /\ NowHeld(held) /\ NowBoxes(replacer, box)
    BY <1>1, <1>2, <2>1
    DEF PoolInvariant, PoolTypeOK, FlagsOK, HeldOK, BoxesOK, NowTypes, NowFlags, NowHeld, NowBoxes
  <2>3. NowIdle(held, res)
    BY <1>1, <1>2, <1>3, <2>1 DEF PoolInvariant, HeldIdle, NowIdle
  <2>4. NowDispatches(res, replacer, box)
    BY <1>1, <1>2, <1>5, <2>1 DEF PoolInvariant, DispatchesOK, NowDispatches
  <2>5. NowRemembered(retry, box)
    BY <1>1, <1>2, <1>7, <2>1 DEF PoolInvariant, FlagsOK, Remembered, NowRemembered
  <2>6. NowGood(held, res, replacer, retry, box)
    BY <1>4, <2>2, <2>3, <2>4, <2>5 DEF NowGood
  <2>7. CASE HostFreed(held, res, replacer, retry, box)
    BY <2>6, <2>7, FreedGood
  <2>8. CASE UNCHANGED <<box, retry, held, res, replacer>>
    BY <2>6, <2>8, NowIsNext
  <2> QED
    BY <2>1, <2>7, <2>8
<1> QED
  BY <1>6, <1>7

(* The task of a retirement asked by another origin names that origin.     *)
LEMMA AskedBy ==
  ASSUME PoolInvariant, NEW a \in Actor, RunsRetire(a), Head(box[a]) = "retire_capacity"
  PROVE  /\ replacer \in Actor /\ replacer # a /\ running[replacer] = "await" /\ ~HostLive(replacer)
         /\ \A x \in Actor : ~Asked(Done(a)[x])
         /\ \A x \in Actor : running[x] = "await" => x = replacer
<1>1. running[a] = "idle" /\ box[a] # <<>>
  BY DEF RunsRetire, Runs
<1>2. Asked(box[a]) /\ ~Asked(Done(a)[a])
  BY <1>1, TaskTaken
<1>3. replacer \in Actor /\ running[replacer] = "await"
  BY <1>2 DEF PoolInvariant, BoxesOK
<1>4. \A x \in Actor : ~Asked(Done(a)[x])
  BY <1>1, <1>2, TaskTaken DEF PoolInvariant, BoxesOK
<1> QED
  BY <1>1, <1>3, <1>4 DEF PoolInvariant, DispatchesOK

(* A host that is not retired, perhaps signalled.                          *)
LEMMA KeptPool ==
  ASSUME PoolInvariant, NEW a \in Actor, RunsRetire(a), Kept(a),
         UNCHANGED <<pend, busyTurn, old, hostSession>>,
         \/ dying' = dying
         \/ HostIdle(a) /\ dying' = [dying EXCEPT ![a] = TRUE]
  PROVE  PoolInvariant'
<1>1. running[a] = "idle" /\ box[a] # <<>> /\ Head(box[a]) \in {"retire_capacity", "retire_idle"}
  BY DEF RunsRetire, Runs
<1>2. /\ dying' \in [Actor -> BOOLEAN]
      /\ \A x \in Actor : x # a => dying'[x] = dying[x]
      /\ dying[a] => dying'[a]
      /\ dying'[a] => ~busyTurn[a] /\ ~old[a]
  BY DEF PoolInvariant, FlagsOK, HeldIdle, HostIdle
<1>3. \A x \in Actor : NowLive(x) <=> HostLive(x)
  BY <1>2 DEF NowLive, HostLive, HostIdle
<1>4. \A x \in Actor : dying'[x] => ~busyTurn'[x] /\ ~old'[x] /\ running[x] = "idle"
  BY <1>1, <1>2 DEF PoolInvariant, HeldIdle
<1>5. NowHeld(held) /\ NowFlags(retry)
  BY <1>2 DEF PoolInvariant, FlagsOK, HeldOK, NowHeld, NowFlags
<1>6. CASE Head(box[a]) = "retire_idle"
  <2>1. box' = Done(a) /\ UNCHANGED <<running, cand, retry, held, res, replacer>>
    BY <1>6 DEF Kept, pool
  <2>2. NowTypes(res', replacer')
    BY <2>1 DEF PoolInvariant, PoolTypeOK, NowTypes
  <2>3. NowBoxes(replacer', box')
    BY <1>1, <2>1, TaskTaken DEF PoolInvariant, BoxesOK, NowBoxes
  <2>4. NowIdle(held', res')
    BY <1>2, <1>4, <2>1 DEF PoolInvariant, HeldIdle, NowIdle
  <2>5. NowDispatches(res', replacer', box')
    BY <1>1, <1>3, <2>1, TaskTaken DEF PoolInvariant, DispatchesOK, NowDispatches
  <2>6. NowRemembered(retry', box')
    BY <1>1, <1>6, <2>1, TaskTaken DEF PoolInvariant, Remembered, NowRemembered
  <2>7. NowCap(res')
    BY <1>3, <2>1, NoMore
  <2> QED
    BY <1>5, <2>1, <2>2, <2>3, <2>4, <2>5, <2>6, <2>7, NowIsNext DEF NowGood
<1>7. CASE Head(box[a]) = "retire_capacity"
  <2>1. /\ replacer \in Actor /\ replacer # a /\ running[replacer] = "await" /\ ~HostLive(replacer)
        /\ \A x \in Actor : ~Asked(Done(a)[x])
        /\ \A x \in Actor : running[x] = "await" => x = replacer
    BY <1>7, AskedBy
  <2>2. /\ Done(a) \in [Actor -> Seq(Tasks)] /\ \A x \in Actor : Once(Done(a)[x])
        /\ \A x \in Actor : x # a => Done(a)[x] = box[x]
        /\ Pends(box[a]) => Pends(Done(a)[a])
    BY <1>1, <1>7, TaskTaken
  <2>3. CASE AskCandidate(replacer, cand, Done(a)) /\ UNCHANGED <<retry, pool>>
    <3>1. PICK b \in cand : /\ cand' = cand \ {b} /\ running' = [running EXCEPT ![replacer] = "await"]
                            /\ box' = [Done(a) EXCEPT ![b] = Append(@, "retire_capacity")]
      BY <2>3 DEF AskCandidate
    <3>2. UNCHANGED <<retry, held, res, replacer>>
      BY <2>3 DEF pool
    <3>3. b \in Actor /\ cand' \subseteq Actor
      BY <3>1 DEF PoolInvariant, PoolTypeOK
    <3>4. running' \in [Actor -> {"idle", "await", "bind"}] /\ \A x \in Actor : running'[x] = running[x]
      BY <2>1, <3>1 DEF PoolInvariant, PoolTypeOK
    <3>5. /\ NowBoxes(replacer, box')
          /\ \A x \in Actor : Done(a)[x] # <<>> => box'[x] # <<>>
          /\ \A x \in Actor : Pends(Done(a)[x]) => Pends(box'[x])
      BY <2>1, <2>2, <3>1, <3>3, <3>4, AskedOne
    <3>6. NowTypes(res', replacer')
      BY <3>2, <3>3, <3>4 DEF PoolInvariant, PoolTypeOK, NowTypes
    <3>7. NowIdle(held', res')
      BY <1>2, <1>4, <3>2, <3>4 DEF PoolInvariant, HeldIdle, NowIdle
    <3>8. NowDispatches(res', replacer', box')
      BY <1>1, <1>3, <2>2, <3>2, <3>4, <3>5 DEF PoolInvariant, DispatchesOK, NowDispatches
    <3>9. NowRemembered(retry', box')
      BY <2>2, <3>2, <3>4, <3>5 DEF PoolInvariant, Remembered, NowRemembered
    <3>10. NowCap(res')
      BY <1>3, <3>2, NoMore
    <3> QED
      BY <1>5, <3>2, <3>5, <3>6, <3>7, <3>8, <3>9, <3>10, NowIsNext DEF NowGood
  <2>4. CASE /\ res' = Unreserved(replacer) /\ replacer' = 0 /\ running' = [running EXCEPT ![replacer] = "idle"]
             /\ held' = IF replacer \in Range(held) THEN held ELSE Append(held, replacer)
             /\ retry' = [retry EXCEPT ![replacer] = TRUE]
             /\ box' = [Done(a) EXCEPT ![replacer] = Tail(@)] /\ UNCHANGED cand
    <3> DEFINE c == replacer
    <3>1. /\ running' \in [Actor -> {"idle", "await", "bind"}] /\ running'[c] = "idle"
          /\ \A x \in Actor : x # c => running'[x] = running[x] /\ res'[x] = res[x] /\ retry'[x] = retry[x]
          /\ res' \in [Actor -> {"none", "free", "repl"}] /\ res'[c] = "none"
          /\ retry' \in [Actor -> BOOLEAN] /\ retry'[c]
      BY <2>1, <2>4 DEF PoolInvariant, PoolTypeOK, FlagsOK, Unreserved
    <3>2. NowHeld(held') /\ Range(held') \subseteq Range(held) \cup {c}
      <4>1. CASE c \in Range(held)
        BY <2>4, <4>1 DEF PoolInvariant, HeldOK, NowHeld
      <4>2. CASE c \notin Range(held)
        BY <2>1, <2>4, <4>2, HeldMore DEF PoolInvariant, HeldOK, NowHeld
      <4> QED
        BY <4>1, <4>2
    <3>3. Done(a)[c] # <<>>
      BY <2>1, <2>2 DEF PoolInvariant, DispatchesOK
    <3>4. Tail(Done(a)[c]) \in Seq(Tasks) /\ ~Asked(Tail(Done(a)[c])) /\ Once(Tail(Done(a)[c]))
      BY <2>1, <2>2, <3>3, TailTask
    <3>5. /\ box' \in [Actor -> Seq(Tasks)]
          /\ \A x \in Actor : box'[x] = IF x = c THEN Tail(Done(a)[c]) ELSE Done(a)[x]
      BY <2>2, <2>4, <3>4
    <3>6. NowBoxes(replacer', box')
      BY <2>1, <2>2, <3>4, <3>5 DEF NowBoxes
    <3>7. NowTypes(res', replacer') /\ NowFlags(retry')
      BY <1>2, <2>4, <3>1 DEF PoolInvariant, PoolTypeOK, FlagsOK, NowTypes, NowFlags
    <3>8. NowIdle(held', res')
      BY <1>2, <1>4, <2>1, <3>1, <3>2 DEF PoolInvariant, HeldIdle, NowIdle, HostLive
    <3>9. NowDispatches(res', replacer', box')
      <4>1. ASSUME NEW x \in Actor, running'[x] # "idle"
            PROVE  /\ x # c /\ x # a /\ running[x] = running'[x] /\ running[x] # "await"
                   /\ res'[x] = res[x] /\ box'[x] = box[x]
        BY <1>1, <2>1, <2>2, <3>1, <3>5, <4>1
      <4> QED
        BY <1>3, <4>1 DEF PoolInvariant, DispatchesOK, NowDispatches
    <3>10. NowRemembered(retry', box')
      <4>1. ASSUME NEW x \in Actor, x # c
            PROVE  running'[x] = running[x] /\ retry'[x] = retry[x] /\ (Pends(box[x]) => Pends(box'[x]))
        BY <2>2, <3>1, <3>5, <4>1
      <4> QED
        BY <3>1, <4>1 DEF PoolInvariant, Remembered, NowRemembered
    <3>11. NowCap(res')
      <4>1. \A x \in Actor : NowLive(x) \/ res'[x] = "free" => HostLive(x) \/ res[x] = "free"
        BY <1>3, <3>1
      <4> QED
        BY <4>1, NoMore
    <3> QED
      BY <3>2, <3>6, <3>7, <3>8, <3>9, <3>10, <3>11, NowIsNext DEF NowGood
  <2> QED
    BY <1>7, <2>3, <2>4 DEF Kept
<1> QED
  BY <1>1, <1>6, <1>7

LEMMA NotRetiredPool ==
  ASSUME PoolInvariant, NEW a \in Actor, NotRetired(a) \/ Signalled(a) PROVE PoolInvariant'
<1>1. /\ RunsRetire(a) /\ Kept(a) /\ UNCHANGED <<pend, busyTurn, old, hostSession>>
      /\ \/ dying' = dying
         \/ HostIdle(a) /\ dying' = [dying EXCEPT ![a] = TRUE]
  BY DEF NotRetired, Signalled, MayRetire
<1> QED
  BY <1>1, KeptPool

(* A host that is gone leaves its place to one promise.                    *)
LEMMA InItsPlace ==
  ASSUME PoolInvariant, NEW a \in Actor, HostLive(a), NEW c \in Actor, NEW r,
         \A x \in Actor : NowLive(x) \/ r[x] = "free" => x = c \/ (x # a /\ (HostLive(x) \/ res[x] = "free"))
  PROVE  NowCap(r)
<1> DEFINE A == {x \in Actor : HostLive(x)} \cup Promised
           B == LiveNow \cup {x \in Actor : r[x] = "free"}
<1>1. IsFiniteSet(A) /\ a \in A
  <2>1. A \subseteq Actor /\ a \in A
    BY DEF Promised
  <2> QED
    BY <2>1, FS_Subset, CapNat
<1>2. B \subseteq (A \ {a}) \cup {c}
  BY DEF LiveNow, NowLive, Promised
<1>3. Cardinality(A) <= Cap
  BY DEF PoolInvariant, WithinCap
<1> HIDE DEF A, B
<1>4. IsFiniteSet(A \ {a}) /\ Cardinality(A \ {a}) = Cardinality(A) - 1
  BY <1>1, FS_RemoveElement
<1>5. /\ IsFiniteSet((A \ {a}) \cup {c})
      /\ Cardinality((A \ {a}) \cup {c})
           = IF c \in A \ {a} THEN Cardinality(A \ {a}) ELSE Cardinality(A \ {a}) + 1
  BY <1>4, FS_AddElement, Zenon
<1>6. Cardinality(B) <= Cardinality((A \ {a}) \cup {c}) /\ IsFiniteSet(B)
  BY <1>2, <1>5, FS_Subset, Zenon
<1>7. Cardinality(A) \in Nat /\ Cardinality(A \ {a}) \in Nat /\ Cardinality(B) \in Nat
  BY <1>1, <1>4, <1>6, FS_CardinalityType
<1>8. Cardinality(B) <= Cap
  BY <1>3, <1>4, <1>5, <1>6, <1>7, CapNat
<1> QED
  BY <1>8 DEF B, NowCap

LEMMA RetiredPool == ASSUME PoolInvariant, NEW a \in Actor, Retired(a) PROVE PoolInvariant'
<1>1. /\ RunsRetire(a) /\ hostSession' = [hostSession EXCEPT ![a] = "none"]
      /\ UNCHANGED <<pend, busyTurn, old, dying>>
      /\ HostIdle(a) /\ pend[a] = 0
  BY DEF Retired, MayRetire
<1>2. running[a] = "idle" /\ box[a] # <<>> /\ Head(box[a]) \in {"retire_capacity", "retire_idle"}
  BY <1>1 DEF RunsRetire, Runs
<1>3. HostLive(a) /\ a \notin Range(held) /\ res[a] = "none" /\ ~busyTurn[a] /\ ~old[a] /\ ~dying[a]
  BY <1>1 DEF HostIdle, HostLive, PoolInvariant, PoolTypeOK, HeldIdle
<1>4. /\ hostSession' \in [Actor -> {"none", "cur", "old"}] /\ hostSession'[a] = "none"
      /\ \A x \in Actor : x # a => hostSession'[x] = hostSession[x]
  BY <1>1 DEF PoolInvariant, PoolTypeOK
<1>5. ~NowLive(a) /\ \A x \in Actor : x # a => (NowLive(x) <=> HostLive(x))
  BY <1>1, <1>3, <1>4 DEF NowLive, HostLive
<1>6. NowHeld(held) /\ NowFlags(retry)
  BY <1>1 DEF PoolInvariant, FlagsOK, HeldOK, NowHeld, NowFlags
<1>7. CASE Head(box[a]) = "retire_capacity"
  <2> DEFINE c == replacer
  <2>1. /\ c \in Actor /\ c # a /\ running[c] = "await" /\ ~HostLive(c)
        /\ \A x \in Actor : ~Asked(Done(a)[x])
        /\ \A x \in Actor : running[x] = "await" => x = c
    BY <1>1, <1>7, AskedBy
  <2>2. /\ replacer' = 0 /\ res' = [res EXCEPT ![c] = "free"] /\ cand' = {}
        /\ running' = [running EXCEPT ![c] = "bind"] /\ box' = Done(a) /\ UNCHANGED <<retry, held>>
    BY <1>7 DEF Retired
  <2> HIDE DEF c
  <2>3. /\ running' \in [Actor -> {"idle", "await", "bind"}] /\ running'[c] = "bind"
        /\ \A x \in Actor : x # c => running'[x] = running[x] /\ res'[x] = res[x]
        /\ res' \in [Actor -> {"none", "free", "repl"}] /\ res'[c] = "free"
    BY <2>1, <2>2 DEF PoolInvariant, PoolTypeOK
  <2>4. /\ Done(a) \in [Actor -> Seq(Tasks)] /\ \A x \in Actor : Once(Done(a)[x])
        /\ \A x \in Actor : x # a => Done(a)[x] = box[x]
    BY <1>2, TaskTaken
  <2>5. NowTypes(res', replacer')
    BY <1>4, <2>2, <2>3 DEF NowTypes
  <2>6. NowBoxes(replacer', box')
    BY <2>1, <2>2, <2>4 DEF NowBoxes
  <2>7. NowIdle(held', res')
    BY <1>1, <1>3, <1>4, <2>1, <2>2, <2>3 DEF PoolInvariant, HeldIdle, NowIdle, HostLive
  <2>8. NowDispatches(res', replacer', box')
    <3>1. ASSUME NEW x \in Actor, running'[x] # "idle"
          PROVE  /\ x # a /\ box'[x] = box[x] /\ running[x] # "idle" /\ running'[x] # "await"
                 /\ running'[x] = "bind" => x = c \/ (running[x] = "bind" /\ res'[x] = res[x])
      BY <1>2, <2>1, <2>2, <2>3, <2>4, <3>1
    <3> QED
      BY <1>1, <1>5, <2>3, <3>1 DEF PoolInvariant, DispatchesOK, NowDispatches
  <2>9. NowRemembered(retry', box')
    <3>1. ASSUME NEW x \in Actor, pend'[x] > 0
          PROVE  x # a /\ box'[x] = box[x] /\ (running[x] # "idle" => running'[x] # "idle")
      BY <1>1, <2>2, <2>3, <2>4, <3>1
    <3> QED
      BY <1>1, <2>2, <3>1 DEF PoolInvariant, Remembered, NowRemembered
  <2>10. NowCap(res')
    <3>1. \A x \in Actor : NowLive(x) \/ res'[x] = "free" => x = c \/ (x # a /\ (HostLive(x) \/ res[x] = "free"))
      BY <1>3, <1>5, <2>1, <2>3
    <3> QED
      BY <1>3, <2>1, <3>1, InItsPlace
  <2> QED
    BY <1>6, <2>2, <2>5, <2>6, <2>7, <2>8, <2>9, <2>10, NowIsNext DEF NowGood
<1>8. CASE Head(box[a]) = "retire_idle"
  <2>1. UNCHANGED <<running, cand>> /\ HostFreed(held, res, replacer, retry, Done(a))
    BY <1>8 DEF Retired
  <2>2. NowTypes(res, replacer)
    BY <1>4, <2>1 DEF PoolInvariant, PoolTypeOK, NowTypes
  <2>3. NowBoxes(replacer, Done(a))
    BY <1>2, <2>1, TaskTaken DEF PoolInvariant, BoxesOK, NowBoxes
  <2>4. NowIdle(held, res)
    BY <1>1, <1>3, <1>4, <2>1 DEF PoolInvariant, HeldIdle, NowIdle
  <2>5. NowDispatches(res, replacer, Done(a))
    BY <1>1, <1>2, <1>5, <2>1, TaskTaken DEF PoolInvariant, DispatchesOK, NowDispatches
  <2>6. NowRemembered(retry, Done(a))
    BY <1>1, <1>2, <2>1, TaskTaken DEF PoolInvariant, Remembered, NowRemembered
  <2>7. NowCap(res)
    <3>1. \A x \in Actor : NowLive(x) \/ res[x] = "free" => HostLive(x) \/ res[x] = "free"
      BY <1>5
    <3> QED
      BY <3>1, NoMore
  <2>8. NowGood(held, res, replacer, retry, Done(a))
    BY <1>6, <2>2, <2>3, <2>4, <2>5, <2>6, <2>7 DEF NowGood
  <2> QED
    BY <2>1, <2>8, FreedGood
<1> QED
  BY <1>2, <1>7, <1>8

LEMMA HostExitsPool == ASSUME PoolInvariant, NEW a \in Actor, HostExits(a) PROVE PoolInvariant'
<1>1. /\ running[a] = "idle" /\ dying[a]
      /\ dying' = [dying EXCEPT ![a] = FALSE] /\ hostSession' = [hostSession EXCEPT ![a] = "none"]
      /\ UNCHANGED <<running, cand, pend, busyTurn, old>>
      /\ HostFreed(held, res, replacer, retry, box)
  BY DEF HostExits
<1>2. ~busyTurn[a] /\ ~old[a]
  BY <1>1 DEF PoolInvariant, HeldIdle
<1>3. /\ hostSession' \in [Actor -> {"none", "cur", "old"}] /\ hostSession'[a] = "none"
      /\ dying' \in [Actor -> BOOLEAN] /\ ~dying'[a]
      /\ \A x \in Actor : x # a => hostSession'[x] = hostSession[x] /\ dying'[x] = dying[x]
  BY <1>1 DEF PoolInvariant, PoolTypeOK, FlagsOK
<1>4. ~NowLive(a) /\ \A x \in Actor : x # a => (NowLive(x) <=> HostLive(x))
  BY <1>1, <1>2, <1>3 DEF NowLive, HostLive
<1>5. NowTypes(res, replacer) /\ NowFlags(retry) /\ NowHeld(held) /\ NowBoxes(replacer, box)
  BY <1>1, <1>3
  DEF PoolInvariant, PoolTypeOK, FlagsOK, HeldOK, BoxesOK, NowTypes, NowFlags, NowHeld, NowBoxes
<1>6. NowIdle(held, res)
  BY <1>1, <1>2, <1>3 DEF PoolInvariant, HeldIdle, NowIdle
<1>7. NowDispatches(res, replacer, box)
  BY <1>1, <1>4 DEF PoolInvariant, DispatchesOK, NowDispatches
<1>8. NowRemembered(retry, box)
  BY <1>1 DEF PoolInvariant, Remembered, NowRemembered
<1>9. NowCap(res)
  <2>1. \A x \in Actor : NowLive(x) \/ res[x] = "free" => HostLive(x) \/ res[x] = "free"
    BY <1>4
  <2> QED
    BY <2>1, NoMore
<1>10. NowGood(held, res, replacer, retry, box)
  BY <1>5, <1>6, <1>7, <1>8, <1>9 DEF NowGood
<1> QED
  BY <1>1, <1>10, FreedGood

LEMMA ResetPool == ASSUME PoolInvariant, NEW a \in Actor, ResetOrigin(a) PROVE PoolInvariant'
<1>1. /\ running[a] = "idle" /\ box[a] # <<>> /\ Head(box[a]) = "new" /\ ~old[a]
      /\ pend' = [pend EXCEPT ![a] = 0] /\ busyTurn' = [busyTurn EXCEPT ![a] = FALSE]
      /\ old' = [old EXCEPT ![a] = busyTurn[a]]
      /\ hostSession' = [hostSession EXCEPT ![a] = IF busyTurn[a] THEN "old" ELSE "none"]
      /\ box' = Done(a) /\ UNCHANGED <<running, cand, dying, retry, held, res, replacer>>
  BY DEF ResetOrigin, Runs, pool
<1>2. /\ pend' \in [Actor -> Nat] /\ pend'[a] = 0
      /\ busyTurn' \in [Actor -> BOOLEAN] /\ ~busyTurn'[a]
      /\ old' \in [Actor -> BOOLEAN] /\ (old'[a] <=> busyTurn[a])
      /\ hostSession' \in [Actor -> {"none", "cur", "old"}]
      /\ hostSession'[a] = IF busyTurn[a] THEN "old" ELSE "none"
  BY <1>1 DEF PoolInvariant, PoolTypeOK, FlagsOK
<1>3. \A x \in Actor : x # a => /\ pend'[x] = pend[x] /\ busyTurn'[x] = busyTurn[x] /\ old'[x] = old[x]
                                /\ hostSession'[x] = hostSession[x]
  BY <1>1 DEF PoolInvariant, PoolTypeOK, FlagsOK
<1>4. /\ NowLive(a) => HostLive(a)
      /\ \A x \in Actor : x # a => (NowLive(x) <=> HostLive(x))
  BY <1>1, <1>2, <1>3 DEF NowLive, HostLive
<1>5. NowTypes(res', replacer') /\ NowFlags(retry') /\ NowHeld(held')
  BY <1>1, <1>2 DEF PoolInvariant, PoolTypeOK, FlagsOK, HeldOK, NowTypes, NowFlags, NowHeld
<1>6. NowBoxes(replacer', box')
  BY <1>1, TaskTaken DEF PoolInvariant, BoxesOK, NowBoxes
<1>7. NowIdle(held', res')
  BY <1>1, <1>2, <1>3 DEF PoolInvariant, HeldIdle, NowIdle
<1>8. NowDispatches(res', replacer', box')
  <2>1. ASSUME NEW x \in Actor, running'[x] # "idle"
        PROVE  x # a /\ box'[x] = box[x] /\ running'[x] = running[x]
    BY <1>1, <2>1, TaskTaken
  <2> QED
    BY <1>1, <1>3, <1>4, <2>1 DEF PoolInvariant, DispatchesOK, NowDispatches
<1>9. NowRemembered(retry', box')
  <2>1. ASSUME NEW x \in Actor, pend'[x] > 0 PROVE x # a /\ box'[x] = box[x]
    BY <1>1, <1>2, <2>1, TaskTaken
  <2> QED
    BY <1>1, <1>3, <2>1 DEF PoolInvariant, Remembered, NowRemembered
<1>10. NowCap(res')
  <2>1. \A x \in Actor : NowLive(x) \/ res'[x] = "free" => HostLive(x) \/ res[x] = "free"
    BY <1>1, <1>4
  <2> QED
    BY <2>1, NoMore
<1> QED
  BY <1>5, <1>6, <1>7, <1>8, <1>9, <1>10, NowIsNext DEF NowGood

LEMMA OldEndsPool == ASSUME PoolInvariant, NEW a \in Actor, OldEnds(a) PROVE PoolInvariant'
<1>1. /\ running[a] = "idle" /\ old[a] /\ old' = [old EXCEPT ![a] = FALSE]
      /\ hostSession' = [hostSession EXCEPT ![a] = IF @ = "old" THEN "none" ELSE @]
      /\ UNCHANGED <<box, running, cand, pend, busyTurn, dying, retry, held, res, replacer>>
  BY DEF OldEnds, pool
<1>2. a \notin Range(held) /\ res[a] = "none" /\ ~dying[a]
  BY <1>1 DEF PoolInvariant, HeldIdle
<1>3. /\ old' \in [Actor -> BOOLEAN] /\ ~old'[a]
      /\ hostSession' \in [Actor -> {"none", "cur", "old"}]
      /\ \A x \in Actor : x # a => old'[x] = old[x] /\ hostSession'[x] = hostSession[x]
  BY <1>1 DEF PoolInvariant, PoolTypeOK, FlagsOK
<1>4. HostLive(a) /\ \A x \in Actor : x # a => (NowLive(x) <=> HostLive(x))
  BY <1>1, <1>3 DEF NowLive, HostLive
<1>5. NowTypes(res', replacer') /\ NowFlags(retry') /\ NowHeld(held') /\ NowBoxes(replacer', box')
  BY <1>1, <1>3
  DEF PoolInvariant, PoolTypeOK, FlagsOK, HeldOK, BoxesOK, NowTypes, NowFlags, NowHeld, NowBoxes
<1>6. NowIdle(held', res')
  BY <1>1, <1>2, <1>3 DEF PoolInvariant, HeldIdle, NowIdle
<1>7. NowDispatches(res', replacer', box')
  BY <1>1, <1>4 DEF PoolInvariant, DispatchesOK, NowDispatches
<1>8. NowRemembered(retry', box')
  BY <1>1 DEF PoolInvariant, Remembered, NowRemembered
<1>9. NowCap(res')
  <2>1. \A x \in Actor : NowLive(x) \/ res'[x] = "free" => HostLive(x) \/ res[x] = "free"
    BY <1>1, <1>4
  <2> QED
    BY <2>1, NoMore
<1> QED
  BY <1>5, <1>6, <1>7, <1>8, <1>9, NowIsNext DEF NowGood

LEMMA PoolStepLemma == PoolInvariant /\ [PoolNext]_hostPool => PoolInvariant'
<1> SUFFICES ASSUME PoolInvariant, [PoolNext]_hostPool PROVE PoolInvariant'
  OBVIOUS
<1>1. ASSUME NEW a \in Actor, Arrive(a) \/ Steer(a) \/ RetryFires(a) \/ Nothing(a) \/ SweepIdleHost(a) \/ NewAsked(a)
      PROVE  PoolInvariant'
  BY <1>1, ArrivePool, RetryFiresPool, PlainQueued, PlainTaken
<1>2. ASSUME NEW a \in Actor, HoldDying(a) \/ HasHost(a) \/ Admitted(a) \/ RefusedHost(a) \/ Replace(a)
      PROVE  PoolInvariant'
  BY <1>2, HoldDyingPool, HasHostPool, AdmittedPool, RefusedPool, ReplacePool
<1>3. ASSUME NEW a \in Actor, HostBound(a) \/ BindFails(a) \/ StartFails(a) \/ SettleTurn(a)
      PROVE  PoolInvariant'
  BY <1>3, HostBoundPool, BindFailsPool, StartFailsPool, SettleTurnPool
<1>4. ASSUME NEW a \in Actor, NotRetired(a) \/ Signalled(a) \/ Retired(a) \/ HostExits(a) \/ ResetOrigin(a) \/ OldEnds(a)
      PROVE  PoolInvariant'
  BY <1>4, NotRetiredPool, RetiredPool, HostExitsPool, ResetPool, OldEndsPool
<1>5. CASE UNCHANGED hostPool
  <2>1. /\ UNCHANGED <<running, cand, busyTurn, old, hostSession, dying, pool>>
        /\ UNCHANGED <<pend, retry, box>>
    BY <1>5 DEF hostPool, pool
  <2>2. /\ pend' \in [Actor -> Nat] /\ retry' \in [Actor -> BOOLEAN] /\ box' \in [Actor -> Seq(Tasks)]
        /\ \A x \in Actor : Once(box'[x]) /\ (Asked(box'[x]) => Asked(box[x]))
        /\ \A x \in Actor : running[x] # "idle" => pend'[x] > 0 /\ box'[x] # <<>>
        /\ \A x \in Actor : pend'[x] > 0 => retry'[x] \/ busyTurn[x] \/ running[x] # "idle" \/ Pends(box'[x])
    BY <2>1 DEF PoolInvariant, FlagsOK, BoxesOK, DispatchesOK, Remembered
  <2> QED
    BY <2>1, <2>2, MailStep
<1> QED
  BY <1>1, <1>2, <1>3, <1>4, <1>5 DEF PoolNext

LEMMA PoolInvariantLemma == PoolSpec => []PoolInvariant
BY PoolInitLemma, PoolStepLemma, PTL DEF PoolSpec

LEMMA PoolOK == PoolInvariant => PoolTypeOK /\ WithinCap /\ NoneForgotten
<1> SUFFICES ASSUME PoolInvariant PROVE NoneForgotten
  BY DEF PoolInvariant
<1>1. \A x \in Actor : Pends(box[x]) => box[x] # <<>>
  BY DEF Pends
<1> QED
  BY <1>1 DEF PoolInvariant, Remembered, NoneForgotten, Serving

(* The tasks, sessions, reservations and the replacement of the pool of    *)
(* hosts are in the states the code declares, and so are the callers of    *)
(* the relays, of which those asleep are queued once each.                 *)
THEOREM PoolTypesCorrect == PoolSpec /\ TailSpec => [](PoolTypeOK /\ TailTypeOK)
<1>1. PoolInvariant => PoolTypeOK
  BY PoolOK
<1>2. SlotsInvariant => TailTypeOK
  <2> SUFFICES ASSUME SlotsInvariant PROVE TailTypeOK
    OBVIOUS
  <2>1. /\ slotOf \in [Caller -> Places] /\ waiters \in Seq(Caller)
        /\ \A i, j \in 1..Len(waiters) : waiters[i] = waiters[j] => i = j
        /\ \A i \in 1..Len(waiters) : slotOf[waiters[i]] = "waits"
        /\ \A x \in Caller : slotOf[x] = "waits" => \E i \in 1..Len(waiters) : waiters[i] = x
    BY DEF SlotsInvariant, SlotsGood, Sleepers
  <2>2. DOMAIN waiters = 1..Len(waiters) /\ \A i \in 1..Len(waiters) : waiters[i] \in Caller
    BY <2>1
  <2>3. IsInjective(waiters)
    BY <2>1, <2>2 DEF IsInjective
  <2>4. Range(waiters) = {c \in Caller : slotOf[c] = "waits"}
    BY <2>1, <2>2 DEF Range
  <2> QED
    BY <2>1, <2>3, <2>4 DEF TailTypeOK, Places
<1> QED
  BY <1>1, <1>2, PoolInvariantLemma, SlotsInvariantLemma, PTL

(* Origins that share hosts and turns that share relays stay within the    *)
(* cap, and one that waits for a slot is not forgotten while it could have *)
(* one: for any origins, callers, caps, faults and orders of the wake-ups. *)
THEOREM SlotsAlwaysShared == PoolSpec /\ TailSpec => []SlotsShared
<1>1. PoolInvariant /\ SlotsInvariant => SlotsShared
  BY PoolOK, SlotsOK DEF SlotsShared
<1> QED
  BY <1>1, PoolInvariantLemma, SlotsInvariantLemma, PTL

-----------------------------------------------------------------------------
(* The unread ledger of a conversation. A prompt owns what it claimed and, *)
(* before it is stamped, what its process rendered. A message that is      *)
(* unread is owned only by the turn that may still be answered and by turns*)
(* that never will be, so a later prompt never repeats what was answered.  *)

LedgerRows == [row : Nat \ {0}, id : Msg, at : Nat, read : BOOLEAN]
Inbound == [state : {"none", "context", "pending", "done"}, role : {"none", "trigger", "steer"},
            turn : {"none", "bound", "accepted", "done"}, op : Msg \union {0}, epoch : Nat, at : Nat]
Claims == [sent : BOOLEAN, ids : SUBSET Msg]
Lives == [op : Msg, ids : SUBSET Msg, rev : Nat \union {-1}, told : SUBSET Msg, retired : BOOLEAN]
RowsOK == IsFiniteSet(ctx) /\ ctx \subseteq LedgerRows
NotesOK ==
  /\ floor \in [at : Nat, row : Nat] /\ omit \in [pending : Nat, rev : Nat]
  /\ now \in Nat /\ omitted \subseteq Msg /\ untold \subseteq Msg
TurnsTyped ==
  /\ inb \in [Msg -> Inbound] /\ claim \in [Msg -> Claims] /\ heard \in [Msg -> SUBSET Msg]
  /\ failed \subseteq Msg /\ escalated \subseteq Msg /\ landed \subseteq Msg /\ answered \subseteq Msg
  /\ epochNow \in Nat
LivesOK == live \subseteq Lives
Typed == RowsOK /\ NotesOK /\ TurnsTyped /\ LivesOK

(* The life of a message.                                                  *)
Sent(m) == inb[m].role = "trigger"
IsRunning(m) == Sent(m) /\ inb[m].turn \in {"bound", "accepted"}
TriggerOK(m) ==
  Sent(m) => /\ inb[m].op = m /\ inb[m].epoch <= epochNow
             /\ \/ inb[m].turn \in {"bound", "accepted"} /\ inb[m].state = "pending"
                \/ inb[m].turn = "done" /\ inb[m].state = "done"
             /\ inb[m].turn # "bound" => m \in landed
SteerOK(m) ==
  inb[m].role = "steer" =>
     LET o == inb[m].op IN
     /\ o \in Msg /\ Sent(o) /\ (o \in landed \/ o \in escalated)
     /\ \/ inb[m].turn = "bound" /\ inb[m].state = "pending" /\ o \in landed /\ inb[o].turn # "bound"
        \/ inb[m].turn = "done" /\ inb[m].state = "done"
     /\ heard[m] # {} \/ o \in escalated
     /\ inb[m].turn = "bound" => heard[m] # {}
RestOK(m) == inb[m].role = "none" => inb[m].turn = "none" /\ inb[m].op = 0
ClaimOK(o) ==
  /\ claim[o].ids \subseteq Received
  /\ IF claim[o].sent THEN o \in claim[o].ids /\ Sent(o) ELSE claim[o].ids = {}
  /\ o \in landed => claim[o].sent /\ \A m \in claim[o].ids : o \in heard[m]
  /\ o \in escalated => claim[o].sent
  /\ o \in answered => Sent(o) /\ inb[o].turn \in {"accepted", "done"}
LiveOK(l) ==
  /\ IsRunning(l.op) /\ l.op \in l.ids /\ l.ids \subseteq Received
  /\ claim[l.op].sent => claim[l.op].ids \subseteq l.ids /\ l.ids \subseteq SentIds(l.op)
Lifecycles ==
  /\ \A l \in live : LiveOK(l)
  /\ \A k, l \in live : k.op = l.op => k = l
OneCurrent ==
  \A m, k \in Msg : IsRunning(m) /\ IsRunning(k) /\ inb[m].epoch = epochNow /\ inb[k].epoch = epochNow => m = k
RowsReceived == \A r \in ctx : r.id \in Received
Turns == \A m \in Msg : TriggerOK(m) /\ SteerOK(m) /\ RestOK(m) /\ ClaimOK(m)
TurnsGo == Turns /\ Lifecycles /\ OneCurrent /\ RowsReceived

(* What a prompt owns, the turns that may still be answered and those that *)
(* never will be, and what no step takes back.                             *)
Owns(o, m) == m \in claim[o].ids \/ (~claim[o].sent /\ \E l \in live : l.op = o /\ m \in l.ids)
Open(o) == IsRunning(o) /\ inb[o].epoch = epochNow /\ o \notin answered
Unanswered(o) == inb[o].turn = "done" /\ o \notin answered
StaysTold ==
  /\ \A k \in Msg : heard[k] \subseteq heard'[k] /\ (Unanswered(k) => Unanswered(k)')
  /\ \A k \in InDoubt : k \in InDoubt' /\ SentIds(k) \subseteq SentIds(k)'
StaysOwned == \A k, m \in Msg : Owns(k, m)' => Owns(k, m)

LEMMA BoundsNat == {MaxMessages, MaxNow, MaxEpochs, Relevance, Retention, Limit, Late} \subseteq Nat /\ Limit > 0
  BY ContextLedgerAssumption

LEMMA NoZero == 0 \notin Msg
  BY DEF Msg

LEMMA ReceiveTurns ==
  ASSUME Typed, TurnsGo, NEW m \in Msg, NEW at \in Nat, NEW e \in BOOLEAN, ReceiveMessage(m, at, e)
  PROVE  TurnsTyped' /\ LivesOK' /\ TurnsGo' /\ StaysTold /\ StaysOwned
<1>1. /\ UNCHANGED <<claim, failed, escalated, epochNow, live, landed, heard, answered>>
      /\ inb[m].state = "none"
  BY DEF ReceiveMessage
<1>2. inb[m].role = "none"
  BY <1>1 DEF TurnsGo, Turns, TriggerOK, SteerOK, Sent, Typed, TurnsTyped, Inbound
<1>3. PICK s \in {"pending", "context"} :
        /\ inb'[m] = [state |-> s, role |-> "none", turn |-> "none", op |-> 0, epoch |-> 0, at |-> at]
        /\ \A k \in Msg : k # m => inb'[k] = inb[k]
        /\ inb' \in [Msg -> Inbound]
  <2> PICK s \in {"pending", "context"} : inb' = [inb EXCEPT ![m] = [NoMessage EXCEPT !.state = s, !.at = at]]
    BY Zenon DEF ReceiveMessage
  <2>1. /\ inb'[m] = [state |-> s, role |-> "none", turn |-> "none", op |-> 0, epoch |-> 0, at |-> at]
        /\ \A k \in Msg : k # m => inb'[k] = inb[k]
        /\ inb' \in [Msg -> Inbound]
    BY DEF NoMessage, Typed, TurnsTyped, Inbound
  <2> QED
    BY <2>1
<1>4. TurnsTyped'
  BY <1>1, <1>3 DEF Typed, TurnsTyped
<1>5. Received \subseteq Received' /\ \A k \in Msg : Sent(k)' <=> Sent(k)
  BY <1>1, <1>2, <1>3 DEF Received, Sent
<1>6. ASSUME NEW k \in Msg PROVE TriggerOK(k)' /\ RestOK(k)'
  BY <1>1, <1>2, <1>3 DEF TurnsGo, Turns, TriggerOK, RestOK, Sent
<1>7. ASSUME NEW k \in Msg PROVE SteerOK(k)'
  BY <1>1, <1>2, <1>3 DEF TurnsGo, Turns, SteerOK, Sent
<1>8. ASSUME NEW k \in Msg PROVE ClaimOK(k)'
  BY <1>1, <1>2, <1>3, <1>5 DEF TurnsGo, Turns, ClaimOK, Sent
<1>9. Lifecycles'
  <2>1. ASSUME NEW k \in Msg PROVE IsRunning(k)' <=> IsRunning(k)
    BY <1>2, <1>3 DEF IsRunning, Sent
  <2>2. ASSUME NEW k \in Msg PROVE SentIds(k) \subseteq SentIds(k)'
    BY <1>1, <1>2, <1>3 DEF SentIds
  <2>3. ASSUME NEW l \in live PROVE LiveOK(l)'
    BY <1>1, <1>5, <2>1, <2>2 DEF TurnsGo, Lifecycles, LiveOK, Typed, LivesOK, Lives
  <2> QED
    BY <1>1, <2>3 DEF TurnsGo, Lifecycles
<1>10. OneCurrent'
  BY <1>1, <1>3 DEF TurnsGo, OneCurrent, IsRunning, Sent
<1>11. RowsReceived'
  BY <1>3, <1>5 DEF TurnsGo, RowsReceived, ReceiveMessage, Received
<1>12. StaysTold
  BY <1>1, <1>2, <1>3 DEF StaysTold, Unanswered, InDoubt, SentIds, Sent, TurnsGo, Turns, TriggerOK, SteerOK, RestOK
<1>13. StaysOwned
  BY <1>1 DEF StaysOwned, Owns
<1> QED
  BY <1>12, <1>13, <1>1, <1>4, <1>6, <1>7, <1>8, <1>9, <1>10, <1>11 DEF TurnsGo, Turns, Typed, LivesOK

LEMMA DispatchGoing ==
  ASSUME Typed, TurnsGo, NEW m \in Msg, Dispatch(m), NotesOK'
  PROVE  TurnsTyped' /\ LivesOK' /\ Turns' /\ Lifecycles' /\ OneCurrent' /\ StaysTold
         /\ \A k, j \in Msg : Owns(k, j)' => k = m \/ Owns(k, j)
<1>1. /\ UNCHANGED <<claim, failed, escalated, epochNow, landed, heard, answered>>
      /\ \A k \in Nonterminal : inb[k].epoch < epochNow
      /\ inb[m].state = "pending" /\ inb[m].turn = "none"
      /\ inb' = [inb EXCEPT ![m].role = "trigger", ![m].turn = "bound", ![m].op = m, ![m].epoch = epochNow]
  BY DEF Dispatch
<1>2. /\ inb' \in [Msg -> Inbound]
      /\ inb'[m].role = "trigger" /\ inb'[m].turn = "bound" /\ inb'[m].op = m /\ inb'[m].epoch = epochNow
      /\ inb'[m].state = "pending"
      /\ \A k \in Msg : k # m => inb'[k] = inb[k]
  BY <1>1 DEF Typed, TurnsTyped, Inbound
<1>3. inb[m].role = "none" /\ ~claim[m].sent /\ m \notin landed
  BY <1>1 DEF TurnsGo, Turns, TriggerOK, SteerOK, ClaimOK, Sent, Typed, TurnsTyped, Inbound
<1>4. \A l \in live : l.op # m
  BY <1>3 DEF TurnsGo, Lifecycles, LiveOK, IsRunning, Sent
<1>5. PICK new \in Lives : /\ new.op = m /\ m \in new.ids /\ new.ids \subseteq Received
                           /\ live' = live \union {new}
  <2> DEFINE n == [op |-> m, ids |-> Ids(UnreadWindow(m)) \union {m}, rev |-> omit'.rev, told |-> untold', retired |-> FALSE]
  <2>1. Ids(UnreadWindow(m)) \subseteq Received
    BY DEF Ids, UnreadWindow, Eligible, Unread, TurnsGo, RowsReceived
  <2>2. Received \subseteq Msg /\ m \in Received
    BY <1>1 DEF Received
  <2>3. omit'.rev \in Nat /\ untold' \subseteq Msg
    BY DEF NotesOK
  <2>4. n \in Lives /\ n.op = m /\ m \in n.ids /\ n.ids \subseteq Received
    BY <2>1, <2>2, <2>3 DEF Lives
  <2>5. live' = live \union {n}
    BY DEF Dispatch
  <2> QED
    BY <2>4, <2>5
<1>6. Received' = Received
  BY <1>1, <1>2 DEF Received
<1>7. TurnsTyped' /\ LivesOK'
  BY <1>1, <1>2, <1>5 DEF Typed, TurnsTyped, LivesOK
<1>8. ASSUME NEW k \in Msg PROVE TriggerOK(k)' /\ RestOK(k)'
  BY <1>1, <1>2, <1>3 DEF TurnsGo, Turns, TriggerOK, RestOK, Sent, Typed, TurnsTyped
<1>9. ASSUME NEW k \in Msg PROVE SteerOK(k)'
  BY <1>1, <1>2, <1>3 DEF TurnsGo, Turns, SteerOK, Sent
<1>10. ASSUME NEW k \in Msg PROVE ClaimOK(k)'
  BY <1>1, <1>2, <1>3, <1>6 DEF TurnsGo, Turns, ClaimOK, Sent
<1>11. Lifecycles'
  <2>1. ASSUME NEW k \in Msg, k # m PROVE (IsRunning(k)' <=> IsRunning(k)) /\ SentIds(k) \subseteq SentIds(k)'
    BY <1>1, <1>2, <1>3, <2>1 DEF IsRunning, Sent, SentIds
  <2>2. ASSUME NEW l \in live PROVE LiveOK(l)'
    BY <1>1, <1>4, <1>6, <2>1 DEF TurnsGo, Lifecycles, LiveOK, Typed, LivesOK, Lives
  <2>3. LiveOK(new)'
    BY <1>1, <1>2, <1>3, <1>5, <1>6 DEF LiveOK, IsRunning, Sent
  <2> QED
    BY <1>1, <1>4, <1>5, <2>2, <2>3 DEF TurnsGo, Lifecycles
<1>12. OneCurrent'
  <2>1. ASSUME NEW k \in Msg, IsRunning(k), k # m PROVE inb[k].epoch # epochNow
    BY <1>1, <2>1 DEF IsRunning, Sent, Nonterminal, Typed, TurnsTyped, Inbound
  <2> QED
    BY <1>1, <1>2, <2>1 DEF OneCurrent, IsRunning, Sent
<1>13. StaysTold
  BY <1>1, <1>2, <1>3 DEF StaysTold, Unanswered, InDoubt, SentIds
<1>14. ASSUME NEW k \in Msg, NEW j \in Msg, Owns(k, j)', k # m PROVE Owns(k, j)
  BY <1>1, <1>5, <1>14 DEF Owns
<1> QED
  BY <1>13, <1>14, <1>7, <1>8, <1>9, <1>10, <1>11, <1>12 DEF Turns

LEMMA StampGoing ==
  ASSUME Typed, TurnsGo, NEW l \in live, Stamp(l)
  PROVE  TurnsTyped' /\ LivesOK' /\ TurnsGo' /\ StaysTold /\ StaysOwned
<1>1. /\ UNCHANGED <<ctx, inb, failed, escalated, epochNow, live, landed, heard, answered>>
      /\ inb[l.op].turn = "bound" /\ ~claim[l.op].sent
      /\ claim' = [claim EXCEPT ![l.op] = [sent |-> TRUE, ids |-> l.ids]]
  BY DEF Stamp, unreadVars
<1>2. l.op \in Msg /\ l.ids \subseteq Received /\ l.op \in l.ids /\ IsRunning(l.op)
  BY DEF Typed, LivesOK, Lives, TurnsGo, Lifecycles, LiveOK
<1>3. /\ claim'[l.op].sent /\ claim'[l.op].ids = l.ids
      /\ \A k \in Msg : k # l.op => claim'[k] = claim[k]
      /\ claim' \in [Msg -> Claims]
  BY <1>1, <1>2 DEF Typed, TurnsTyped, Claims, Received
<1>4. ASSUME NEW k \in Msg
      PROVE  /\ TriggerOK(k)' /\ SteerOK(k)' /\ RestOK(k)' /\ (IsRunning(k)' <=> IsRunning(k))
             /\ SentIds(k)' = IF k = l.op THEN SentIds(k) \union l.ids ELSE SentIds(k)
  <2>1. TriggerOK(k)' /\ SteerOK(k)' /\ RestOK(k)' /\ (IsRunning(k)' <=> IsRunning(k))
    BY <1>1 DEF TurnsGo, Turns, TriggerOK, SteerOK, RestOK, Sent, IsRunning
  <2>2. SentIds(k)' = IF k = l.op THEN SentIds(k) \union l.ids ELSE SentIds(k)
    BY <1>1, <1>2, <1>3 DEF SentIds, TurnsGo, Turns, ClaimOK
  <2> QED
    BY <2>1, <2>2
<1>5. Received' = Received
  BY <1>1 DEF Received
<1>6. ASSUME NEW k \in Msg PROVE ClaimOK(k)'
  BY <1>1, <1>2, <1>3, <1>5 DEF TurnsGo, Turns, ClaimOK, Sent, IsRunning
<1>7. Lifecycles'
  <2>1. ASSUME NEW k \in live PROVE LiveOK(k)'
    <3>1. k.op \in Msg /\ (k.op = l.op => k = l)
      BY DEF Typed, LivesOK, Lives, TurnsGo, Lifecycles
    <3> QED
      BY <1>1, <1>3, <1>4, <1>5, <3>1 DEF TurnsGo, Lifecycles, LiveOK
  <2> QED
    BY <1>1, <2>1 DEF TurnsGo, Lifecycles
<1>8. OneCurrent' /\ RowsReceived'
  BY <1>1, <1>5 DEF TurnsGo, OneCurrent, IsRunning, Sent, RowsReceived
<1>9. StaysTold
  BY <1>1, <1>3, <1>4 DEF StaysTold, Unanswered, InDoubt
<1>10. StaysOwned
  BY <1>1, <1>2, <1>3 DEF StaysOwned, Owns
<1> QED
  BY <1>9, <1>10, <1>1, <1>3, <1>4, <1>6, <1>7, <1>8 DEF TurnsGo, Turns, Typed, TurnsTyped, LivesOK

LEMMA LandGoing ==
  ASSUME Typed, TurnsGo, NEW o \in Msg, Land(o)
  PROVE  TurnsTyped' /\ LivesOK' /\ TurnsGo' /\ StaysTold /\ StaysOwned
<1>1. /\ UNCHANGED <<ctx, inb, claim, failed, escalated, epochNow, live, answered>>
      /\ inb[o].turn = "bound" /\ claim[o].sent
      /\ landed' = landed \union {o}
      /\ heard' = [m \in Msg |-> IF m \in claim[o].ids THEN heard[m] \union {o} ELSE heard[m]]
  BY DEF Land, unreadVars
<1>2. /\ heard' \in [Msg -> SUBSET Msg]
      /\ \A m \in Msg : heard[m] \subseteq heard'[m] /\ (m \in claim[o].ids => o \in heard'[m])
  BY <1>1 DEF Typed, TurnsTyped
<1>3. ASSUME NEW k \in Msg PROVE TriggerOK(k)' /\ SteerOK(k)' /\ RestOK(k)'
  BY <1>1, <1>2 DEF TurnsGo, Turns, TriggerOK, SteerOK, RestOK, Sent
<1>4. ASSUME NEW k \in Msg PROVE ClaimOK(k)'
  BY <1>1, <1>2 DEF TurnsGo, Turns, ClaimOK, Sent, Received
<1>5. Lifecycles' /\ OneCurrent' /\ RowsReceived'
  BY <1>1 DEF TurnsGo, Lifecycles, LiveOK, OneCurrent, IsRunning, Sent, SentIds, RowsReceived, Received
<1>6. StaysTold
  BY <1>1, <1>2 DEF StaysTold, Unanswered, InDoubt, SentIds
<1>7. StaysOwned
  BY <1>1 DEF StaysOwned, Owns
<1> QED
  BY <1>6, <1>7, <1>1, <1>2, <1>3, <1>4, <1>5 DEF TurnsGo, Turns, Typed, TurnsTyped, LivesOK

(* A turn that takes the rows of its prompt, dies with its process, is     *)
(* adopted, or is of no concern to the clock and to maintenance.           *)
LEMMA AsideGoing ==
  ASSUME Typed, TurnsGo, UNCHANGED <<inb, claim, failed, escalated, epochNow, landed, heard>>, live' \subseteq live,
         answered' \subseteq answered \union {k \in Msg : Sent(k) /\ inb[k].turn = "accepted"},
         \A r \in ctx' : \E s \in ctx : s.id = r.id
  PROVE  TurnsTyped' /\ LivesOK' /\ TurnsGo' /\ StaysTold /\ StaysOwned
<1>1. TurnsTyped' /\ LivesOK'
  BY DEF Typed, TurnsTyped, LivesOK
<1>2. ASSUME NEW k \in Msg PROVE TriggerOK(k)' /\ SteerOK(k)' /\ RestOK(k)'
  BY DEF TurnsGo, Turns, TriggerOK, SteerOK, RestOK, Sent
<1>3. ASSUME NEW k \in Msg PROVE ClaimOK(k)'
  BY DEF TurnsGo, Turns, ClaimOK, Sent, Received
<1>4. Lifecycles' /\ OneCurrent'
  BY DEF TurnsGo, Lifecycles, LiveOK, OneCurrent, IsRunning, Sent, SentIds, Received
<1>5. RowsReceived'
  BY DEF TurnsGo, RowsReceived, Received
<1>6. StaysTold
  BY DEF StaysTold, Unanswered, InDoubt, SentIds, Sent
<1>7. StaysOwned
  BY DEF StaysOwned, Owns
<1> QED
  BY <1>6, <1>7, <1>1, <1>2, <1>3, <1>4, <1>5 DEF TurnsGo, Turns

LEMMA AcceptedRow ==
  ASSUME NEW r \in Inbound
  PROVE  LET a == [r EXCEPT !.turn = "accepted"]
         IN  a \in Inbound /\ a.turn = "accepted" /\ a.role = r.role /\ a.op = r.op /\ a.state = r.state /\ a.epoch = r.epoch
  BY DEF Inbound

LEMMA AcceptGoing ==
  ASSUME Typed, TurnsGo, NEW l \in live, Accept(l)
  PROVE  TurnsTyped' /\ LivesOK' /\ TurnsGo' /\ StaysTold /\ StaysOwned
<1> DEFINE o == l.op
           Mine(m) == m # o /\ inb[m].op = o /\ inb[m].role = "steer" /\ inb[m].turn = "bound"
<1>1. /\ UNCHANGED <<ctx, claim, failed, escalated, epochNow, live, landed, heard, answered>>
      /\ o \in landed /\ inb[o].turn = "bound"
  BY DEF Accept, unreadVars
<1>2. o \in Msg /\ IsRunning(o)
  BY DEF Typed, LivesOK, Lives, TurnsGo, Lifecycles, LiveOK
<1>3. \A m \in Msg : ~Mine(m)
  BY <1>1 DEF TurnsGo, Turns, SteerOK
<1>4. /\ inb' \in [Msg -> Inbound]
      /\ inb'[o].role = inb[o].role /\ inb'[o].turn = "accepted" /\ inb'[o].op = inb[o].op
      /\ inb'[o].state = inb[o].state /\ inb'[o].epoch = inb[o].epoch
      /\ \A m \in Msg : m # o => inb'[m] = inb[m]
  <2>1. /\ inb' = [m \in Msg |-> inb'[m]] /\ inb'[o] = [inb[o] EXCEPT !.turn = "accepted"]
        /\ \A m \in Msg : m # o => inb'[m] = inb[m]
    BY <1>2, <1>3, Zenon DEF Accept
  <2>2. inb[o] \in Inbound
    BY <1>2 DEF Typed, TurnsTyped
  <2> DEFINE r == inb'[o]
  <2>3. r \in Inbound /\ r.turn = "accepted" /\ r.role = inb[o].role /\ r.op = inb[o].op /\ r.state = inb[o].state
        /\ r.epoch = inb[o].epoch
    BY <2>1, <2>2, AcceptedRow, Zenon
  <2>4. \A m \in Msg : inb'[m] \in Inbound
    BY <2>1, <2>3, Zenon DEF Typed, TurnsTyped
  <2>5. inb' \in [Msg -> Inbound]
    BY <2>1, <2>4, Zenon
  <2> QED
    BY <2>1, <2>3, <2>5, Zenon
<1> HIDE DEF o
<1>5. ASSUME NEW k \in Msg PROVE TriggerOK(k)' /\ SteerOK(k)' /\ RestOK(k)'
  BY <1>1, <1>2, <1>4 DEF TurnsGo, Turns, TriggerOK, SteerOK, RestOK, Sent, IsRunning
<1>6. ASSUME NEW k \in Msg
      PROVE  (Sent(k)' <=> Sent(k)) /\ (IsRunning(k)' <=> IsRunning(k)) /\ inb'[k].epoch = inb[k].epoch
             /\ SentIds(k)' = SentIds(k)
  BY <1>1, <1>2, <1>4 DEF Sent, IsRunning, SentIds
<1>7. Received' = Received
  BY <1>1, <1>2, <1>4 DEF Received
<1>8. ASSUME NEW k \in Msg PROVE ClaimOK(k)'
  BY <1>1, <1>4, <1>6, <1>7 DEF TurnsGo, Turns, ClaimOK
<1>9. Lifecycles'
  BY <1>1, <1>6, <1>7 DEF TurnsGo, Lifecycles, LiveOK, Typed, LivesOK, Lives
<1>10. OneCurrent' /\ RowsReceived'
  BY <1>1, <1>6, <1>7 DEF TurnsGo, OneCurrent, RowsReceived
<1>11. StaysTold
  BY <1>1, <1>4, <1>6 DEF StaysTold, Unanswered, InDoubt
<1>12. StaysOwned
  BY <1>1 DEF StaysOwned, Owns
<1> QED
  BY <1>11, <1>12, <1>1, <1>4, <1>5, <1>8, <1>9, <1>10 DEF TurnsGo, Turns, Typed, TurnsTyped, LivesOK

(* A turn that is over: completed or failed.                               *)
LEMMA SettledGoing ==
  ASSUME Typed, TurnsGo, NEW l \in live, inb' = Settled(l.op), live' = live \ {l}, inb[l.op].turn = "accepted",
         UNCHANGED <<claim, escalated, epochNow, landed, heard>>, failed' \subseteq Msg,
         answered' \subseteq answered \union {l.op}, \A r \in ctx' : \E s \in ctx : s.id = r.id
  PROVE  TurnsTyped' /\ LivesOK' /\ TurnsGo' /\ StaysTold /\ StaysOwned
<1> DEFINE o == l.op
<1>1. o \in Msg /\ IsRunning(o)
  BY DEF Typed, LivesOK, Lives, TurnsGo, Lifecycles, LiveOK
<1>2. /\ inb' \in [Msg -> Inbound]
      /\ inb'[o].role = inb[o].role /\ inb'[o].turn = "done" /\ inb'[o].op = inb[o].op
      /\ inb'[o].state = "done" /\ inb'[o].epoch = inb[o].epoch
      /\ \A m \in Msg : m # o => inb'[m] = inb[m]
  BY <1>1 DEF Typed, TurnsTyped, Inbound, Settled
<1>3. inb[o].turn = "accepted"
  OBVIOUS
<1> HIDE DEF o
<1>4. o \in landed
  BY <1>1 DEF o, TurnsGo, Turns, TriggerOK, IsRunning
<1>5. ASSUME NEW k \in Msg PROVE TriggerOK(k)' /\ SteerOK(k)' /\ RestOK(k)'
  BY <1>1, <1>2, <1>3, <1>4 DEF TurnsGo, Turns, TriggerOK, SteerOK, RestOK, Sent, IsRunning
<1>6. ASSUME NEW k \in Msg
      PROVE  (Sent(k)' <=> Sent(k)) /\ (IsRunning(k)' <=> IsRunning(k) /\ k # o) /\ inb'[k].epoch = inb[k].epoch
             /\ SentIds(k)' = SentIds(k)
  BY <1>1, <1>2, <1>3 DEF Sent, IsRunning, SentIds
<1>7. Received' = Received
  BY <1>1, <1>2, <1>3 DEF Received, TurnsGo, Turns, TriggerOK, IsRunning
<1>8. ASSUME NEW k \in Msg PROVE ClaimOK(k)'
  BY <1>1, <1>2, <1>3, <1>6, <1>7 DEF TurnsGo, Turns, ClaimOK, IsRunning, o
<1>9. Lifecycles'
  BY <1>6, <1>7 DEF o, TurnsGo, Lifecycles, LiveOK, Typed, LivesOK, Lives
<1>10. OneCurrent' /\ RowsReceived'
  BY <1>6, <1>7 DEF TurnsGo, OneCurrent, RowsReceived
<1>11. TurnsTyped' /\ LivesOK'
  BY <1>1, <1>2 DEF Typed, TurnsTyped, LivesOK, o
<1>12. StaysTold
  BY <1>1, <1>2, <1>3, <1>6 DEF StaysTold, Unanswered, InDoubt, o
<1>13. StaysOwned
  BY DEF StaysOwned, Owns
<1> QED
  BY <1>12, <1>13, <1>5, <1>8, <1>9, <1>10, <1>11 DEF TurnsGo, Turns

(* A message that becomes part of a running turn.                          *)
LEMMA SteeredGoing ==
  ASSUME Typed, TurnsGo, NEW m \in Msg, NEW o \in Msg, NEW turn \in {"bound", "done"}, NEW e \in Nat,
         inb[m].state = "pending", inb[m].turn = "none", Sent(o), o \in landed,
         turn = "bound" => inb[o].turn # "bound",
         /\ inb'[m].role = "steer" /\ inb'[m].turn = turn /\ inb'[m].op = o /\ inb'[m].epoch = e
         /\ inb'[m].state = IF turn = "bound" THEN "pending" ELSE "done",
         inb' \in [Msg -> Inbound], \A k \in Msg : k # m => inb'[k] = inb[k],
         heard' \in [Msg -> SUBSET Msg], heard'[m] # {}, \A k \in Msg : heard[k] \subseteq heard'[k],
         UNCHANGED <<claim, failed, escalated, epochNow, live, landed, answered>>,
         \A r \in ctx' : \E s \in ctx : s.id = r.id
  PROVE  TurnsTyped' /\ LivesOK' /\ TurnsGo' /\ StaysTold /\ StaysOwned
<1>1. inb[m].role = "none"
  BY DEF TurnsGo, Turns, TriggerOK, SteerOK, Sent, Typed, TurnsTyped, Inbound
<1>2. m # o
  BY <1>1 DEF Sent
<1>3. ASSUME NEW k \in Msg
      PROVE  (Sent(k)' <=> Sent(k)) /\ (IsRunning(k)' <=> IsRunning(k)) /\ (Sent(k) => inb'[k] = inb[k])
             /\ SentIds(k) \subseteq SentIds(k)'
  BY <1>1 DEF Sent, IsRunning, SentIds
<1>4. Received' = Received
  BY DEF Received
<1>5. ASSUME NEW k \in Msg PROVE TriggerOK(k)' /\ RestOK(k)'
  BY <1>1, <1>3 DEF TurnsGo, Turns, TriggerOK, RestOK
<1>6. ASSUME NEW k \in Msg PROVE SteerOK(k)'
  BY <1>1, <1>2, <1>3 DEF TurnsGo, Turns, SteerOK
<1>7. ASSUME NEW k \in Msg PROVE ClaimOK(k)'
  BY <1>3, <1>4 DEF TurnsGo, Turns, ClaimOK, Typed, TurnsTyped, Claims
<1>8. Lifecycles'
  BY <1>3, <1>4 DEF TurnsGo, Lifecycles, LiveOK, Typed, LivesOK, Lives
<1>9. OneCurrent' /\ RowsReceived'
  BY <1>3, <1>4 DEF TurnsGo, OneCurrent, RowsReceived, IsRunning
<1>10. TurnsTyped' /\ LivesOK'
  BY DEF Typed, TurnsTyped, LivesOK
<1>11. StaysTold
  BY <1>1, <1>3 DEF StaysTold, Unanswered, InDoubt
<1>12. StaysOwned
  BY DEF StaysOwned, Owns
<1> QED
  BY <1>11, <1>12, <1>5, <1>6, <1>7, <1>8, <1>9, <1>10 DEF TurnsGo, Turns

LEMMA SteerAcceptedGoing ==
  ASSUME Typed, TurnsGo, NEW l \in live, NEW m \in Msg, SteerAccepted(l, m), \A r \in ctx' : \E s \in ctx : s.id = r.id
  PROVE  TurnsTyped' /\ LivesOK' /\ TurnsGo' /\ StaysTold /\ StaysOwned
<1>1. /\ UNCHANGED <<claim, failed, escalated, epochNow, live, landed, heard, answered>>
      /\ inb[m].role = "steer" /\ inb[m].turn = "bound"
      /\ inb' = [inb EXCEPT ![m].state = "done", ![m].turn = "done"]
  BY DEF SteerAccepted
<1>2. /\ inb' \in [Msg -> Inbound]
      /\ inb'[m].role = "steer" /\ inb'[m].turn = "done" /\ inb'[m].op = inb[m].op /\ inb'[m].state = "done"
      /\ inb'[m].epoch = inb[m].epoch
      /\ \A k \in Msg : k # m => inb'[k] = inb[k]
  BY <1>1 DEF Typed, TurnsTyped, Inbound
<1>3. ASSUME NEW k \in Msg
      PROVE  (Sent(k)' <=> Sent(k)) /\ (IsRunning(k)' <=> IsRunning(k)) /\ (Sent(k) => inb'[k] = inb[k])
             /\ SentIds(k) \subseteq SentIds(k)'
  BY <1>1, <1>2 DEF Sent, IsRunning, SentIds
<1>4. Received' = Received
  BY <1>1, <1>2 DEF Received, TurnsGo, Turns, SteerOK
<1>5. ASSUME NEW k \in Msg PROVE TriggerOK(k)' /\ RestOK(k)'
  BY <1>1, <1>2, <1>3 DEF TurnsGo, Turns, TriggerOK, RestOK
<1>6. ASSUME NEW k \in Msg PROVE SteerOK(k)'
  BY <1>1, <1>2, <1>3 DEF TurnsGo, Turns, SteerOK
<1>7. ASSUME NEW k \in Msg PROVE ClaimOK(k)'
  BY <1>1, <1>3, <1>4 DEF TurnsGo, Turns, ClaimOK
<1>8. Lifecycles'
  BY <1>1, <1>3, <1>4 DEF TurnsGo, Lifecycles, LiveOK, Typed, LivesOK, Lives
<1>9. OneCurrent' /\ RowsReceived'
  BY <1>1, <1>3, <1>4 DEF TurnsGo, OneCurrent, RowsReceived, IsRunning
<1>10. TurnsTyped' /\ LivesOK'
  BY <1>1, <1>2 DEF Typed, TurnsTyped, LivesOK
<1>11. StaysTold
  BY <1>1, <1>2, <1>3 DEF StaysTold, Unanswered, InDoubt
<1>12. StaysOwned
  BY <1>1 DEF StaysOwned, Owns
<1> QED
  BY <1>11, <1>12, <1>5, <1>6, <1>7, <1>8, <1>9, <1>10 DEF TurnsGo, Turns

LEMMA UnboundRow ==
  ASSUME NEW r \in Inbound
  PROVE  LET a == [NoMessage EXCEPT !.state = "pending", !.at = r.at]
         IN  a \in Inbound /\ a.state = "pending" /\ a.turn = "none" /\ a.role = "none" /\ a.op = 0 /\ a.epoch = 0
  BY DEF Inbound, NoMessage

LEMMA RequeueGoing ==
  ASSUME Typed, TurnsGo, NEW o \in Msg, Requeue(o)
  PROVE  TurnsTyped' /\ LivesOK' /\ TurnsGo' /\ StaysTold /\ StaysOwned
<1>1. /\ UNCHANGED <<ctx, failed, escalated, epochNow, landed, heard, answered>>
      /\ inb[o].turn = "bound" /\ o \notin landed /\ o \notin escalated
      /\ claim' = [claim EXCEPT ![o] = NoClaim] /\ live' = {l \in live : l.op # o}
  BY DEF Requeue, unreadVars
<1>2. \A m \in Msg : inb[m].state = "pending" /\ inb[m].op = o => m = o /\ Sent(o)
  BY <1>1, NoZero DEF TurnsGo, Turns, TriggerOK, SteerOK, RestOK, Sent, Typed, TurnsTyped, Inbound
<1>3. CASE ~Sent(o)
  <2>1. inb' = inb
    BY <1>2, <1>3, Zenon DEF Requeue, Unbound, Typed, TurnsTyped
  <2>2. claim' = claim
    BY <1>1, <1>3 DEF TurnsGo, Turns, ClaimOK, NoClaim, Typed, TurnsTyped, Claims
  <2> QED
    BY <1>1, <2>1, <2>2, AsideGoing
<1> SUFFICES ASSUME Sent(o) PROVE TurnsTyped' /\ LivesOK' /\ TurnsGo' /\ StaysTold /\ StaysOwned
  BY <1>3
<1>4. inb[o].state = "pending" /\ inb[o].op = o /\ inb[o].role = "trigger"
  BY <1>1 DEF TurnsGo, Turns, TriggerOK, Sent
<1>5. /\ inb' \in [Msg -> Inbound]
      /\ inb'[o].state = "pending" /\ inb'[o].turn = "none" /\ inb'[o].role = "none" /\ inb'[o].op = 0
      /\ \A m \in Msg : m # o => inb'[m] = inb[m]
  <2>1. /\ inb' = [m \in Msg |-> inb'[m]] /\ inb'[o] = [NoMessage EXCEPT !.state = "pending", !.at = inb[o].at]
        /\ \A m \in Msg : m # o => inb'[m] = inb[m]
    BY <1>2, <1>4, Zenon DEF Requeue, Unbound
  <2>2. inb[o] \in Inbound
    BY DEF Typed, TurnsTyped
  <2>3. /\ inb'[o] \in Inbound
        /\ inb'[o].state = "pending" /\ inb'[o].turn = "none" /\ inb'[o].role = "none" /\ inb'[o].op = 0
    BY <2>1, <2>2, UnboundRow, Zenon
  <2>4. \A m \in Msg : inb'[m] \in Inbound
    BY <2>1, <2>3, Zenon DEF Typed, TurnsTyped
  <2>5. inb' \in [Msg -> Inbound]
    BY <2>1, <2>4, Zenon
  <2> QED
    BY <2>1, <2>3, <2>5, Zenon
<1>6. /\ claim' \in [Msg -> Claims] /\ ~claim'[o].sent /\ claim'[o].ids = {}
      /\ \A k \in Msg : k # o => claim'[k] = claim[k]
  BY <1>1 DEF Typed, TurnsTyped, Claims, NoClaim
<1>7. ASSUME NEW k \in Msg
      PROVE  (Sent(k)' <=> Sent(k) /\ k # o) /\ (IsRunning(k)' <=> IsRunning(k) /\ k # o)
             /\ (k # o => SentIds(k)' = SentIds(k))
  BY <1>4, <1>5, <1>6 DEF Sent, IsRunning, SentIds
<1>8. Received' = Received
  BY <1>4, <1>5 DEF Received
<1>9. ASSUME NEW k \in Msg PROVE TriggerOK(k)' /\ SteerOK(k)' /\ RestOK(k)'
  BY <1>1, <1>5, <1>7 DEF TurnsGo, Turns, TriggerOK, SteerOK, RestOK, Sent
<1>10. ASSUME NEW k \in Msg PROVE ClaimOK(k)'
  BY <1>1, <1>5, <1>6, <1>7, <1>8 DEF TurnsGo, Turns, ClaimOK
<1>11. Lifecycles'
  <2>1. ASSUME NEW l \in live, l.op # o PROVE LiveOK(l)'
    <3>1. l.op \in Msg
      BY DEF Typed, LivesOK, Lives
    <3> QED
      BY <1>6, <1>7, <1>8, <2>1, <3>1 DEF TurnsGo, Lifecycles, LiveOK
  <2> QED
    BY <1>1, <2>1 DEF TurnsGo, Lifecycles
<1>12. OneCurrent' /\ RowsReceived'
  BY <1>1, <1>5, <1>7, <1>8 DEF TurnsGo, OneCurrent, RowsReceived
<1>13. StaysTold
  BY <1>1, <1>5, <1>6, <1>7 DEF StaysTold, Unanswered, InDoubt
<1>14. StaysOwned
  BY <1>1, <1>6 DEF StaysOwned, Owns
<1> QED
  BY <1>13, <1>14, <1>1, <1>5, <1>6, <1>9, <1>10, <1>11, <1>12 DEF TurnsGo, Turns, Typed, TurnsTyped, LivesOK

LEMMA AdoptGoing ==
  ASSUME Typed, TurnsGo, NEW o \in Msg, Adopt(o)
  PROVE  TurnsTyped' /\ LivesOK' /\ TurnsGo' /\ StaysTold /\ StaysOwned
<1>1. /\ UNCHANGED <<ctx, inb, claim, failed, escalated, epochNow, landed, heard, answered>>
      /\ claim[o].sent /\ \A l \in live : l.op # o
      /\ live' = live \union {[op |-> o, ids |-> SentIds(o), rev |-> -1, told |-> {},
                              retired |-> inb[o].epoch < epochNow]}
  BY DEF Adopt, unreadVars
<1>2. IsRunning(o)
  BY DEF Adopt, Nonterminal, IsRunning, Sent
<1>3. SentIds(o) \subseteq Received /\ claim[o].ids \subseteq SentIds(o) /\ o \in SentIds(o)
  <2>1. claim[o].ids \subseteq Received
    BY DEF TurnsGo, Turns, ClaimOK
  <2>2. o \in Received
    BY <1>2 DEF Received, TurnsGo, Turns, TriggerOK, IsRunning
  <2>3. \A m \in Msg : inb[m].role = "steer" => m \in Received
    BY DEF Received, TurnsGo, Turns, SteerOK
  <2> QED
    BY <2>1, <2>2, <2>3 DEF SentIds
<1>4. PICK n \in Lives : n.op = o /\ n.ids = SentIds(o) /\ live' = live \union {n}
  <2> DEFINE b == inb[o].epoch < epochNow
             n == [op |-> o, ids |-> SentIds(o), rev |-> -1, told |-> {}, retired |-> b]
  <2>1. b \in BOOLEAN
    OBVIOUS
  <2>2. SentIds(o) \in SUBSET Msg
    BY <1>3 DEF Received
  <2> HIDE DEF b
  <2>3. n \in Lives
    BY <2>1, <2>2 DEF Lives
  <2>4. live' = live \union {n}
    BY <1>1 DEF b
  <2> QED
    BY <2>3, <2>4
<1>5. ASSUME NEW k \in Msg PROVE TriggerOK(k)' /\ SteerOK(k)' /\ RestOK(k)' /\ ClaimOK(k)'
  BY <1>1 DEF TurnsGo, Turns, TriggerOK, SteerOK, RestOK, ClaimOK, Sent, Received
<1>6. Lifecycles'
  <2>1. ASSUME NEW l \in live \union {n} PROVE LiveOK(l)'
    BY <1>1, <1>2, <1>3, <1>4 DEF TurnsGo, Lifecycles, LiveOK, IsRunning, Sent, Received, SentIds
  <2> QED
    BY <1>1, <1>4, <2>1 DEF TurnsGo, Lifecycles
<1>7. OneCurrent' /\ RowsReceived'
  BY <1>1 DEF TurnsGo, OneCurrent, IsRunning, Sent, RowsReceived, Received
<1>8. StaysTold
  BY <1>1 DEF StaysTold, Unanswered, InDoubt, SentIds
<1>9. StaysOwned
  BY <1>1, <1>4 DEF StaysOwned, Owns
<1> QED
  BY <1>8, <1>9, <1>1, <1>4, <1>5, <1>6, <1>7 DEF TurnsGo, Turns, Typed, TurnsTyped, LivesOK

LEMMA ClosedIntoIs ==
  ASSUME NEW r \in Inbound, NEW o \in Msg, NEW e \in Nat
  PROVE  /\ ClosedInto(r, o, e) \in Inbound /\ ClosedInto(r, o, e).state = "done" /\ ClosedInto(r, o, e).turn = "done"
         /\ ClosedInto(r, o, e).role = "steer" /\ ClosedInto(r, o, e).op = o /\ ClosedInto(r, o, e).epoch = e
  BY DEF Inbound, ClosedInto

(* The lifecycles with some of them retired.                               *)
LEMMA RetiredLives ==
  ASSUME Typed, Lifecycles, NEW f, live' = {f[l] : l \in live},
         \A l \in live : f[l] = l \/ f[l] = [l EXCEPT !.retired = TRUE]
  PROVE  /\ LivesOK'
         /\ \A l \in live' : \E k \in live : l.op = k.op /\ l.ids = k.ids /\ l.rev = k.rev /\ l.told = k.told
         /\ \A k, l \in live' : k.op = l.op => k = l
<1>1. ASSUME NEW l \in live
      PROVE  f[l] \in Lives /\ f[l].op = l.op /\ f[l].ids = l.ids /\ f[l].rev = l.rev /\ f[l].told = l.told
  <2>1. l \in Lives
    BY DEF Typed, LivesOK
  <2>2. CASE f[l] = l
    BY <2>1, <2>2
  <2>3. CASE f[l] = [l EXCEPT !.retired = TRUE]
    BY <2>1, <2>3 DEF Lives
  <2> QED
    BY <2>2, <2>3
<1> QED
  BY <1>1 DEF LivesOK, Lifecycles

LEMMA EscalateGoing ==
  ASSUME Typed, TurnsGo, NEW o \in Msg, EscalateHold(o), \A r \in ctx' : \E s \in ctx : s.id = r.id
  PROVE  /\ TurnsTyped' /\ LivesOK' /\ TurnsGo' /\ StaysTold /\ StaysOwned
         /\ \A k \in Msg : (Sent(k) => inb'[k] = inb[k]) /\ SentIds(k) \subseteq SentIds(k)'
<1> DEFINE M(m) == m \in SentIds(o) /\ inb[m].state = "pending" /\ inb[m].turn = "none"
<1>1. /\ UNCHANGED <<claim, failed, landed, heard, answered>>
      /\ claim[o].sent /\ o \notin answered /\ o \notin escalated /\ inb[o].turn = "bound"
      /\ escalated' = escalated \union {o}
      /\ epochNow' = IF inb[o].epoch < epochNow THEN epochNow ELSE epochNow + 1
  BY DEF EscalateHold
<1>2. Sent(o) /\ inb[o] \in Inbound /\ inb[o].epoch \in Nat /\ epochNow \in Nat
  BY DEF EscalateHold, Nonterminal, Sent, Typed, TurnsTyped, Inbound
<1>3. \A m \in Msg : M(m) => inb[m].role = "none"
  BY DEF TurnsGo, Turns, TriggerOK, SteerOK, Sent, Typed, TurnsTyped, Inbound
<1>4. /\ inb' \in [Msg -> Inbound]
      /\ \A m \in Msg : M(m) => /\ inb'[m].role = "steer" /\ inb'[m].turn = "done" /\ inb'[m].op = o
                                /\ inb'[m].state = "done"
      /\ \A m \in Msg : ~M(m) => inb'[m] = inb[m]
  <2>1. /\ inb' = [m \in Msg |-> inb'[m]]
        /\ \A m \in Msg : M(m) => inb'[m] = ClosedInto(inb[m], o, inb[o].epoch)
        /\ \A m \in Msg : ~M(m) => inb'[m] = inb[m]
    BY Zenon DEF EscalateHold
  <2>2. \A m \in Msg : inb[m] \in Inbound
    BY DEF Typed, TurnsTyped
  <2>3. ASSUME NEW m \in Msg, M(m)
        PROVE  /\ inb'[m] \in Inbound /\ inb'[m].role = "steer" /\ inb'[m].turn = "done" /\ inb'[m].op = o
               /\ inb'[m].state = "done"
    <3>1. inb'[m] = ClosedInto(inb[m], o, inb[o].epoch)
      BY <2>1, <2>3, Zenon
    <3>2. /\ ClosedInto(inb[m], o, inb[o].epoch) \in Inbound /\ ClosedInto(inb[m], o, inb[o].epoch).state = "done"
          /\ ClosedInto(inb[m], o, inb[o].epoch).turn = "done" /\ ClosedInto(inb[m], o, inb[o].epoch).role = "steer"
          /\ ClosedInto(inb[m], o, inb[o].epoch).op = o
      BY <1>2, <2>2, ClosedIntoIs
    <3> QED
      BY <3>1, <3>2, Zenon
  <2> HIDE DEF M
  <2>4. \A m \in Msg : inb'[m] \in Inbound
    BY <2>1, <2>2, <2>3, Zenon
  <2>5. inb' \in [Msg -> Inbound]
    BY <2>1, <2>4, Zenon
  <2> QED
    BY <2>1, <2>3, <2>5, Zenon
<1>5. M(o) = FALSE
  BY <1>1
<1>6. \A m \in Msg : M(m) => inb[m].state = "pending"
  OBVIOUS
<1> HIDE DEF M
<1>7. ASSUME NEW k \in Msg
      PROVE  (Sent(k)' <=> Sent(k)) /\ (Sent(k) => inb'[k] = inb[k]) /\ (IsRunning(k)' <=> IsRunning(k))
             /\ SentIds(k) \subseteq SentIds(k)'
  BY <1>1, <1>3, <1>4 DEF Sent, IsRunning, SentIds
<1>8. Received' = Received
  BY <1>4, <1>6 DEF Received
<1>9. ASSUME NEW k \in Msg PROVE TriggerOK(k)' /\ RestOK(k)'
  <2>1. inb[k].epoch \in Nat
    BY DEF Typed, TurnsTyped, Inbound
  <2>2. epochNow <= epochNow' /\ epochNow' \in Nat
    BY <1>1, <1>2
  <2> QED
    BY <1>1, <1>2, <1>4, <1>7, <2>1, <2>2 DEF TurnsGo, Turns, TriggerOK, RestOK
<1>10. ASSUME NEW k \in Msg PROVE SteerOK(k)'
  <2>1. CASE M(k)
    BY <1>1, <1>2, <1>4, <1>7, <2>1 DEF SteerOK
  <2>2. CASE ~M(k)
    BY <1>1, <1>4, <1>7, <2>2 DEF TurnsGo, Turns, SteerOK
  <2> QED
    BY <2>1, <2>2
<1>11. ASSUME NEW k \in Msg PROVE ClaimOK(k)'
  BY <1>1, <1>7, <1>8 DEF TurnsGo, Turns, ClaimOK
<1>12. /\ LivesOK'
       /\ \A l \in live' : \E k \in live : l.op = k.op /\ l.ids = k.ids /\ l.rev = k.rev /\ l.told = k.told
       /\ \A k, l \in live' : k.op = l.op => k = l
  <2> DEFINE f == [l \in live |-> IF l.op = o THEN [l EXCEPT !.retired = TRUE] ELSE l]
  <2>1. live' = {f[l] : l \in live} /\ \A l \in live : f[l] = l \/ f[l] = [l EXCEPT !.retired = TRUE]
    BY Zenon DEF EscalateHold
  <2> HIDE DEF f
  <2> QED
    BY <2>1, RetiredLives DEF TurnsGo
<1>13. Lifecycles'
  BY <1>1, <1>7, <1>8, <1>12 DEF TurnsGo, Lifecycles, LiveOK, Typed, LivesOK, Lives
<1>14. OneCurrent'
  <2>1. ASSUME NEW k \in Msg, Sent(k) PROVE inb[k].epoch <= epochNow /\ inb[k].epoch \in Nat
    BY <2>1 DEF TurnsGo, Turns, TriggerOK, Typed, TurnsTyped, Inbound
  <2>2. CASE inb[o].epoch < epochNow
    BY <1>1, <1>7, <2>2 DEF TurnsGo, OneCurrent, IsRunning
  <2>3. CASE ~(inb[o].epoch < epochNow)
    BY <1>1, <1>2, <1>7, <2>1, <2>3 DEF OneCurrent, IsRunning
  <2> QED
    BY <2>2, <2>3
<1>15. RowsReceived'
  BY <1>8 DEF TurnsGo, RowsReceived
<1>16. TurnsTyped'
  BY <1>1, <1>2, <1>4 DEF Typed, TurnsTyped
<1>17. StaysTold
  BY <1>1, <1>4, <1>6, <1>7 DEF StaysTold, Unanswered, InDoubt
<1>18. StaysOwned
  BY <1>1, <1>12 DEF StaysOwned, Owns
<1> QED
  BY <1>17, <1>18, <1>7, <1>9, <1>10, <1>11, <1>12, <1>13, <1>14, <1>15, <1>16 DEF TurnsGo, Turns

LEMMA DiscardedRow ==
  ASSUME NEW r \in Inbound
  PROVE  LET a == [r EXCEPT !.state = "done"]
         IN  a \in Inbound /\ a.state = "done" /\ a.turn = r.turn /\ a.role = r.role /\ a.op = r.op /\ a.epoch = r.epoch
  BY DEF Inbound

LEMMA NewGoing ==
  ASSUME Typed, TurnsGo, NewConversation, \A r \in ctx' : \E s \in ctx : s.id = r.id
  PROVE  TurnsTyped' /\ LivesOK' /\ TurnsGo' /\ StaysTold /\ StaysOwned
<1> DEFINE M(m) == inb[m].state = "pending" /\ inb[m].turn = "none" /\ inb[m].at <= now
<1>1. UNCHANGED <<claim, escalated, landed, heard, answered>> /\ failed' = {} /\ epochNow' = epochNow + 1
  BY DEF NewConversation
<1>2. \A m \in Msg : M(m) => inb[m].role = "none" /\ inb[m].state # "none"
  BY DEF TurnsGo, Turns, TriggerOK, SteerOK, Sent, Typed, TurnsTyped, Inbound
<1>3. /\ inb' \in [Msg -> Inbound]
      /\ \A m \in Msg : M(m) => /\ inb'[m].role = inb[m].role /\ inb'[m].turn = inb[m].turn /\ inb'[m].op = inb[m].op
                                /\ inb'[m].state = "done"
      /\ \A m \in Msg : ~M(m) => inb'[m] = inb[m]
  <2>1. /\ inb' = [m \in Msg |-> inb'[m]]
        /\ \A m \in Msg : M(m) => inb'[m] = [inb[m] EXCEPT !.state = "done"]
        /\ \A m \in Msg : ~M(m) => inb'[m] = inb[m]
    BY Zenon DEF NewConversation
  <2>2. \A m \in Msg : inb[m] \in Inbound
    BY DEF Typed, TurnsTyped
  <2>3. ASSUME NEW m \in Msg, M(m)
        PROVE  /\ inb'[m] \in Inbound /\ inb'[m].role = inb[m].role /\ inb'[m].turn = inb[m].turn
               /\ inb'[m].op = inb[m].op /\ inb'[m].state = "done"
    BY <2>1, <2>2, <2>3, DiscardedRow, Zenon
  <2> HIDE DEF M
  <2>4. \A m \in Msg : inb'[m] \in Inbound
    BY <2>1, <2>2, <2>3, Zenon
  <2>5. inb' \in [Msg -> Inbound]
    BY <2>1, <2>4, Zenon
  <2> QED
    BY <2>1, <2>3, <2>5, Zenon
<1> HIDE DEF M
<1>4. ASSUME NEW k \in Msg
      PROVE  (Sent(k)' <=> Sent(k)) /\ (inb[k].role # "none" => inb'[k] = inb[k]) /\ (IsRunning(k)' <=> IsRunning(k))
             /\ SentIds(k) = SentIds(k)'
  BY <1>1, <1>2, <1>3 DEF Sent, IsRunning, SentIds
<1>5. Received' = Received
  BY <1>2, <1>3 DEF Received
<1>6. ASSUME NEW k \in Msg PROVE TriggerOK(k)' /\ RestOK(k)'
  BY <1>1, <1>3, <1>4 DEF TurnsGo, Turns, TriggerOK, RestOK, Sent, Typed, TurnsTyped, Inbound
<1>7. ASSUME NEW k \in Msg PROVE SteerOK(k)'
  BY <1>1, <1>2, <1>3, <1>4 DEF TurnsGo, Turns, SteerOK, Sent
<1>8. ASSUME NEW k \in Msg PROVE ClaimOK(k)'
  BY <1>1, <1>4, <1>5 DEF TurnsGo, Turns, ClaimOK, Sent
<1>9. /\ LivesOK'
      /\ \A l \in live' : \E k \in live : l.op = k.op /\ l.ids = k.ids /\ l.rev = k.rev /\ l.told = k.told
      /\ \A k, l \in live' : k.op = l.op => k = l
  <2> DEFINE f == [l \in live |-> [l EXCEPT !.retired = TRUE]]
  <2>1. live' = {f[l] : l \in live} /\ \A l \in live : f[l] = l \/ f[l] = [l EXCEPT !.retired = TRUE]
    BY Zenon DEF NewConversation
  <2> HIDE DEF f
  <2> QED
    BY <2>1, RetiredLives DEF TurnsGo
<1>10. Lifecycles'
  BY <1>1, <1>4, <1>5, <1>9 DEF TurnsGo, Lifecycles, LiveOK, Typed, LivesOK, Lives
<1>11. OneCurrent'
  <2>1. ASSUME NEW k \in Msg, Sent(k) PROVE inb[k].epoch <= epochNow /\ inb[k].epoch \in Nat /\ epochNow \in Nat
    BY <2>1 DEF TurnsGo, Turns, TriggerOK, Typed, TurnsTyped, Inbound
  <2> QED
    BY <1>1, <1>4, <2>1 DEF OneCurrent, IsRunning, Sent
<1>12. RowsReceived'
  BY <1>5 DEF TurnsGo, RowsReceived
<1>13. TurnsTyped'
  BY <1>1, <1>3 DEF Typed, TurnsTyped
<1>14. StaysTold
  BY <1>1, <1>3, <1>4 DEF StaysTold, Unanswered, InDoubt
<1>15. StaysOwned
  BY <1>1, <1>9 DEF StaysOwned, Owns
<1> QED
  BY <1>14, <1>15, <1>6, <1>7, <1>8, <1>9, <1>10, <1>11, <1>12, <1>13 DEF TurnsGo, Turns

(* The rows: reading some of them, and what is counted as omitted.         *)
Topped == \E top \in {r.row : r \in ctx} \union {0} : (\A r \in ctx : r.row <= top) /\ floor.row <= top
Floored ==
  /\ \A r \in ctx : r.row <= floor.row => r.id \in prior
  /\ Topped
  /\ wronged = {}
Reported ==
  /\ Cardinality(untold) <= omit.pending
  /\ \A l \in live : l.rev <= omit.rev /\ (l.rev = omit.rev => untold \subseteq l.told)

LEMMA ReadIs ==
  ASSUME RowsOK, NEW rows
  PROVE  /\ IsFiniteSet(Read(rows)) /\ Read(rows) \subseteq LedgerRows
         /\ \A r \in Read(rows) : \E s \in ctx : r.row = s.row /\ r.id = s.id /\ r.at = s.at /\ (r.read \/ (r = s /\ s \notin rows))
         /\ \A s \in ctx : \E r \in Read(rows) : r.row = s.row /\ r.id = s.id /\ r.at = s.at /\ (s \notin rows => r = s)
<1> DEFINE f == [r \in ctx |-> IF r \in rows THEN [r EXCEPT !.read = TRUE] ELSE r]
<1>1. Read(rows) = {f[r] : r \in ctx}
  BY Zenon DEF Read
<1>2. ASSUME NEW r \in ctx
      PROVE  /\ f[r] \in LedgerRows /\ f[r].row = r.row /\ f[r].id = r.id /\ f[r].at = r.at
             /\ r \in rows => f[r].read
             /\ r \notin rows => f[r] = r
  <2>1. r \in LedgerRows
    BY DEF RowsOK
  <2>2. r \in rows => f[r] = [r EXCEPT !.read = TRUE]
    BY Zenon
  <2>3. r \notin rows => f[r] = r
    BY Zenon
  <2> HIDE DEF f
  <2> QED
    BY <2>1, <2>2, <2>3 DEF LedgerRows
<1>3. f \in Surjection(ctx, Read(rows))
  BY <1>1, Zenon DEF Surjection
<1> HIDE DEF f
<1>4. IsFiniteSet(Read(rows))
  BY <1>3, FS_Surjection DEF RowsOK
<1> QED
  BY <1>1, <1>2, <1>4

LEMMA ReadFloored ==
  ASSUME RowsOK, Floored, NEW rows, ctx' = Read(rows), UNCHANGED <<floor, prior, wronged>>
  PROVE  /\ RowsOK' /\ Floored'
         /\ \A r \in ctx' : \E s \in ctx : s.id = r.id
         /\ \A m \in Ids(Unread)' : m \in Ids(Unread) /\ \E r \in ctx : r.id = m /\ ~r.read /\ r \notin rows
<1>1. /\ IsFiniteSet(ctx') /\ ctx' \subseteq LedgerRows
      /\ \A r \in ctx' : \E s \in ctx : r.row = s.row /\ r.id = s.id /\ r.at = s.at /\ (r.read \/ (r = s /\ s \notin rows))
      /\ \A s \in ctx : \E r \in ctx' : r.row = s.row
  BY ReadIs
<1>2. Topped'
  <2>1. PICK top \in {r.row : r \in ctx} \union {0} : (\A r \in ctx : r.row <= top) /\ floor.row <= top
    BY DEF Floored, Topped
  <2>2. top \in {r.row : r \in ctx'} \union {0}
    BY <1>1, <2>1
  <2>3. \A r \in ctx' : r.row <= top
    BY <1>1, <2>1
  <2>4. floor'.row <= top
    BY <2>1
  <2> QED
    BY <2>2, <2>3, <2>4 DEF Topped
<1>3. Floored'
  BY <1>1, <1>2 DEF Floored
<1>4. ASSUME NEW m \in Ids(Unread)' PROVE m \in Ids(Unread) /\ \E r \in ctx : r.id = m /\ ~r.read /\ r \notin rows
  BY <1>1 DEF Ids, Unread
<1> QED
  BY <1>1, <1>3, <1>4 DEF RowsOK

LEMMA UntoldFinite == NotesOK => IsFiniteSet(untold)
<1>1. IsFiniteSet(Msg)
  BY FS_Interval, BoundsNat DEF Msg
<1> QED
  BY <1>1, FS_Subset DEF NotesOK

LEMMA OmitNotes ==
  ASSUME RowsOK, NotesOK, Reported, NEW gone \in SUBSET ctx, Omit(gone),
         floor' \in [at : Nat, row : Nat], now' \in Nat
  PROVE  /\ NotesOK' /\ Cardinality(untold') <= omit'.pending
         /\ omit'.rev >= omit.rev /\ (omit'.rev = omit.rev => untold' = untold)
         /\ omitted' = omitted \union Ids(gone)
<1>1. /\ omitted' = omitted \union Ids(gone) /\ untold' = untold \union Ids(gone)
      /\ gone = {} => omit' = omit
      /\ gone # {} => omit' = [pending |-> omit.pending + Cardinality(gone), rev |-> omit.rev + 1]
  BY DEF Omit
<1>2. Ids(gone) \subseteq Msg
  BY DEF Ids, RowsOK, LedgerRows
<1>3. /\ IsFiniteSet(gone) /\ IsFiniteSet(Ids(gone)) /\ Cardinality(Ids(gone)) <= Cardinality(gone)
      /\ Cardinality(gone) \in Nat /\ Cardinality(Ids(gone)) \in Nat
  <2> DEFINE f == [r \in gone |-> r.id]
  <2>1. IsFiniteSet(gone)
    BY FS_Subset DEF RowsOK
  <2>2. f \in Surjection(gone, Ids(gone))
    BY Zenon DEF Surjection, Ids
  <2> HIDE DEF f
  <2>3. IsFiniteSet(Ids(gone)) /\ Cardinality(Ids(gone)) <= Cardinality(gone)
    BY <2>1, <2>2, FS_Surjection
  <2> QED
    BY <2>1, <2>3, FS_CardinalityType
<1>4. IsFiniteSet(untold) /\ Cardinality(untold) \in Nat
  BY UntoldFinite, FS_CardinalityType
<1>5. Cardinality(untold') <= Cardinality(untold) + Cardinality(gone)
  <2> DEFINE A == untold
             B == Ids(gone)
  <2>1. IsFiniteSet(A) /\ IsFiniteSet(B)
    BY <1>3, <1>4
  <2> HIDE DEF A, B
  <2>2. Cardinality(A \cup B) = Cardinality(A) + Cardinality(B) - Cardinality(A \cap B) /\ IsFiniteSet(A \cup B)
    BY <2>1, FS_Union, Zenon
  <2>3. Cardinality(A \cap B) \in Nat /\ Cardinality(A) \in Nat /\ Cardinality(B) \in Nat /\ Cardinality(A \cup B) \in Nat
    BY <2>1, <2>2, FS_Subset, FS_Intersection, FS_CardinalityType
  <2>4. Cardinality(A \cup B) <= Cardinality(A) + Cardinality(B)
    BY <2>2, <2>3
  <2>5. untold' = A \cup B
    BY <1>1 DEF A, B
  <2>6. Cardinality(B) <= Cardinality(gone)
    BY <1>3 DEF B
  <2>7. Cardinality(A) = Cardinality(untold)
    BY DEF A
  <2> QED
    BY <1>3, <2>3, <2>4, <2>5, <2>6, <2>7
<1>6. CASE gone = {}
  <2>1. omit' = omit /\ Ids(gone) = {}
    BY <1>1, <1>6 DEF Ids
  <2>2. untold' = untold /\ omitted' = omitted
    BY <1>1, <2>1
  <2>3. NotesOK'
    BY <2>1, <2>2 DEF NotesOK
  <2>4. omit.rev \in Nat /\ Cardinality(untold) <= omit.pending
    BY DEF NotesOK, Reported
  <2> QED
    BY <1>1, <2>1, <2>2, <2>3, <2>4
<1>7. CASE gone # {}
  <2>1. omit' = [pending |-> omit.pending + Cardinality(gone), rev |-> omit.rev + 1]
    BY <1>1, <1>7
  <2>2. omit.pending \in Nat /\ omit.rev \in Nat /\ Cardinality(untold) <= omit.pending
    BY DEF NotesOK, Reported
  <2>3. omit' \in [pending : Nat, rev : Nat] /\ omit'.rev = omit.rev + 1 /\ omit'.pending = omit.pending + Cardinality(gone)
    BY <1>3, <2>1, <2>2
  <2>4. Cardinality(untold') <= omit'.pending
    <3>1. IsFiniteSet(untold')
      BY <1>1, <1>3, <1>4, FS_Union, Zenon
    <3>2. Cardinality(untold') \in Nat
      BY <3>1, FS_CardinalityType
    <3> QED
      BY <1>3, <1>4, <1>5, <2>2, <2>3, <3>2
  <2>5. untold' \subseteq Msg /\ omitted' \subseteq Msg
    BY <1>1, <1>2 DEF NotesOK
  <2> QED
    BY <1>1, <2>2, <2>3, <2>4, <2>5 DEF NotesOK
<1> QED
  BY <1>6, <1>7

LEMMA LeastNat ==
  ASSUME NEW T, T \subseteq Nat, T # {}
  PROVE  \E x \in T : \A y \in T : x <= y
<1> DEFINE R == OpToRel(<, Nat)
<1>1. IsWellFoundedOn(R, Nat)
  BY NatLessThanWellFounded
<1>2. \A x, y \in Nat : x < y => <<x, y>> \in R
  BY DEF OpToRel
<1> HIDE DEF R
<1>3. PICK x \in T : \A y \in T : ~(<<y, x>> \in R)
  BY <1>1, WFMin, Zenon
<1>4. \A y \in T : ~(y < x)
  BY <1>2, <1>3
<1> QED
  BY <1>3, <1>4

LEMMA LatestRow ==
  ASSUME RowsOK, NotesOK, Topped
  PROVE  LET x == Latest({r.row : r \in ctx})
         IN  x \in {r.row : r \in ctx} \union {0} /\ x \in Nat /\ (\A r \in ctx : r.row <= x) /\ floor.row <= x
<1> DEFINE S == {r.row : r \in ctx}
           x == Latest(S)
<1>1. S \subseteq Nat
  BY DEF RowsOK, LedgerRows
<1>2. PICK top \in S \union {0} : (\A y \in S : y <= top) /\ floor.row <= top
  BY DEF Topped
<1>3. x \in S \union {0} /\ \A y \in S : y <= x
  BY <1>2 DEF Latest
<1> HIDE DEF S, x
<1>4. x \in Nat /\ top \in Nat /\ floor.row \in Nat /\ top <= x
  BY <1>1, <1>2, <1>3 DEF NotesOK
<1>5. x \in S \union {0} /\ x \in Nat /\ (\A y \in S : y <= x) /\ floor.row <= x
  BY <1>2, <1>3, <1>4
<1> QED
  BY <1>5 DEF S, x

LEMMA ReceiveRows ==
  ASSUME Typed, Floored, NEW m \in Msg, NEW at \in Nat, NEW e \in BOOLEAN, ReceiveMessage(m, at, e)
  PROVE  RowsOK' /\ Floored' /\ Ids(Unread)' = Ids(Unread) \union {m}
<1> DEFINE x == Latest({r.row : r \in ctx})
           n == [row |-> x + 1, id |-> m, at |-> at, read |-> FALSE]
<1>1. ctx' = ctx \union {n} /\ UNCHANGED <<floor, prior, wronged>>
  BY DEF ReceiveMessage
<1>2. x \in Nat /\ (\A r \in ctx : r.row <= x) /\ floor.row <= x
  BY LatestRow DEF Typed, Floored
<1> HIDE DEF x
<1>3. n \in LedgerRows /\ n.row = x + 1 /\ n.id = m /\ ~n.read
  BY <1>2 DEF LedgerRows
<1> HIDE DEF n
<1>4. RowsOK'
  BY <1>1, <1>3, FS_AddElement DEF Typed, RowsOK
<1>5. ASSUME NEW r \in ctx, NEW y, y = r.row PROVE y \in Nat
  BY <1>5 DEF Typed, RowsOK, LedgerRows
<1>6. Topped'
  <2>1. x + 1 \in {r.row : r \in ctx'} \union {0}
    BY <1>1, <1>3
  <2>2. \A r \in ctx' : r.row <= x + 1
    BY <1>1, <1>2, <1>3, <1>5
  <2>3. floor'.row <= x + 1
    BY <1>1, <1>2 DEF Typed, NotesOK
  <2> QED
    BY <2>1, <2>2, <2>3 DEF Topped
<1>7. \A r \in ctx' : r.row <= floor'.row => r.id \in prior'
  BY <1>1, <1>2, <1>3 DEF Floored, Typed, NotesOK
<1>8. wronged' = {}
  BY <1>1 DEF Floored
<1>9. Ids(Unread)' = Ids(Unread) \union {m}
  BY <1>1, <1>3 DEF Ids, Unread
<1> QED
  BY <1>4, <1>6, <1>7, <1>8, <1>9 DEF Floored

(* Every omission of a prompt, a /new or a maintenance is one a reader is  *)
(* told of.                                                                *)
LEMMA DispatchRows ==
  ASSUME Typed, Floored, Reported, NEW m \in Msg, Dispatch(m)
  PROVE  /\ RowsOK' /\ NotesOK' /\ Floored' /\ Reported'
         /\ \A r \in ctx' : \E s \in ctx : s.id = r.id
         /\ \A k \in Ids(Unread)' : k \in Ids(Unread)
         /\ \A k \in Ids(Unread) : k \in Ids(Unread)' \/ k \in omitted'
         /\ omitted \subseteq omitted'
<1>1. /\ ctx' = Read(Dropped(m)) /\ Omit(Dropped(m)) /\ UNCHANGED <<floor, now, prior>>
      /\ \A l \in live' : l \in live \/ (l.rev = omit'.rev /\ l.told = untold')
  BY DEF Dispatch
<1>2. ASSUME NEW r \in Dropped(m) PROVE OmissionDue(r)
  <2>1. /\ r \in Unread /\ r \notin UnreadWindow(m) /\ r.id # m /\ r \in LedgerRows /\ r.at \in Nat /\ r.row \in Nat
    BY DEF Dropped, Unread, Typed, RowsOK, LedgerRows
  <2>2. CASE Below(r)
    <3>1. CASE r.row <= floor.row
      BY <1>1, <2>1, <3>1 DEF OmissionDue, Floored, Unread
    <3>2. CASE r.at < Latest({Cutoff, floor.at})
      <4>1. Cutoff \in Int /\ floor.at \in Nat
        BY BoundsNat DEF Cutoff, Typed, NotesOK
      <4>2. Latest({Cutoff, floor.at}) \in {Cutoff, floor.at, 0}
        <5>1. \E x \in {Cutoff, floor.at} \union {0} : \A y \in {Cutoff, floor.at} : y <= x
          BY <4>1
        <5> QED
          BY <5>1 DEF Latest
      <4> QED
        BY <1>1, <2>1, <3>2, <4>1, <4>2 DEF OmissionDue
    <3> QED
      BY <2>2, <3>1, <3>2 DEF Below
  <2>3. CASE ~Below(r)
    <3> DEFINE A == {s \in Eligible(m) : IsNewer(s, r)}
               B == {s \in Unread : s.at >= r.at /\ s # r}
    <3>1. r \in Eligible(m)
      BY <2>1, <2>3 DEF Eligible
    <3>2. ~(Cardinality(A) < Limit)
      BY <2>1, <3>1 DEF UnreadWindow
    <3>3. A \subseteq B
      <4>1. ASSUME NEW s \in Eligible(m), IsNewer(s, r) PROVE s \in Unread /\ s.at >= r.at /\ s # r
        <5>1. s \in Unread /\ s.at \in Nat /\ s.row \in Nat
          BY DEF Eligible, Unread, Typed, RowsOK, LedgerRows
        <5> QED
          BY <2>1, <4>1, <5>1 DEF IsNewer
      <4> QED
        BY <4>1
    <3>4. IsFiniteSet(B)
      BY FS_Subset DEF Unread, Typed, RowsOK
    <3> HIDE DEF A, B
    <3>5. Cardinality(A) \in Nat /\ Cardinality(B) \in Nat /\ Cardinality(A) <= Cardinality(B)
      BY <3>3, <3>4, FS_Subset, FS_CardinalityType
    <3>6. Cardinality(B) >= Limit
      BY <3>2, <3>5, BoundsNat
    <3> QED
      BY <3>6 DEF OmissionDue, B
  <2> QED
    BY <2>2, <2>3
<1>3. Dropped(m) \in SUBSET ctx
  BY DEF Dropped, Unread
<1>4. /\ NotesOK' /\ Cardinality(untold') <= omit'.pending
      /\ omit'.rev >= omit.rev /\ (omit'.rev = omit.rev => untold' = untold)
      /\ omitted' = omitted \union Ids(Dropped(m))
  BY <1>1, <1>3, OmitNotes DEF Typed, NotesOK
<1>5. wronged' = wronged
  BY <1>1, <1>2, Zenon DEF Omit, Ids
<1>6. /\ RowsOK' /\ Floored'
      /\ \A r \in ctx' : \E s \in ctx : s.id = r.id
      /\ \A k \in Ids(Unread)' : k \in Ids(Unread)
  BY <1>1, <1>5, ReadFloored DEF Typed
<1>7. ASSUME NEW r \in Unread, r \notin Dropped(m) PROVE r.id \in Ids(Unread)'
  <2>1. r \in ctx'
    BY <1>1, <1>7, ReadIs DEF Typed, Unread
  <2> QED
    BY <2>1 DEF Ids, Unread
<1>8. Reported'
  BY <1>1, <1>4 DEF Reported, Typed, LivesOK, Lives, NotesOK
<1> QED
  BY <1>4, <1>6, <1>7, <1>8 DEF Ids

LEMMA CommitRows ==
  ASSUME Typed, Floored, Reported, NEW l \in live, Commit(l), live' \subseteq live,
         UNCHANGED <<floor, now, prior, wronged, omitted>>
  PROVE  /\ RowsOK' /\ NotesOK' /\ Floored' /\ Reported'
         /\ \A r \in ctx' : \E s \in ctx : s.id = r.id
         /\ \A k \in Ids(Unread)' : k \in Ids(Unread) /\ k \notin l.ids
         /\ \A k \in Ids(Unread) : k \in Ids(Unread)' \/ k \in l.ids
<1>1. /\ ctx' = Read({r \in ctx : r.id \in l.ids}) /\ untold' = untold \ l.told
      /\ omit' = IF omit.rev = l.rev THEN [omit EXCEPT !.pending = 0] ELSE omit
  BY DEF Commit
<1>2. /\ RowsOK' /\ Floored'
      /\ \A r \in ctx' : \E s \in ctx : s.id = r.id
      /\ \A k \in Ids(Unread)' : k \in Ids(Unread) /\ \E r \in ctx : r.id = k /\ ~r.read /\ r.id \notin l.ids
  BY <1>1, ReadFloored DEF Typed
<1>3. ASSUME NEW r \in Unread, r.id \notin l.ids PROVE r.id \in Ids(Unread)'
  <2>1. r \in ctx'
    BY <1>1, <1>3, ReadIs DEF Typed, Unread
  <2> QED
    BY <2>1 DEF Ids, Unread
<1>4. /\ omit' \in [pending : Nat, rev : Nat] /\ omit'.rev = omit.rev
      /\ omit'.pending = IF omit.rev = l.rev THEN 0 ELSE omit.pending
  BY <1>1 DEF Typed, NotesOK
<1>5. NotesOK'
  BY <1>1, <1>4 DEF Typed, NotesOK
<1>6. Cardinality(untold') <= omit'.pending
  <2>1. CASE omit.rev = l.rev
    <3>1. untold' = {}
      BY <1>1, <2>1 DEF Reported
    <3> QED
      BY <1>4, <2>1, <3>1, FS_EmptySet
  <2>2. CASE omit.rev # l.rev
    <3>1. IsFiniteSet(untold)
      BY UntoldFinite DEF Typed
    <3>2. Cardinality(untold') <= Cardinality(untold) /\ IsFiniteSet(untold')
      BY <1>1, <3>1, FS_Subset
    <3>3. Cardinality(untold) \in Nat /\ Cardinality(untold') \in Nat /\ omit.pending \in Nat
      BY <3>1, <3>2, FS_CardinalityType DEF Typed, NotesOK
    <3> QED
      BY <1>4, <2>2, <3>2, <3>3 DEF Reported
  <2> QED
    BY <2>1, <2>2
<1>7. Reported'
  BY <1>1, <1>4, <1>6 DEF Reported
<1>8. \A k \in Ids(Unread)' : k \in Ids(Unread) /\ k \notin l.ids
  BY <1>2
<1>9. \A k \in Ids(Unread) : k \in Ids(Unread)' \/ k \in l.ids
  BY <1>3 DEF Ids
<1> QED
  BY <1>2, <1>5, <1>7, <1>8, <1>9

LEMMA NewRows ==
  ASSUME Typed, TurnsGo, Floored, Reported, NewConversation
  PROVE  /\ RowsOK' /\ NotesOK' /\ Floored' /\ Reported'
         /\ \A r \in ctx' : \E s \in ctx : s.id = r.id
         /\ \A k \in Ids(Unread)' : k \in Ids(Unread) \/ k \in carried'
         /\ \A k \in Ids(Unread)' : k \in carried'
         /\ \A k \in Ids(Unread) : k \in Ids(Unread)' \/ k \in omitted'
         /\ omitted \subseteq omitted' /\ carried \subseteq carried'
<1> DEFINE keep == CarriedRows
           gone == Unread \ keep
           top == Latest({r.row : r \in ctx})
           first == CHOOSE r \in keep : \A s \in keep : r.row <= s.row
           f == [r \in ctx |-> IF r \in keep THEN [r EXCEPT !.read = FALSE]
                              ELSE IF r \in gone THEN [r EXCEPT !.read = TRUE] ELSE r]
<1>1. /\ floor' = IF keep = {} THEN [at |-> now, row |-> top] ELSE [at |-> first.at, row |-> first.row - 1]
      /\ prior' = Received /\ Omit(gone) /\ carried' = carried \union Ids(keep) /\ UNCHANGED now
  BY DEF NewConversation, Received
<1>2. ctx' = {f[r] : r \in ctx}
  BY Zenon DEF NewConversation
<1>3. keep \subseteq ctx /\ gone \subseteq ctx
  BY DEF CarriedRows, Unread
<1>4. ASSUME NEW r \in ctx
      PROVE  /\ f[r] \in LedgerRows /\ f[r].row = r.row /\ f[r].id = r.id /\ f[r].at = r.at
             /\ r \in keep => ~f[r].read
             /\ r \notin keep => f[r].read
  <2>1. r \in LedgerRows
    BY DEF Typed, RowsOK
  <2>2. r \in keep => f[r] = [r EXCEPT !.read = FALSE]
    BY Zenon
  <2>3. r \notin keep /\ r \in gone => f[r] = [r EXCEPT !.read = TRUE]
    BY Zenon
  <2>4. r \notin keep /\ r \notin gone => f[r] = r
    BY Zenon
  <2>5. r \notin keep /\ r \notin gone => r.read
    BY <2>1 DEF Unread, LedgerRows
  <2> HIDE DEF f, keep, gone
  <2> QED
    BY <2>1, <2>2, <2>3, <2>4, <2>5 DEF LedgerRows
<1>5. f \in Surjection(ctx, ctx')
  BY <1>2, Zenon DEF Surjection
<1> HIDE DEF f
<1>6. RowsOK'
  <2>1. IsFiniteSet(ctx')
    BY <1>5, FS_Surjection DEF Typed, RowsOK
  <2> QED
    BY <1>2, <1>4, <2>1 DEF RowsOK
<1>7. /\ \A r \in ctx' : \E s \in ctx : s.id = r.id /\ s.row = r.row /\ (~r.read => s \in keep)
      /\ \A s \in ctx : \E r \in ctx' : r.row = s.row /\ r.id = s.id /\ (s \in keep => ~r.read)
  BY <1>2, <1>4
<1>8. /\ top \in {r.row : r \in ctx} \union {0} /\ top \in Nat /\ \A r \in ctx : r.row <= top
  BY LatestRow DEF Typed, Floored
<1>9. floor' \in [at : Nat, row : Nat] /\ floor'.row <= top
  <2>1. CASE keep = {}
    BY <1>1, <1>8, <2>1 DEF Typed, NotesOK
  <2>2. CASE keep # {}
    <3>1. \E r \in keep : \A s \in keep : r.row <= s.row
      <4>1. {r.row : r \in keep} \subseteq Nat /\ {r.row : r \in keep} # {}
        BY <1>3, <2>2 DEF Typed, RowsOK, LedgerRows
      <4>2. PICK x \in {r.row : r \in keep} : \A y \in {r.row : r \in keep} : x <= y
        BY <4>1, LeastNat
      <4> QED
        BY <4>2
    <3>2. first \in keep
      BY <3>1
    <3>3. first \in ctx /\ first \in LedgerRows
      BY <1>3, <3>2 DEF Typed, RowsOK
    <3>4. floor' = [at |-> first.at, row |-> first.row - 1]
      BY <1>1, <2>2
    <3> HIDE DEF first, top
    <3> QED
      BY <1>8, <3>3, <3>4 DEF LedgerRows
  <2> QED
    BY <2>1, <2>2
<1> HIDE DEF top, first, keep
<1>10. Topped'
  <2>1. top \in {r.row : r \in ctx'} \union {0}
    BY <1>7, <1>8
  <2>2. \A r \in ctx' : r.row <= top
    BY <1>7, <1>8
  <2> QED
    BY <1>9, <2>1, <2>2 DEF Topped
<1>11. \A r \in ctx' : r.id \in prior'
  BY <1>1, <1>7 DEF TurnsGo, RowsReceived
<1>12. wronged' = {}
  <2>1. \A r \in gone : OmissionDue(r)
    BY <1>1, <1>3 DEF OmissionDue, TurnsGo, RowsReceived
  <2> QED
    BY <1>1, <2>1, Zenon DEF Omit, Ids, Floored
<1>13. Floored'
  BY <1>10, <1>11, <1>12 DEF Floored
<1>14. /\ NotesOK' /\ Cardinality(untold') <= omit'.pending
       /\ omit'.rev >= omit.rev /\ (omit'.rev = omit.rev => untold' = untold)
       /\ omitted' = omitted \union Ids(gone)
  BY <1>1, <1>3, <1>9, OmitNotes DEF Typed, NotesOK
<1>15. Reported'
  <2>1. \A l \in live' : \E k \in live : l.rev = k.rev /\ l.told = k.told
    BY NewGoing, <1>7 DEF NewConversation, Typed, LivesOK, Lives
  <2>2. \A k \in live : k.rev \in Int
    BY DEF Typed, LivesOK, Lives
  <2> QED
    BY <1>14, <2>1, <2>2 DEF Reported, Typed, NotesOK
<1>16. \A k \in Ids(Unread)' : k \in carried'
  BY <1>1, <1>7 DEF Ids, Unread
<1>17. \A k \in Ids(Unread) : k \in Ids(Unread)' \/ k \in omitted'
  BY <1>7, <1>14 DEF Ids, Unread
<1> QED
  BY <1>1, <1>6, <1>7, <1>13, <1>14, <1>15, <1>16, <1>17

LEMMA MaintainRows ==
  ASSUME Typed, Floored, Reported, ~MayEmpty, Maintain
  PROVE  /\ RowsOK' /\ NotesOK' /\ Floored' /\ Reported'
         /\ \A r \in ctx' : \E s \in ctx : s.id = r.id
         /\ \A k \in Ids(Unread)' : k \in Ids(Unread)
         /\ \A k \in Ids(Unread) : k \in Ids(Unread)' \/ k \in omitted'
         /\ omitted \subseteq omitted'
<1> DEFINE stale == {r \in Unread : r.at < Cutoff}
           kept == {r \in Read(stale) : ~(r.read /\ r.at + Retention < now)}
<1>1. ctx' = kept /\ Omit(stale) /\ UNCHANGED <<floor, prior, now, live>> /\ \E r \in kept : \A s \in ctx : s.row <= r.row
  BY DEF Maintain
<1>2. /\ IsFiniteSet(Read(stale)) /\ Read(stale) \subseteq LedgerRows
      /\ \A r \in Read(stale) : \E s \in ctx : r.row = s.row /\ r.id = s.id /\ (r.read \/ (r = s /\ s \notin stale))
      /\ \A s \in ctx : s \notin stale => s \in Read(stale)
  BY ReadIs DEF Typed
<1>3. stale \in SUBSET ctx
  BY DEF Unread
<1>4. \A r \in stale : OmissionDue(r)
  BY DEF OmissionDue
<1> HIDE DEF stale
<1>5. \A r \in kept : r \in Read(stale)
  OBVIOUS
<1>6. \A r \in Read(stale) : ~r.read => r \in kept
  OBVIOUS
<1> HIDE DEF kept
<1>7. RowsOK'
  <2>1. kept \in SUBSET Read(stale)
    BY <1>5
  <2>2. IsFiniteSet(kept) /\ kept \subseteq LedgerRows
    BY <1>2, <2>1, FS_Subset
  <2> QED
    BY <1>1, <2>2 DEF RowsOK
<1>8. \A r \in ctx' : \E s \in ctx : r.row = s.row /\ r.id = s.id /\ (r.read \/ (r = s /\ s \notin stale))
  BY <1>1, <1>2, <1>5
<1>9. Topped'
  <2>1. PICK r \in ctx' : \A s \in ctx : s.row <= r.row
    BY <1>1
  <2>2. \A s \in ctx' : s.row <= r.row
    BY <1>8, <2>1
  <2>3. PICK top \in {s.row : s \in ctx} \union {0} : floor.row <= top
    BY DEF Floored, Topped
  <2>4. r.row \in Nat /\ floor.row \in Nat
    BY <1>7 DEF RowsOK, LedgerRows, Typed, NotesOK
  <2>5. top <= r.row /\ top \in Nat
    BY <2>1, <2>3, <2>4 DEF Typed, RowsOK, LedgerRows
  <2>6. floor'.row <= r.row
    BY <1>1, <2>3, <2>4, <2>5
  <2> QED
    BY <2>2, <2>6 DEF Topped
<1>10. wronged' = {}
  BY <1>1, <1>4, Zenon DEF Omit, Ids, Floored
<1>11. Floored'
  BY <1>1, <1>8, <1>9, <1>10 DEF Floored
<1>12. /\ NotesOK' /\ Cardinality(untold') <= omit'.pending
       /\ omit'.rev >= omit.rev /\ (omit'.rev = omit.rev => untold' = untold)
       /\ omitted' = omitted \union Ids(stale)
  BY <1>1, <1>3, OmitNotes DEF Typed, NotesOK
<1>13. Reported'
  BY <1>1, <1>12 DEF Reported, Typed, LivesOK, Lives, NotesOK
<1>14. \A k \in Ids(Unread)' : k \in Ids(Unread)
  BY <1>8 DEF Ids, Unread
<1>15. ASSUME NEW r \in Unread, r \notin stale PROVE r.id \in Ids(Unread)'
  <2>1. r \in ctx'
    BY <1>1, <1>2, <1>6, <1>15 DEF Unread
  <2> QED
    BY <2>1 DEF Ids, Unread
<1> QED
  BY <1>7, <1>8, <1>11, <1>12, <1>13, <1>14, <1>15 DEF Ids

(* A message that reads as unread was given to no turn that is over or     *)
(* answered, and two turns that were given the same one are not both       *)
(* answered.                                                               *)
Unheard ==
  \A o, m \in Msg : Owns(o, m) /\ o # m /\ m \notin carried => m \notin Ids(Unread) \/ Open(o) \/ Unanswered(o)
Apart ==
  \A p, q, m \in Msg : Owns(p, m) /\ Owns(q, m) /\ p # m /\ q # m /\ p # q /\ m \notin carried => Unanswered(p) \/ Unanswered(q)
KnownOf(m) == heard[m] # {} \/ m \in omitted \/ \E o \in InDoubt : m \in SentIds(o)
LedgerInv == Typed /\ TurnsGo /\ Floored /\ Reported /\ Unheard /\ Apart /\ NothingLost

LEMMA KnownIs == NothingLost <=> \A m \in Received \ Ids(Unread) : KnownOf(m)
  BY DEF NothingLost, KnownOf

LEMMA ReadsStay ==
  ASSUME Unheard, Apart, StaysTold, StaysOwned, carried \subseteq carried',
         \A k \in Ids(Unread)' : k \in Ids(Unread) \/ k \in carried' \/ \A p \in Msg : ~Owns(p, k),
         \A p \in Msg : Open(p) => Open(p)' \/ Unanswered(p)' \/ \A m \in Ids(Unread)' : ~Owns(p, m)' \/ m \in carried'
  PROVE  Unheard' /\ Apart'
<1>1. Unheard'
  BY DEF Unheard, StaysTold, StaysOwned
<1>2. Apart'
  BY DEF Apart, StaysTold, StaysOwned
<1> QED
  BY <1>1, <1>2

LEMMA LostStays ==
  ASSUME NothingLost, StaysTold, omitted \subseteq omitted',
         \A m \in Received' : m \in Received \/ m \in Ids(Unread)',
         \A m \in Ids(Unread) : m \in Ids(Unread)' \/ m \in omitted' \/ heard'[m] # {}
                             \/ \E o \in InDoubt' : m \in SentIds(o)'
  PROVE  NothingLost'
<1>1. ASSUME NEW m \in Msg, KnownOf(m) PROVE heard'[m] # {} \/ m \in omitted' \/ \E o \in InDoubt' : m \in SentIds(o)'
  BY <1>1 DEF KnownOf, StaysTold
<1> QED
  BY <1>1, KnownIs DEF NothingLost, Received

(* A step that leaves the rows and their omissions alone.                  *)
LEMMA AsideKept ==
  ASSUME LedgerInv, UNCHANGED <<unreadVars, carried>>, now' \in Nat, TurnsTyped', LivesOK', TurnsGo', StaysTold, StaysOwned,
         Received' \subseteq Received, \A l \in live' : l \in live \/ l.rev < omit.rev,
         \A p \in Msg : Open(p) => Open(p)' \/ Unanswered(p)' \/ \A m \in Msg : ~Owns(p, m)'
  PROVE  LedgerInv'
<1>1. UNCHANGED <<ctx, floor, omit, omitted, untold, prior, wronged, carried>>
  BY DEF unreadVars
<1>2. Ids(Unread)' = Ids(Unread) /\ Ids(Unread) \subseteq Msg
  BY <1>1 DEF Ids, Unread, LedgerInv, Typed, RowsOK, LedgerRows
<1>3. Typed'
  BY <1>1 DEF LedgerInv, Typed, RowsOK, NotesOK
<1>4. Floored'
  BY <1>1 DEF LedgerInv, Floored, Topped
<1>5. Reported'
  <2>1. \A l \in live' : l.rev \in Int
    BY DEF LivesOK, Lives
  <2> QED
    BY <1>1, <2>1 DEF LedgerInv, Reported, Typed, NotesOK
<1>6. Unheard' /\ Apart'
  <2>1. carried \subseteq carried'
    BY <1>1
  <2> QED
    BY <1>2, <2>1, ReadsStay DEF LedgerInv
<1>7. NothingLost'
  <2>1. omitted \subseteq omitted'
    BY <1>1
  <2> QED
    BY <1>2, <2>1, LostStays DEF LedgerInv
<1> QED
  BY <1>3, <1>4, <1>5, <1>6, <1>7 DEF LedgerInv

LEMMA ReceiveKept ==
  ASSUME LedgerInv, NEW m \in Msg, NEW at \in Nat, NEW e \in BOOLEAN, ReceiveMessage(m, at, e)
  PROVE  LedgerInv'
<1>1. /\ UNCHANGED <<floor, omit, now, live, omitted, untold, carried, prior, wronged, epochNow, answered, claim>>
      /\ inb[m].state = "none"
      /\ \A k \in Msg : k # m => inb'[k] = inb[k]
  BY DEF ReceiveMessage, LedgerInv, Typed, TurnsTyped
<1>2. TurnsTyped' /\ LivesOK' /\ TurnsGo' /\ StaysTold /\ StaysOwned
  BY ReceiveTurns DEF LedgerInv
<1>3. RowsOK' /\ Floored' /\ Ids(Unread)' = Ids(Unread) \union {m}
  BY ReceiveRows DEF LedgerInv
<1>4. Reported'
  BY <1>1 DEF LedgerInv, Reported
<1>5. Typed'
  BY <1>1, <1>2, <1>3 DEF LedgerInv, Typed, NotesOK
<1>6. \A p \in Msg : ~Owns(p, m)
  BY <1>1 DEF Owns, LedgerInv, TurnsGo, Turns, ClaimOK, Lifecycles, LiveOK, Received
<1>7. ASSUME NEW p \in Msg, Open(p) PROVE Open(p)'
  <2>1. p # m
    BY <1>1, <1>7 DEF Open, IsRunning, LedgerInv, TurnsGo, Turns, TriggerOK
  <2> QED
    BY <1>1, <1>7, <2>1 DEF Open, IsRunning, Sent
<1>8. Unheard' /\ Apart'
  <2>1. carried \subseteq carried' /\ \A k \in Ids(Unread)' : k \in Ids(Unread) \/ \A p \in Msg : ~Owns(p, k)
    BY <1>1, <1>3, <1>6
  <2> QED
    BY <1>2, <1>7, <2>1, ReadsStay DEF LedgerInv
<1>9. NothingLost'
  <2>1. omitted \subseteq omitted' /\ \A k \in Received' : k \in Received \/ k \in Ids(Unread)'
    BY <1>1, <1>3 DEF Received
  <2> QED
    BY <1>2, <1>3, <2>1, LostStays DEF LedgerInv
<1> QED
  BY <1>2, <1>3, <1>4, <1>5, <1>8, <1>9 DEF LedgerInv

LEMMA DispatchKept ==
  ASSUME LedgerInv, NEW m \in Msg, Dispatch(m)
  PROVE  LedgerInv'
<1>1. /\ RowsOK' /\ NotesOK' /\ Floored' /\ Reported'
      /\ \A r \in ctx' : \E s \in ctx : s.id = r.id
      /\ \A k \in Ids(Unread)' : k \in Ids(Unread)
      /\ \A k \in Ids(Unread) : k \in Ids(Unread)' \/ k \in omitted'
      /\ omitted \subseteq omitted'
  BY DispatchRows DEF LedgerInv
<1>2. /\ TurnsTyped' /\ LivesOK' /\ Turns' /\ Lifecycles' /\ OneCurrent' /\ StaysTold
      /\ \A k, j \in Msg : Owns(k, j)' => k = m \/ Owns(k, j)
  BY <1>1, DispatchGoing DEF LedgerInv
<1>3. /\ UNCHANGED <<claim, escalated, epochNow, answered, carried>>
      /\ \A k \in Nonterminal : inb[k].epoch < epochNow
      /\ inb[m].state = "pending" /\ inb[m].turn = "none"
      /\ live' = live \union {[op |-> m, ids |-> Ids(UnreadWindow(m)) \union {m}, rev |-> omit'.rev,
                               told |-> untold', retired |-> FALSE]}
      /\ inb' = [inb EXCEPT ![m].role = "trigger", ![m].turn = "bound", ![m].op = m, ![m].epoch = epochNow]
  BY DEF Dispatch
<1>4. /\ inb'[m].role = "trigger" /\ inb'[m].turn = "bound" /\ inb'[m].epoch = epochNow /\ inb'[m].state = "pending"
      /\ \A k \in Msg : k # m => inb'[k] = inb[k]
  BY <1>3 DEF LedgerInv, Typed, TurnsTyped, Inbound
<1>5. inb[m].role = "none" /\ ~claim[m].sent /\ claim[m].ids = {} /\ m \notin answered
  BY <1>3 DEF LedgerInv, TurnsGo, Turns, TriggerOK, SteerOK, ClaimOK, Sent, Typed, TurnsTyped, Inbound
<1>6. Received' = Received
  BY <1>3, <1>4 DEF Received
<1>7. RowsReceived'
  BY <1>1, <1>6 DEF LedgerInv, TurnsGo, RowsReceived
<1>8. Open(m)'
  BY <1>3, <1>4, <1>5 DEF Open, IsRunning, Sent
<1>9. ASSUME NEW j \in Msg, Owns(m, j)', j # m PROVE j \in Ids(Unread)
  <2>1. \A l \in live : l.op # m
    BY <1>5 DEF LedgerInv, TurnsGo, Lifecycles, LiveOK, IsRunning, Sent
  <2>2. j \in Ids(UnreadWindow(m))
    BY <1>3, <1>5, <1>9, <2>1 DEF Owns
  <2> QED
    BY <2>2 DEF Ids, UnreadWindow, Eligible
<1>10. ASSUME NEW k \in Msg, k # m, Open(k) PROVE Open(k)' /\ FALSE
  <2>1. k \in Nonterminal /\ inb[k].epoch = epochNow /\ epochNow \in Nat
    BY <1>10 DEF Open, IsRunning, Sent, Nonterminal, LedgerInv, Typed, TurnsTyped
  <2> QED
    BY <1>3, <2>1
<1>11. Unheard'
  BY <1>1, <1>2, <1>3, <1>8, <1>10 DEF LedgerInv, Unheard, StaysTold
<1>12. ASSUME NEW q \in Msg, NEW j \in Msg, q # m, q # j, j # m, Owns(q, j), Owns(m, j)', j \notin carried PROVE Unanswered(q)'
  BY <1>2, <1>9, <1>10, <1>12 DEF LedgerInv, Unheard, StaysTold
<1>13. Apart'
  BY <1>2, <1>3, <1>12 DEF LedgerInv, Apart, StaysTold
<1>14. NothingLost'
  BY <1>1, <1>2, <1>6, LostStays DEF LedgerInv
<1> QED
  BY <1>1, <1>2, <1>7, <1>11, <1>13, <1>14 DEF LedgerInv, Typed, TurnsGo

(* The prompts of an answered turn reached a model.                        *)
LEMMA AcceptedHeard ==
  ASSUME LedgerInv, NEW l \in live, inb[l.op].turn = "accepted"
  PROVE  /\ l.op \in Msg /\ Sent(l.op) /\ l.op \in landed
         /\ \A k \in l.ids : heard[k] # {} \/ \E o \in InDoubt : k \in SentIds(o)
         /\ \A m \in Msg : Owns(l.op, m) => m \in l.ids
<1>1. l.op \in Msg /\ LiveOK(l)
  BY DEF LedgerInv, Typed, LivesOK, Lives, TurnsGo, Lifecycles
<1>2. Sent(l.op) /\ l.op \in landed
  BY <1>1 DEF LedgerInv, TurnsGo, Turns, TriggerOK, LiveOK, IsRunning
<1>3. claim[l.op].sent /\ (\A m \in claim[l.op].ids : l.op \in heard[m]) /\ l.op \in claim[l.op].ids
  BY <1>1, <1>2 DEF LedgerInv, TurnsGo, Turns, ClaimOK
<1>4. claim[l.op].ids \subseteq l.ids /\ l.ids \subseteq SentIds(l.op)
  BY <1>1, <1>3 DEF LiveOK
<1>5. ASSUME NEW k \in l.ids PROVE heard[k] # {} \/ \E o \in InDoubt : k \in SentIds(o)
  <2>1. CASE k \in claim[l.op].ids
    BY <1>3, <2>1
  <2>2. CASE k \in Msg /\ inb[k].op = l.op /\ inb[k].role = "steer"
    BY <1>1, <1>3, <1>4, <2>2 DEF LedgerInv, TurnsGo, Turns, SteerOK, InDoubt
  <2> QED
    BY <1>3, <1>4, <2>1, <2>2 DEF SentIds
<1> QED
  BY <1>1, <1>2, <1>3, <1>4, <1>5 DEF Owns

(* The rows of a prompt whose turn is answered.                            *)
LEMMA AnsweredKept ==
  ASSUME LedgerInv, NEW l \in live, inb[l.op].turn = "accepted", Commit(l),
         answered' = answered \union {l.op}, live' \subseteq live,
         UNCHANGED <<floor, now, prior, wronged, omitted, carried, claim, escalated, epochNow>>,
         TurnsTyped', LivesOK', TurnsGo', StaysTold, StaysOwned, Received' = Received,
         \A p \in Msg : p # l.op => inb'[p] = inb[p]
  PROVE  LedgerInv'
<1>1. /\ RowsOK' /\ NotesOK' /\ Floored' /\ Reported'
      /\ \A k \in Ids(Unread)' : k \in Ids(Unread) /\ k \notin l.ids
      /\ \A k \in Ids(Unread) : k \in Ids(Unread)' \/ k \in l.ids
  BY CommitRows DEF LedgerInv
<1>2. /\ \A k \in l.ids : heard[k] # {} \/ \E o \in InDoubt : k \in SentIds(o)
      /\ \A m \in Msg : Owns(l.op, m) => m \in l.ids
      /\ l.op \in Msg
  BY AcceptedHeard
<1>3. \A k \in Ids(Unread)' : k \in Msg
  BY <1>1 DEF Ids, Unread, LedgerInv, Typed, RowsOK, LedgerRows
<1>4. Unheard' /\ Apart'
  <2>1. ASSUME NEW p \in Msg, Open(p), p # l.op PROVE Open(p)'
    BY <2>1 DEF Open, IsRunning, Sent
  <2>2. \A m \in Ids(Unread)' : ~Owns(l.op, m)'
    BY <1>1, <1>2, <1>3 DEF StaysOwned
  <2> QED
    BY <1>1, <2>1, <2>2, ReadsStay DEF LedgerInv
<1>5. NothingLost'
  <2>1. \A m \in Ids(Unread) : m \in Ids(Unread)' \/ heard'[m] # {} \/ \E o \in InDoubt' : m \in SentIds(o)'
    <3>1. Ids(Unread) \subseteq Msg
      BY DEF Ids, Unread, LedgerInv, Typed, RowsOK, LedgerRows
    <3> QED
      BY <1>1, <1>2, <3>1 DEF StaysTold
  <2> QED
    BY <2>1, LostStays DEF LedgerInv
<1> QED
  BY <1>1, <1>4, <1>5 DEF LedgerInv, Typed

LEMMA StampKept ==
  ASSUME LedgerInv, NEW l \in live, Stamp(l)
  PROVE  LedgerInv'
<1>1. /\ UNCHANGED <<unreadVars, carried, inb, escalated, epochNow, now, live, answered>>
  BY DEF Stamp
<1>2. now' \in Nat /\ Received' = Received /\ \A p \in Msg : Open(p) => Open(p)'
  BY <1>1 DEF LedgerInv, Typed, NotesOK, Received, Open, IsRunning, Sent
<1> QED
  BY <1>1, <1>2, StampGoing, AsideKept DEF LedgerInv

LEMMA LandKept ==
  ASSUME LedgerInv, NEW o \in Msg, Land(o)
  PROVE  LedgerInv'
<1>1. UNCHANGED <<unreadVars, carried, inb, epochNow, now, live, answered>>
  BY DEF Land
<1>2. now' \in Nat /\ Received' = Received /\ \A p \in Msg : Open(p) => Open(p)'
  BY <1>1 DEF LedgerInv, Typed, NotesOK, Received, Open, IsRunning, Sent
<1> QED
  BY <1>1, <1>2, LandGoing, AsideKept DEF LedgerInv

LEMMA AcceptKept ==
  ASSUME LedgerInv, NEW l \in live, Accept(l)
  PROVE  LedgerInv'
<1>1. UNCHANGED <<unreadVars, carried, epochNow, now, live, answered>>
  BY DEF Accept
<1>2. /\ \A k \in Msg : inb[k].state = "none" => inb'[k].state = "none"
      /\ \A k \in Msg : IsRunning(k) => IsRunning(k)' /\ inb'[k].epoch = inb[k].epoch
  <2> DEFINE o == l.op
  <2>1. o \in Msg /\ IsRunning(o) /\ inb[o].turn = "bound"
    BY DEF Accept, LedgerInv, Typed, LivesOK, Lives, TurnsGo, Lifecycles, LiveOK
  <2>2. \A m \in Msg : ~(m # o /\ inb[m].op = o /\ inb[m].role = "steer" /\ inb[m].turn = "bound")
    BY <2>1 DEF LedgerInv, TurnsGo, Turns, SteerOK
  <2>3. inb'[o] = [inb[o] EXCEPT !.turn = "accepted"] /\ \A m \in Msg : m # o => inb'[m] = inb[m]
    BY <2>1, <2>2, Zenon DEF Accept
  <2>4. inb[o] \in Inbound
    BY <2>1 DEF LedgerInv, Typed, TurnsTyped
  <2> DEFINE r == inb'[o]
  <2>5. r \in Inbound /\ r.turn = "accepted" /\ r.role = inb[o].role /\ r.op = inb[o].op /\ r.state = inb[o].state
        /\ r.epoch = inb[o].epoch
    BY <2>3, <2>4, AcceptedRow, Zenon
  <2>6. \A m \in Msg : m # o => inb'[m] = inb[m]
    BY <2>3, Zenon
  <2> HIDE DEF o
  <2> QED
    BY <2>1, <2>5, <2>6 DEF IsRunning, Sent
<1>3. now' \in Nat /\ Received' \subseteq Received /\ \A p \in Msg : Open(p) => Open(p)'
  <2>1. now' \in Nat
    BY <1>1 DEF LedgerInv, Typed, NotesOK
  <2>2. Received' \subseteq Received
    BY <1>2 DEF Received
  <2>3. \A p \in Msg : Open(p) => Open(p)'
    BY <1>1, <1>2 DEF Open
  <2> QED
    BY <2>1, <2>2, <2>3
<1> QED
  BY <1>1, <1>3, AcceptGoing, AsideKept DEF LedgerInv

LEMMA SettledRows ==
  ASSUME LedgerInv, NEW l \in live, inb' = Settled(l.op), inb[l.op].turn = "accepted"
  PROVE  /\ Received' = Received /\ inb'[l.op].turn = "done"
         /\ \A p \in Msg : p # l.op => inb'[p] = inb[p]
<1>1. l.op \in Msg /\ inb[l.op].state # "none"
  BY DEF LedgerInv, Typed, LivesOK, Lives, TurnsGo, Lifecycles, LiveOK, Turns, TriggerOK, IsRunning
<1>2. /\ inb'[l.op].turn = "done" /\ inb'[l.op].state = "done"
      /\ \A p \in Msg : p # l.op => inb'[p] = inb[p]
  BY <1>1 DEF LedgerInv, Typed, TurnsTyped, Inbound, Settled
<1> QED
  BY <1>1, <1>2 DEF Received

LEMMA CommitsKept ==
  ASSUME LedgerInv, NEW l \in live, Commits(l)
  PROVE  LedgerInv'
<1>1. /\ UNCHANGED <<inb, claim, floor, failed, escalated, epochNow, now, live, landed, heard, omitted, carried,
                     prior, wronged>>
      /\ inb[l.op].turn = "accepted" /\ Commit(l) /\ answered' = answered \union {l.op}
  BY DEF Commits
<1>2. \A r \in ctx' : \E s \in ctx : s.id = r.id
  BY <1>1, CommitRows DEF LedgerInv
<1>3. TurnsTyped' /\ LivesOK' /\ TurnsGo' /\ StaysTold /\ StaysOwned
  <2>1. l.op \in Msg /\ Sent(l.op)
    BY <1>1, AcceptedHeard
  <2> QED
    BY <1>1, <1>2, <2>1, AsideGoing DEF LedgerInv
<1>4. Received' = Received
  BY <1>1 DEF Received
<1> QED
  BY <1>1, <1>3, <1>4, AnsweredKept

LEMMA CompletesKept ==
  ASSUME LedgerInv, NEW l \in live, Completes(l)
  PROVE  LedgerInv'
<1>1. /\ UNCHANGED <<unreadVars, carried, claim, failed, escalated, epochNow, now, landed, heard, answered>>
      /\ inb[l.op].turn = "accepted" /\ inb' = Settled(l.op) /\ live' = live \ {l}
  BY DEF Completes
<1>2. TurnsTyped' /\ LivesOK' /\ TurnsGo' /\ StaysTold /\ StaysOwned
  <2>1. failed' \subseteq Msg /\ \A r \in ctx' : \E s \in ctx : s.id = r.id
    BY <1>1 DEF unreadVars, LedgerInv, Typed, TurnsTyped
  <2> QED
    BY <1>1, <2>1, SettledGoing DEF LedgerInv
<1>3. Received' = Received /\ inb'[l.op].turn = "done" /\ \A p \in Msg : p # l.op => inb'[p] = inb[p]
  BY <1>1, SettledRows
<1>4. ASSUME NEW p \in Msg, Open(p) PROVE Open(p)' \/ Unanswered(p)'
  BY <1>1, <1>3, <1>4 DEF Open, Unanswered, IsRunning, Sent
<1>5. now' \in Nat
  BY <1>1 DEF LedgerInv, Typed, NotesOK
<1> QED
  BY <1>1, <1>2, <1>3, <1>4, <1>5, AsideKept

LEMMA FailsKept ==
  ASSUME LedgerInv, NEW l \in live, NEW spoke \in BOOLEAN, Fails(l, spoke)
  PROVE  LedgerInv'
<1>1. /\ UNCHANGED <<claim, floor, escalated, epochNow, now, landed, heard, omitted, carried, prior, wronged>>
      /\ inb[l.op].turn = "accepted" /\ inb' = Settled(l.op) /\ live' = live \ {l}
      /\ \/ Commit(l) /\ answered' = answered \union {l.op} /\ failed' = failed
         \/ failed' = failed \union {l.op} /\ UNCHANGED <<ctx, omit, untold, answered>>
  BY DEF Fails
<1>2. l.op \in Msg /\ failed' \subseteq Msg
  BY <1>1, AcceptedHeard DEF LedgerInv, Typed, TurnsTyped
<1>3. Received' = Received /\ inb'[l.op].turn = "done" /\ \A p \in Msg : p # l.op => inb'[p] = inb[p]
  BY <1>1, SettledRows
<1>4. CASE Commit(l) /\ answered' = answered \union {l.op}
  <2>1. \A r \in ctx' : \E s \in ctx : s.id = r.id
    BY <1>1, <1>4, CommitRows DEF LedgerInv
  <2>2. TurnsTyped' /\ LivesOK' /\ TurnsGo' /\ StaysTold /\ StaysOwned
    BY <1>1, <1>2, <1>4, <2>1, SettledGoing DEF LedgerInv
  <2> QED
    BY <1>1, <1>3, <1>4, <2>2, AnsweredKept
<1>5. CASE UNCHANGED <<ctx, omit, untold, answered>>
  <2>1. TurnsTyped' /\ LivesOK' /\ TurnsGo' /\ StaysTold /\ StaysOwned
    BY <1>1, <1>2, <1>5, SettledGoing DEF LedgerInv
  <2>2. ASSUME NEW p \in Msg, Open(p) PROVE Open(p)' \/ Unanswered(p)'
    BY <1>1, <1>3, <1>5, <2>2 DEF Open, Unanswered, IsRunning, Sent
  <2>3. now' \in Nat /\ UNCHANGED <<unreadVars, carried>>
    BY <1>1, <1>5 DEF LedgerInv, Typed, NotesOK, unreadVars
  <2> QED
    BY <1>1, <1>3, <2>1, <2>2, <2>3, AsideKept
<1> QED
  BY <1>1, <1>4, <1>5

(* A message steered into a running turn: closed because its prompt had it,*)
(* sent, or taken.                                                         *)
LEMMA SteerKnownKept ==
  ASSUME LedgerInv, NEW l \in live, NEW m \in Msg, SteerKnown(l, m)
  PROVE  LedgerInv'
<1>1. /\ UNCHANGED <<claim, floor, omit, failed, escalated, epochNow, now, live, landed, heard, omitted, untold,
                     answered, carried, prior, wronged>>
      /\ inb[l.op].turn = "accepted" /\ inb[m].state = "pending" /\ inb[m].turn = "none" /\ m \in l.ids
      /\ inb' = [inb EXCEPT ![m] = ClosedInto(@, l.op, epochNow)]
      /\ ctx' = Read({r \in ctx : r.id = m})
  BY DEF SteerKnown, Steerable
<1>2. l.op \in Msg /\ Sent(l.op) /\ l.op \in landed /\ (heard[m] # {} \/ \E o \in InDoubt : m \in SentIds(o))
  BY <1>1, AcceptedHeard
<1>3. heard[m] # {}
  <2>1. LiveOK(l) /\ claim[l.op].sent /\ \A k \in claim[l.op].ids : l.op \in heard[k]
    BY <1>2 DEF LedgerInv, TurnsGo, Lifecycles, Turns, ClaimOK
  <2>2. inb[m].role # "steer" /\ m # l.op
    BY <1>1, <1>2 DEF LedgerInv, TurnsGo, Turns, SteerOK, TriggerOK
  <2>3. m \in claim[l.op].ids
    BY <1>1, <2>1, <2>2 DEF LiveOK, SentIds
  <2> QED
    BY <2>1, <2>3
<1>4. /\ inb'[m].role = "steer" /\ inb'[m].turn = "done" /\ inb'[m].op = l.op /\ inb'[m].epoch = epochNow
      /\ inb'[m].state = "done" /\ inb' \in [Msg -> Inbound] /\ \A k \in Msg : k # m => inb'[k] = inb[k]
  <2>1. inb \in [Msg -> Inbound] /\ epochNow \in Nat
    BY DEF LedgerInv, Typed, TurnsTyped
  <2>2. /\ ClosedInto(inb[m], l.op, epochNow) \in Inbound /\ ClosedInto(inb[m], l.op, epochNow).state = "done"
        /\ ClosedInto(inb[m], l.op, epochNow).turn = "done" /\ ClosedInto(inb[m], l.op, epochNow).role = "steer"
        /\ ClosedInto(inb[m], l.op, epochNow).op = l.op /\ ClosedInto(inb[m], l.op, epochNow).epoch = epochNow
    BY <1>2, <2>1, ClosedIntoIs
  <2>3. inb' = [inb EXCEPT ![m] = ClosedInto(inb[m], l.op, epochNow)]
    BY <1>1
  <2> QED
    BY <2>1, <2>2, <2>3
<1>5. /\ RowsOK' /\ Floored'
      /\ \A r \in ctx' : \E s \in ctx : s.id = r.id
      /\ \A k \in Ids(Unread)' : k \in Ids(Unread)
  BY <1>1, ReadFloored DEF LedgerInv, Typed
<1>6. TurnsTyped' /\ LivesOK' /\ TurnsGo' /\ StaysTold /\ StaysOwned
  <2>1. heard' \in [Msg -> SUBSET Msg] /\ heard'[m] # {} /\ (\A k \in Msg : heard[k] \subseteq heard'[k]) /\ epochNow \in Nat
    BY <1>1, <1>3 DEF LedgerInv, Typed, TurnsTyped
  <2>2. "done" \in {"bound", "done"} /\ "done" # "bound"
    OBVIOUS
  <2> HIDE DEF LedgerInv
  <2>3. Typed /\ TurnsGo
    BY DEF LedgerInv
  <2>4. /\ UNCHANGED <<claim, failed, escalated, epochNow, live, landed, answered>>
        /\ inb[m].state = "pending" /\ inb[m].turn = "none"
    BY <1>1
  <2> QED
    BY <1>2, <1>4, <1>5, <2>1, <2>2, <2>3, <2>4, SteeredGoing
<1>7. Received' = Received /\ \A p \in Msg : Open(p) => Open(p)'
  <2>1. Received' = Received
    BY <1>1, <1>4 DEF Received
  <2>2. \A p \in Msg : Open(p) => Open(p)'
    BY <1>1, <1>4 DEF Open, IsRunning, Sent
  <2> QED
    BY <2>1, <2>2
<1>8. Unheard' /\ Apart'
  BY <1>1, <1>5, <1>6, <1>7, ReadsStay DEF LedgerInv
<1>9. NothingLost'
  <2>1. ASSUME NEW r \in Unread, r.id # m PROVE r.id \in Ids(Unread)'
    <3>1. r \in ctx'
      BY <1>1, <2>1, ReadIs DEF LedgerInv, Typed, Unread
    <3> QED
      BY <3>1 DEF Ids, Unread
  <2>2. \A k \in Ids(Unread) : k \in Ids(Unread)' \/ heard'[k] # {}
    BY <1>1, <1>3, <2>1 DEF Ids
  <2> QED
    BY <1>1, <1>6, <1>7, <2>2, LostStays DEF LedgerInv
<1>10. Typed' /\ Reported'
  BY <1>1, <1>5, <1>6 DEF LedgerInv, Typed, NotesOK, Reported
<1> QED
  BY <1>5, <1>6, <1>8, <1>9, <1>10 DEF LedgerInv

LEMMA SteerIssueKept ==
  ASSUME LedgerInv, NEW l \in live, NEW m \in Msg, SteerIssue(l, m)
  PROVE  LedgerInv'
<1>1. /\ UNCHANGED <<unreadVars, carried, claim, failed, escalated, epochNow, now, live, landed, answered>>
      /\ inb[l.op].turn = "accepted" /\ inb[m].state = "pending" /\ inb[m].turn = "none"
      /\ inb' = [inb EXCEPT ![m].role = "steer", ![m].turn = "bound", ![m].op = l.op, ![m].epoch = epochNow]
      /\ heard' = [heard EXCEPT ![m] = @ \union {l.op}]
  BY DEF SteerIssue, Steerable
<1>2. l.op \in Msg /\ Sent(l.op) /\ l.op \in landed
  BY <1>1, AcceptedHeard
<1>3. /\ inb'[m].role = "steer" /\ inb'[m].turn = "bound" /\ inb'[m].op = l.op /\ inb'[m].epoch = epochNow
      /\ inb'[m].state = "pending" /\ inb' \in [Msg -> Inbound] /\ \A k \in Msg : k # m => inb'[k] = inb[k]
  BY <1>1, <1>2 DEF LedgerInv, Typed, TurnsTyped, Inbound
<1>4. heard' \in [Msg -> SUBSET Msg] /\ heard'[m] # {} /\ (\A k \in Msg : heard[k] \subseteq heard'[k])
  BY <1>1, <1>2 DEF LedgerInv, Typed, TurnsTyped
<1>5. TurnsTyped' /\ LivesOK' /\ TurnsGo' /\ StaysTold /\ StaysOwned
  <2>1. epochNow \in Nat /\ Typed /\ TurnsGo /\ \A r \in ctx' : \E s \in ctx : s.id = r.id
    BY <1>1 DEF LedgerInv, Typed, TurnsTyped, unreadVars
  <2>2. "bound" \in {"bound", "done"} /\ inb[l.op].turn # "bound"
    BY <1>1
  <2>3. UNCHANGED <<claim, failed, escalated, epochNow, live, landed, answered>>
    BY <1>1
  <2>4. inb[m].state = "pending" /\ inb[m].turn = "none"
    BY <1>1
  <2> QED
    BY <1>2, <1>3, <1>4, <2>1, <2>2, <2>3, <2>4, SteeredGoing
<1>6. Received' = Received /\ \A p \in Msg : Open(p) => Open(p)'
  <2>1. Received' = Received
    BY <1>1, <1>3 DEF Received
  <2>2. \A p \in Msg : Open(p) => Open(p)'
    BY <1>1, <1>3 DEF Open, IsRunning, Sent
  <2> QED
    BY <2>1, <2>2
<1>7. now' \in Nat
  BY <1>1 DEF LedgerInv, Typed, NotesOK
<1> QED
  BY <1>1, <1>5, <1>6, <1>7, AsideKept

LEMMA SteerAcceptedKept ==
  ASSUME LedgerInv, NEW l \in live, NEW m \in Msg, SteerAccepted(l, m)
  PROVE  LedgerInv'
<1>1. /\ UNCHANGED <<claim, floor, omit, failed, escalated, epochNow, now, live, landed, heard, omitted, untold,
                     answered, carried, prior, wronged>>
      /\ inb[m].role = "steer" /\ inb[m].turn = "bound"
      /\ inb' = [inb EXCEPT ![m].state = "done", ![m].turn = "done"]
      /\ ctx' = Read({r \in ctx : r.id = m})
  BY DEF SteerAccepted
<1>2. heard[m] # {}
  BY <1>1 DEF LedgerInv, TurnsGo, Turns, SteerOK
<1>3. /\ inb'[m].state = "done" /\ \A k \in Msg : k # m => inb'[k] = inb[k]
  BY <1>1 DEF LedgerInv, Typed, TurnsTyped, Inbound
<1>4. /\ RowsOK' /\ Floored'
      /\ \A r \in ctx' : \E s \in ctx : s.id = r.id
      /\ \A k \in Ids(Unread)' : k \in Ids(Unread)
  BY <1>1, ReadFloored DEF LedgerInv, Typed
<1>5. TurnsTyped' /\ LivesOK' /\ TurnsGo' /\ StaysTold /\ StaysOwned
  BY <1>4, SteerAcceptedGoing DEF LedgerInv
<1>6. Received' \subseteq Received /\ \A p \in Msg : Open(p) => Open(p)'
  <2>1. Received' \subseteq Received
    BY <1>1, <1>3 DEF Received, LedgerInv, TurnsGo, Turns, SteerOK
  <2>2. \A p \in Msg : Open(p) => Open(p)'
    BY <1>1, <1>3 DEF Open, IsRunning, Sent
  <2> QED
    BY <2>1, <2>2
<1>7. Unheard' /\ Apart'
  BY <1>1, <1>4, <1>5, <1>6, ReadsStay DEF LedgerInv
<1>8. NothingLost'
  <2>1. ASSUME NEW r \in Unread, r.id # m PROVE r.id \in Ids(Unread)'
    <3>1. r \in ctx'
      BY <1>1, <2>1, ReadIs DEF LedgerInv, Typed, Unread
    <3> QED
      BY <3>1 DEF Ids, Unread
  <2>2. \A k \in Ids(Unread) : k \in Ids(Unread)' \/ heard'[k] # {}
    BY <1>1, <1>2, <2>1 DEF Ids
  <2> QED
    BY <1>1, <1>5, <1>6, <2>2, LostStays DEF LedgerInv
<1>9. Typed' /\ Reported'
  BY <1>1, <1>4, <1>5 DEF LedgerInv, Typed, NotesOK, Reported
<1> QED
  BY <1>4, <1>5, <1>7, <1>8, <1>9 DEF LedgerInv

LEMMA RequeueKept ==
  ASSUME LedgerInv, NEW o \in Msg, Requeue(o)
  PROVE  LedgerInv'
<1>1. /\ UNCHANGED <<unreadVars, carried, epochNow, now, answered>>
      /\ claim' = [claim EXCEPT ![o] = NoClaim] /\ live' = {l \in live : l.op # o} /\ inb' = Unbound(o)
  BY DEF Requeue
<1>2. TurnsTyped' /\ LivesOK' /\ TurnsGo' /\ StaysTold /\ StaysOwned
  BY RequeueGoing DEF LedgerInv
<1>3. \A k \in Msg : k = o \/ inb'[k] = inb[k]
  <2>1. \A k \in Msg : inb[k].state = "pending" /\ inb[k].op = o => k = o
    <3>1. inb[o].turn = "bound" /\ o \notin landed /\ o \notin escalated
      BY DEF Requeue
    <3> QED
      BY <3>1, NoZero DEF LedgerInv, TurnsGo, Turns, TriggerOK, SteerOK, RestOK, Sent, Typed, TurnsTyped, Inbound
  <2> QED
    BY <1>1, <2>1, Zenon DEF Unbound
<1>4. \A m \in Msg : ~Owns(o, m)'
  BY <1>1 DEF Owns, LedgerInv, Typed, TurnsTyped, NoClaim
<1>5. \A p \in Msg : Open(p) => Open(p)' \/ \A m \in Msg : ~Owns(p, m)'
  BY <1>1, <1>3, <1>4 DEF Open, IsRunning, Sent
<1>6. Received' \subseteq Received
  <2>1. inb[o].state # "none"
    <3>1. inb[o].turn = "bound"
      BY DEF Requeue
    <3> QED
      BY <3>1 DEF LedgerInv, TurnsGo, Turns, TriggerOK, SteerOK, RestOK, Sent, Typed, TurnsTyped, Inbound
  <2> QED
    BY <1>3, <2>1 DEF Received
<1>7. now' \in Nat /\ \A l \in live' : l \in live
  BY <1>1 DEF LedgerInv, Typed, NotesOK
<1> QED
  BY <1>1, <1>2, <1>5, <1>6, <1>7, AsideKept

LEMMA AdoptKept ==
  ASSUME LedgerInv, NEW o \in Msg, Adopt(o)
  PROVE  LedgerInv'
<1>1. /\ UNCHANGED <<unreadVars, carried, inb, epochNow, now, answered>>
      /\ \A l \in live' : l \in live \/ l.rev = -1
  BY DEF Adopt
<1>2. /\ now' \in Nat /\ Received' = Received /\ \A p \in Msg : Open(p) => Open(p)'
      /\ \A l \in live' : l \in live \/ l.rev < omit.rev
  BY <1>1 DEF LedgerInv, Typed, NotesOK, Received, Open, IsRunning, Sent
<1> QED
  BY <1>1, <1>2, AdoptGoing, AsideKept DEF LedgerInv

LEMMA IdleKept ==
  ASSUME LedgerInv, ProcessDies \/ ClockTick
  PROVE  LedgerInv'
<1>1. /\ UNCHANGED <<unreadVars, carried, inb, claim, failed, escalated, epochNow, landed, heard, answered>>
      /\ live' \subseteq live /\ now' \in Nat
  BY DEF ProcessDies, ClockTick, LedgerInv, Typed, NotesOK
<1>2. TurnsTyped' /\ LivesOK' /\ TurnsGo' /\ StaysTold /\ StaysOwned
  <2>1. \A r \in ctx' : \E s \in ctx : s.id = r.id
    BY <1>1 DEF unreadVars
  <2> QED
    BY <1>1, <2>1, AsideGoing DEF LedgerInv
<1>3. Received' = Received /\ \A p \in Msg : Open(p) => Open(p)'
  BY <1>1 DEF Received, Open, IsRunning, Sent
<1> QED
  BY <1>1, <1>2, <1>3, AsideKept

LEMMA EscalateKept ==
  ASSUME LedgerInv, NEW o \in Msg, EscalateHold(o)
  PROVE  LedgerInv'
<1>1. /\ UNCHANGED <<claim, floor, omit, failed, now, landed, heard, omitted, untold, answered, carried, prior, wronged>>
      /\ claim[o].sent /\ inb[o].turn = "bound" /\ o \in Nonterminal
      /\ escalated' = escalated \union {o}
      /\ epochNow' = IF inb[o].epoch < epochNow THEN epochNow ELSE epochNow + 1
      /\ ctx' = Read({r \in ctx : r.id \in SentIds(o)})
  BY DEF EscalateHold
<1>2. /\ RowsOK' /\ Floored'
      /\ \A r \in ctx' : \E s \in ctx : s.id = r.id
      /\ \A k \in Ids(Unread)' : k \in Ids(Unread) /\ k \notin SentIds(o)
  BY <1>1, ReadFloored DEF LedgerInv, Typed
<1>3. /\ TurnsTyped' /\ LivesOK' /\ TurnsGo' /\ StaysTold /\ StaysOwned
      /\ \A k \in Msg : (Sent(k) => inb'[k] = inb[k]) /\ SentIds(k) \subseteq SentIds(k)'
  BY <1>2, EscalateGoing DEF LedgerInv
<1>4. IsRunning(o) /\ inb[o].epoch \in Nat /\ epochNow \in Nat /\ inb[o].epoch <= epochNow
  BY <1>1 DEF Nonterminal, IsRunning, Sent, LedgerInv, Typed, TurnsTyped, Inbound, TurnsGo, Turns, TriggerOK
<1>5. ASSUME NEW p \in Msg, Open(p) PROVE Open(p)' \/ (p = o /\ \A m \in Ids(Unread)' : ~Owns(p, m)')
  <2>1. IsRunning(p) /\ inb'[p] = inb[p] /\ inb[p].epoch = epochNow /\ p \notin answered'
    BY <1>1, <1>3, <1>5 DEF Open, IsRunning
  <2>2. CASE inb[o].epoch < epochNow
    BY <1>1, <2>1, <2>2 DEF Open, IsRunning, Sent
  <2>3. CASE ~(inb[o].epoch < epochNow)
    <3>1. p = o
      BY <1>4, <2>1, <2>3 DEF LedgerInv, TurnsGo, OneCurrent
    <3>2. \A m \in Ids(Unread)' : ~Owns(o, m)'
      BY <1>1, <1>2 DEF Owns, SentIds
    <3> QED
      BY <3>1, <3>2
  <2> QED
    BY <2>2, <2>3
<1>6. Unheard' /\ Apart'
  <2>1. carried \subseteq carried'
    BY <1>1
  <2> QED
    BY <1>2, <1>3, <1>5, <2>1, ReadsStay DEF LedgerInv
<1>7. Received' \subseteq Received
  <2>1. \A k \in Msg : inb[k].state = "none" => inb'[k] = inb[k]
    <3>1. \A k \in Msg : inb[k].state # "pending" => inb'[k] = inb[k]
      BY Zenon DEF EscalateHold
    <3> QED
      BY <3>1
  <2> QED
    BY <2>1 DEF Received
<1>8. NothingLost'
  <2>1. o \in InDoubt' /\ SentIds(o) \subseteq SentIds(o)'
    BY <1>1, <1>3 DEF InDoubt
  <2>2. ASSUME NEW r \in Unread, r.id \notin SentIds(o) PROVE r.id \in Ids(Unread)'
    <3>1. r \in ctx'
      BY <1>1, <2>2, ReadIs DEF LedgerInv, Typed, Unread
    <3> QED
      BY <3>1 DEF Ids, Unread
  <2>3. \A k \in Ids(Unread) : k \in Ids(Unread)' \/ \E p \in InDoubt' : k \in SentIds(p)'
    BY <2>1, <2>2 DEF Ids
  <2> QED
    BY <1>1, <1>3, <1>7, <2>3, LostStays DEF LedgerInv
<1>9. Typed'
  BY <1>1, <1>2, <1>3 DEF LedgerInv, Typed, NotesOK
<1>10. Reported'
  <2>1. \A l \in live' : \E k \in live : l.rev = k.rev /\ l.told = k.told
    <3> DEFINE f == [l \in live |-> IF l.op = o THEN [l EXCEPT !.retired = TRUE] ELSE l]
    <3>1. live' = {f[l] : l \in live} /\ \A l \in live : f[l] = l \/ f[l] = [l EXCEPT !.retired = TRUE]
      BY Zenon DEF EscalateHold
    <3> HIDE DEF f
    <3> QED
      BY <3>1, RetiredLives DEF LedgerInv, TurnsGo
  <2> QED
    BY <1>1, <2>1 DEF LedgerInv, Reported
<1> QED
  BY <1>2, <1>3, <1>6, <1>8, <1>9, <1>10 DEF LedgerInv

LEMMA NewKept ==
  ASSUME LedgerInv, NewConversation
  PROVE  LedgerInv'
<1>1. /\ RowsOK' /\ NotesOK' /\ Floored' /\ Reported'
      /\ \A r \in ctx' : \E s \in ctx : s.id = r.id
      /\ \A k \in Ids(Unread)' : k \in carried'
      /\ \A k \in Ids(Unread) : k \in Ids(Unread)' \/ k \in omitted'
      /\ omitted \subseteq omitted' /\ carried \subseteq carried'
  BY NewRows DEF LedgerInv
<1>2. TurnsTyped' /\ LivesOK' /\ TurnsGo' /\ StaysTold /\ StaysOwned
  BY <1>1, NewGoing DEF LedgerInv
<1>3. Received' \subseteq Received
  <2>1. \A k \in Msg : inb[k].state = "none" => inb'[k] = inb[k]
    <3>1. \A k \in Msg : inb[k].state # "pending" => inb'[k] = inb[k]
      BY Zenon DEF NewConversation
    <3> QED
      BY <3>1
  <2> QED
    BY <2>1 DEF Received
<1>4. Unheard' /\ Apart'
  BY <1>1, <1>2, ReadsStay DEF LedgerInv
<1>5. NothingLost'
  BY <1>1, <1>2, <1>3, LostStays DEF LedgerInv
<1> QED
  BY <1>1, <1>2, <1>4, <1>5 DEF LedgerInv, Typed

LEMMA MaintainKept ==
  ASSUME LedgerInv, ~MayEmpty, Maintain
  PROVE  LedgerInv'
<1>1. /\ RowsOK' /\ NotesOK' /\ Floored' /\ Reported'
      /\ \A r \in ctx' : \E s \in ctx : s.id = r.id
      /\ \A k \in Ids(Unread)' : k \in Ids(Unread)
      /\ \A k \in Ids(Unread) : k \in Ids(Unread)' \/ k \in omitted'
      /\ omitted \subseteq omitted'
  BY MaintainRows DEF LedgerInv
<1>2. UNCHANGED <<inb, claim, failed, escalated, epochNow, now, live, landed, heard, answered, carried>>
  BY DEF Maintain
<1>3. TurnsTyped' /\ LivesOK' /\ TurnsGo' /\ StaysTold /\ StaysOwned
  BY <1>1, <1>2, AsideGoing DEF LedgerInv
<1>4. Received' = Received /\ \A p \in Msg : Open(p) => Open(p)'
  BY <1>2 DEF Received, Open, IsRunning, Sent
<1>5. Unheard' /\ Apart'
  BY <1>1, <1>2, <1>3, <1>4, ReadsStay DEF LedgerInv
<1>6. NothingLost'
  BY <1>1, <1>3, <1>4, LostStays DEF LedgerInv
<1> QED
  BY <1>1, <1>3, <1>5, <1>6 DEF LedgerInv, Typed

LEMMA LedgerStarts == LedgerInit => LedgerInv
<1> SUFFICES ASSUME LedgerInit PROVE LedgerInv
  OBVIOUS
<1>1. /\ ctx = {} /\ live = {} /\ landed = {} /\ failed = {} /\ escalated = {} /\ answered = {} /\ carried = {}
      /\ omitted = {} /\ untold = {} /\ prior = {} /\ wronged = {} /\ epochNow = 1 /\ now = Relevance
      /\ floor = [at |-> 0, row |-> 0] /\ omit = [pending |-> 0, rev |-> 0]
      /\ inb = [m \in Msg |-> NoMessage] /\ claim = [m \in Msg |-> NoClaim] /\ heard = [m \in Msg |-> {}]
  BY DEF LedgerInit
<1>2. Typed
  <2>1. RowsOK
    BY <1>1, FS_EmptySet DEF RowsOK
  <2>2. NotesOK
    BY <1>1, BoundsNat DEF NotesOK
  <2>3. TurnsTyped /\ LivesOK
    BY <1>1 DEF TurnsTyped, LivesOK, NoMessage, NoClaim, Inbound, Claims
  <2> QED
    BY <2>1, <2>2, <2>3 DEF Typed
<1>3. \A m \in Msg : /\ inb[m].role = "none" /\ inb[m].turn = "none" /\ inb[m].op = 0 /\ inb[m].state = "none"
                     /\ ~claim[m].sent /\ claim[m].ids = {}
  BY <1>1 DEF NoMessage, NoClaim
<1>4. TurnsGo
  BY <1>1, <1>3 DEF TurnsGo, Turns, TriggerOK, SteerOK, RestOK, ClaimOK, Sent, Lifecycles, OneCurrent, IsRunning, RowsReceived
<1>5. Floored
  BY <1>1 DEF Floored, Topped
<1>6. Reported
  BY <1>1, FS_EmptySet DEF Reported
<1>7. Unheard /\ Apart
  BY <1>1, <1>3 DEF Unheard, Apart, Owns
<1>8. NothingLost
  BY <1>3 DEF NothingLost, Received
<1> QED
  BY <1>2, <1>4, <1>5, <1>6, <1>7, <1>8 DEF LedgerInv

LEMMA LedgerMoves ==
  ASSUME LedgerInv, ~MayEmpty, [LedgerNext]_ledgerVars
  PROVE  LedgerInv'
<1>1. CASE UNCHANGED ledgerVars
  <2>1. UNCHANGED <<unreadVars, inb, claim, failed, escalated, epochNow, now, live, landed, heard, answered, carried>>
    BY <1>1 DEF ledgerVars, unreadVars
  <2>2. TurnsTyped' /\ LivesOK' /\ TurnsGo' /\ StaysTold /\ StaysOwned
    <3>1. \A r \in ctx' : \E s \in ctx : s.id = r.id
      BY <2>1 DEF unreadVars
    <3> QED
      BY <2>1, <3>1, AsideGoing DEF LedgerInv
  <2>3. Received' = Received /\ (\A p \in Msg : Open(p) => Open(p)') /\ now' \in Nat
    BY <2>1 DEF Received, Open, IsRunning, Sent, LedgerInv, Typed, NotesOK
  <2> QED
    BY <2>1, <2>2, <2>3, AsideKept
<1>2. ASSUME NEW m \in Msg, NEW at \in 0..MaxNow, NEW e \in BOOLEAN, ReceiveMessage(m, at, e) PROVE LedgerInv'
  <2>1. at \in Nat
    BY BoundsNat
  <2> QED
    BY <1>2, <2>1, ReceiveKept
<1>3. ASSUME NEW m \in Msg, Dispatch(m) \/ Land(m) \/ Requeue(m) \/ Adopt(m) \/ EscalateHold(m) PROVE LedgerInv'
  BY <1>3, DispatchKept, LandKept, RequeueKept, AdoptKept, EscalateKept
<1>4. ASSUME NEW l \in live, Stamp(l) \/ Accept(l) \/ Commits(l) \/ Completes(l) \/ Fails(l, TRUE) \/ Fails(l, FALSE)
      PROVE  LedgerInv'
  BY <1>4, StampKept, AcceptKept, CommitsKept, CompletesKept, FailsKept
<1>5. ASSUME NEW l \in live, NEW m \in Msg, SteerKnown(l, m) \/ SteerIssue(l, m) \/ SteerAccepted(l, m) PROVE LedgerInv'
  BY <1>5, SteerKnownKept, SteerIssueKept, SteerAcceptedKept
<1>6. ASSUME ProcessDies \/ NewConversation \/ Maintain \/ ClockTick PROVE LedgerInv'
  BY <1>6, IdleKept, NewKept, MaintainKept
<1> QED
  BY <1>1, <1>2, <1>3, <1>4, <1>5, <1>6 DEF LedgerNext

LEMMA LedgerMeans ==
  ASSUME LedgerInv
  PROVE  LedgerTypeOK /\ LedgerKept
<1>1. LedgerTypeOK
  BY DEF LedgerInv, Typed, RowsOK, TurnsTyped, LedgerRows, Inbound, LedgerTypeOK
<1>2. OmitsOnlyOld /\ OmissionsTold /\ NothingLost
  BY DEF LedgerInv, Floored, Reported, OmitsOnlyOld, OmissionsTold
<1>3. ReadOnce
  <2> SUFFICES ASSUME NEW m \in Msg, m \notin carried
               PROVE  Cardinality({o \in answered \ {m} : m \in claim[o].ids}) <= 1
    BY DEF ReadOnce
  <2> DEFINE S == {o \in answered \ {m} : m \in claim[o].ids}
  <2>1. \A p, q \in S : p = q
    <3>1. S \subseteq Msg /\ \A p \in S : Owns(p, m) /\ p # m /\ ~Unanswered(p)
      BY DEF LedgerInv, Typed, TurnsTyped, Owns, Unanswered
    <3> QED
      BY <3>1 DEF LedgerInv, Apart
  <2> HIDE DEF S
  <2>2. Cardinality(S) <= 1
    <3>1. CASE S = {}
      BY <3>1, FS_EmptySet
    <3>2. CASE S # {}
      <4>1. PICK p \in S : S = {p}
        BY <2>1, <3>2
      <4>2. Cardinality({p}) = 1
        BY FS_Singleton
      <4> QED
        BY <4>1, <4>2
    <3> QED
      BY <3>1, <3>2
  <2> QED
    BY <2>2 DEF S
<1> QED
  BY <1>1, <1>2, <1>3 DEF LedgerKept

(* The rows and the messages of a conversation keep their types.           *)
THEOREM LedgerTypeCorrect == ASSUME ~MayEmpty PROVE LedgerSpec => []LedgerTypeOK
<1> QED
  BY LedgerStarts, LedgerMoves, LedgerMeans, PTL DEF LedgerSpec

(* Every message is unread, seen by a model, reported as omitted, or in a  *)
(* prompt whose arrival nobody can tell; only what is old, cut off or one  *)
(* of too many is omitted; what no answered prompt mentioned is still      *)
(* counted; and no two answered turns read the same unread message, as long*)
(* as pruning never deletes the newest row of the conversation.            *)
THEOREM LedgerAlwaysKept == ASSUME ~MayEmpty PROVE LedgerSpec => []LedgerKept
<1>1. LedgerInit => LedgerInv
  BY LedgerStarts
<1>2. LedgerInv /\ [LedgerNext]_ledgerVars => LedgerInv'
  BY LedgerMoves
<1>3. LedgerInv => LedgerKept
  BY LedgerMeans
<1> QED
  BY <1>1, <1>2, <1>3, PTL DEF LedgerSpec
=============================================================================

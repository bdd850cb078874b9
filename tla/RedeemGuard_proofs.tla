--------------------------- MODULE RedeemGuard_proofs ---------------------------
(***************************************************************************)
(* Proofs about the redeem guard, for every set of addresses and attempts  *)
(* and every value of the limits.                                          *)
(*                                                                         *)
(* The map's operators are pure, so what each of them does to an entry and *)
(* to the others is a lemma of its own.  What they are composed to in a    *)
(* step then rests on two facts: a reservation stands for every attempt    *)
(* under way, and a locked key has none; so nothing that ends an attempt   *)
(* can touch a lockout.                                                    *)
(*                                                                         *)
(* The burn window filters a sequence of any length.  What its filter      *)
(* gives is shown for the first n failures, n by n (UpTo), from which it   *)
(* follows how it treats a sequence cut in two and a later time.  The      *)
(* invariant is that the failures no invalidation followed are the end of  *)
(* the sequence the guard keeps, so that past the limit the guard knows.   *)
(***************************************************************************)
EXTENDS RedeemGuard, FiniteSetTheorems, SequenceTheorems, WellFoundedInduction, TLAPS

Map == [Key -> Entry \cup {NoEntry}]

\* An attempt that is open was begun by an address.
OpenByAddress == \A a \in Attempt : attempts[a].at = "open" => attempts[a].ip \in Ip

\* A lockout that was given and has not ended is still in the map.
LockoutsKept ==
    \A k \in Key : lockEnd[k] > clock => entries[k] # NoEntry /\ entries[k].lockedUntil >= lockEnd[k]

GuardInv ==
    /\ clock \in Nat /\ entries \in Map /\ lockEnd \in [Key -> Nat]
    /\ attempts \in [Attempt -> [at : {"none", "open", "burn", "burned"}, ip : Key]]
    /\ OpenByAddress
    /\ ReservationsExact
    /\ NoOverrun
    /\ LockoutsKept

-----------------------------------------------------------------------------
(* What a map says *)

\* The attempts a key counts as under way.
Held(E, k) == IF E[k] = NoEntry THEN 0 ELSE E[k].inFlight

\* No key has overrun its limit, and none is locked over an attempt under way.
WithinLimit(E, t) ==
    \A k \in Key : E[k] # NoEntry =>
        /\ E[k].failures + E[k].inFlight <= MaxFailures
        /\ E[k].lockedUntil > t => E[k].inFlight = 0

\* A key that can still take a failure.
Room(E, k, t) ==
    E[k] # NoEntry => E[k].failures + E[k].inFlight < MaxFailures /\ E[k].lockedUntil <= t

\* The lockouts of E that have not ended are in C, and end no earlier.
Kept(E, C, t) ==
    \A k \in Key : E[k] # NoEntry /\ E[k].lockedUntil > t =>
        C[k] # NoEntry /\ C[k].lockedUntil >= E[k].lockedUntil

\* What is under k in C is an entry that holds as many attempts as E does there, with room.
Ready(E, C, k, t) ==
    /\ C \in Map /\ C[k] \in Entry
    /\ C[k].inFlight = Held(E, k)
    /\ C[k].lockedUntil <= t \/ (E[k] # NoEntry /\ C[k] = E[k])
    /\ C[k].failures = 0 \/ (E[k] # NoEntry /\ C[k] = E[k] /\ ~WindowOver(E[k], t))
    /\ \A j \in Key \ {k} :
          \/ C[j] = E[j]
          \/ /\ C[j] = NoEntry /\ E[j] # NoEntry
             /\ E[j].inFlight = 0 /\ E[j].lockedUntil <= t

\* An entry's fields are numbers, and the mark for none is no entry.
LEMMA EntryOf ==
    ASSUME NEW E \in Map, NEW k \in Key
    PROVE  /\ E[k] # NoEntry => E[k] \in Entry
           /\ E[k] # NoEntry => /\ E[k].failures \in Nat /\ E[k].inFlight \in Nat
                                /\ E[k].lockedUntil \in Nat /\ E[k].windowStart \in Nat
           /\ Held(E, k) \in Nat
  BY NoEntryAssumption DEF Map, Entry, Held

\* An entry is its four fields.
LEMMA FieldsOf ==
    ASSUME NEW f \in Nat, NEW w \in Nat, NEW l \in Nat, NEW n \in Nat
    PROVE  [failures |-> f, windowStart |-> w, lockedUntil |-> l, inFlight |-> n] \in Entry
  BY DEF Entry

\* Overwriting one field of an entry leaves an entry with the other fields as they were.
LEMMA FieldSet ==
    ASSUME NEW e \in Entry, NEW n \in Nat
    PROVE  /\ [e EXCEPT !.inFlight = n] \in Entry
           /\ [e EXCEPT !.failures = n] \in Entry
           /\ [e EXCEPT !.inFlight = n].inFlight = n
           /\ [e EXCEPT !.inFlight = n].failures = e.failures
           /\ [e EXCEPT !.inFlight = n].lockedUntil = e.lockedUntil
           /\ [e EXCEPT !.inFlight = n].windowStart = e.windowStart
           /\ [e EXCEPT !.failures = n].failures = n
           /\ [e EXCEPT !.failures = n].inFlight = e.inFlight
           /\ [e EXCEPT !.failures = n].lockedUntil = e.lockedUntil
           /\ [e EXCEPT !.failures = n].windowStart = e.windowStart
  BY DEF Entry

\* The sweep drops only what holds no attempt and no lockout that has not ended.
LEMMA SweptDropsIdle ==
    ASSUME NEW E \in Map, NEW t \in Nat
    PROVE  /\ Swept(E, t) \in Map
           /\ \A j \in Key :
                 \/ Swept(E, t)[j] = E[j]
                 \/ /\ Swept(E, t)[j] = NoEntry /\ E[j] # NoEntry
                    /\ E[j].inFlight = 0 /\ E[j].lockedUntil <= t
  BY DEF Swept, Map

\* Looking up the current entry creates or restarts it and keeps its attempts.
LEMMA CurrentIsReady ==
    ASSUME NEW E \in Map, NEW k \in Key, NEW t \in Nat
    PROVE  Ready(E, Current(E, k, t), k, t)
  <1> DEFINE fresh == [failures |-> 0, windowStart |-> t, lockedUntil |-> 0, inFlight |-> 0]
  <1>1. ASSUME E[k] = NoEntry PROVE Ready(E, Current(E, k, t), k, t)
    <2> DEFINE B == IF Tracked(E) >= SweepAt THEN Swept(E, t) ELSE E
    <2>1. fresh \in Entry /\ fresh.failures = 0 /\ fresh.inFlight = 0 /\ fresh.lockedUntil = 0
      BY FieldsOf
    <2>2. /\ B \in Map
          /\ \A j \in Key :
                \/ B[j] = E[j]
                \/ /\ B[j] = NoEntry /\ E[j] # NoEntry
                   /\ E[j].inFlight = 0 /\ E[j].lockedUntil <= t
      BY SweptDropsIdle
    <2>3. Current(E, k, t) = [B EXCEPT ![k] = fresh]
      BY <1>1 DEF Current
    <2> HIDE DEF B, fresh
    <2>4. /\ [B EXCEPT ![k] = fresh] \in Map
          /\ [B EXCEPT ![k] = fresh][k] = fresh
          /\ \A j \in Key \ {k} : [B EXCEPT ![k] = fresh][j] = B[j]
      BY <2>1, <2>2 DEF Map
    <2>5. Held(E, k) = 0
      BY <1>1 DEF Held
    <2> QED BY <2>1, <2>2, <2>3, <2>4, <2>5 DEF Ready
  <1>2. ASSUME E[k] # NoEntry, WindowOver(E[k], t) PROVE Ready(E, Current(E, k, t), k, t)
    <2> DEFINE e == [failures |-> 0, windowStart |-> t, lockedUntil |-> 0,
                     inFlight |-> E[k].inFlight]
    <2>1. E[k] \in Entry /\ E[k].inFlight \in Nat
      BY <1>2, EntryOf
    <2>2. e \in Entry /\ e.failures = 0 /\ e.lockedUntil = 0 /\ e.inFlight = E[k].inFlight
      BY <2>1, FieldsOf
    <2>3. Current(E, k, t) =
            [E EXCEPT ![k].failures = 0, ![k].windowStart = t, ![k].lockedUntil = 0]
      BY <1>2 DEF Current
    <2>4. Current(E, k, t) = [E EXCEPT ![k] = e]
      BY <2>1, <2>3 DEF Map, Entry
    <2> HIDE DEF e
    <2>5. /\ [E EXCEPT ![k] = e] \in Map
          /\ [E EXCEPT ![k] = e][k] = e
          /\ \A j \in Key \ {k} : [E EXCEPT ![k] = e][j] = E[j]
      BY <2>2 DEF Map
    <2>6. Held(E, k) = E[k].inFlight
      BY <1>2 DEF Held
    <2> QED BY <2>2, <2>4, <2>5, <2>6 DEF Ready
  <1>3. ASSUME E[k] # NoEntry, ~WindowOver(E[k], t) PROVE Ready(E, Current(E, k, t), k, t)
    <2>1. Current(E, k, t) = E
      BY <1>3 DEF Current
    <2>2. E[k] \in Entry /\ Held(E, k) = E[k].inFlight
      BY <1>3, EntryOf DEF Held
    <2> QED BY <1>3, <2>1, <2>2 DEF Ready
  <1> QED BY <1>1, <1>2, <1>3

\* Reserving a key that is not blocked takes one more attempt, on that key only, and no
\* lockout is touched; a key that was not blocked before is not blocked by another's entry.
LEMMA ReserveTakesOne ==
    ASSUME NEW E \in Map, NEW k \in Key, NEW t \in Nat,
           WithinLimit(E, t), ~Blocked(E, k, t)
    PROVE  /\ Reserve(E, k, t) \in Map
           /\ WithinLimit(Reserve(E, k, t), t)
           /\ Kept(E, Reserve(E, k, t), t)
           /\ Held(Reserve(E, k, t), k) = Held(E, k) + 1
           /\ \A j \in Key \ {k} : /\ Held(Reserve(E, k, t), j) = Held(E, j)
                                   /\ ~Blocked(E, j, t) => ~Blocked(Reserve(E, k, t), j, t)
  <1> DEFINE C == Current(E, k, t)
             e == [C[k] EXCEPT !.inFlight = C[k].inFlight + 1]
             R == [C EXCEPT ![k] = e]
  <1>1. Ready(E, C, k, t)
    BY CurrentIsReady
  <1>2. Reserve(E, k, t) = R
    BY DEF Reserve
  <1> HIDE DEF C
  <1>3. /\ C \in Map /\ C[k] \in Entry /\ C[k].inFlight \in Nat /\ C[k].failures \in Nat
        /\ C[k].lockedUntil \in Nat
    BY <1>1 DEF Ready, Entry
  <1>4. /\ e \in Entry /\ e.inFlight = C[k].inFlight + 1 /\ e.failures = C[k].failures
        /\ e.lockedUntil = C[k].lockedUntil
    <2>1. C[k].inFlight + 1 \in Nat
      BY <1>3
    <2> QED BY <2>1, <1>3, FieldSet
  <1> HIDE DEF e
  <1>5. /\ R \in Map /\ R[k] = e /\ e # NoEntry
        /\ \A j \in Key \ {k} : R[j] = C[j]
    BY <1>3, <1>4, NoEntryAssumption DEF Map
  <1> HIDE DEF R
  <1>6. C[k].lockedUntil <= t
    BY <1>1, <1>3, EntryOf DEF Ready, Blocked
  <1>7. C[k].failures + C[k].inFlight < MaxFailures
    <2>1. ASSUME E[k] = NoEntry PROVE C[k].failures = 0 /\ C[k].inFlight = 0
      BY <1>1, <2>1 DEF Ready, Held
    <2>2. ASSUME E[k] # NoEntry PROVE C[k].failures + C[k].inFlight < MaxFailures
      <3>1. /\ C[k].inFlight = E[k].inFlight
            /\ C[k].failures = 0 \/ (C[k].failures = E[k].failures /\ ~WindowOver(E[k], t))
        BY <1>1, <2>2 DEF Ready, Held
      <3>2. ~((IF WindowOver(E[k], t) THEN 0 ELSE E[k].failures) + E[k].inFlight >= MaxFailures)
        BY <2>2 DEF Blocked
      <3>3. E[k].failures \in Nat /\ E[k].inFlight \in Nat /\ MaxFailures \in Nat
        BY <2>2, EntryOf, GuardAssumption
      <3> HIDE DEF WindowOver
      <3> QED BY <3>1, <3>2, <3>3
    <2> QED BY <2>1, <2>2, GuardAssumption
  <1>8. WithinLimit(R, t)
    <2> SUFFICES ASSUME NEW j \in Key, R[j] # NoEntry
                 PROVE  /\ R[j].failures + R[j].inFlight <= MaxFailures
                        /\ R[j].lockedUntil > t => R[j].inFlight = 0
      BY DEF WithinLimit
    <2>1. CASE j = k
      BY <2>1, <1>3, <1>4, <1>5, <1>6, <1>7, GuardAssumption
    <2>2. CASE j # k
      <3>1. R[j] = E[j]
        BY <2>2, <1>1, <1>5 DEF Ready
      <3> QED BY <3>1 DEF WithinLimit
    <2> QED BY <2>1, <2>2
  <1>9. Kept(E, R, t)
    <2> SUFFICES ASSUME NEW j \in Key, E[j] # NoEntry, E[j].lockedUntil > t
                 PROVE  R[j] # NoEntry /\ R[j].lockedUntil >= E[j].lockedUntil
      BY DEF Kept
    <2>0. E[j].lockedUntil \in Nat
      BY EntryOf
    <2>1. j # k
      BY DEF Blocked
    <2>2. R[j] = E[j]
      BY <2>0, <2>1, <1>1, <1>5 DEF Ready
    <2> QED BY <2>0, <2>2
  <1>10. Held(R, k) = Held(E, k) + 1
    BY <1>1, <1>4, <1>5 DEF Held, Ready
  <1>11. ASSUME NEW j \in Key \ {k}
         PROVE  /\ Held(R, j) = Held(E, j)
                /\ ~Blocked(E, j, t) => ~Blocked(R, j, t)
    <2>1. R[j] = E[j] \/ (R[j] = NoEntry /\ E[j] # NoEntry /\ E[j].inFlight = 0)
      BY <1>1, <1>5 DEF Ready
    <2> QED BY <2>1 DEF Held, Blocked
  <1> QED BY <1>2, <1>5, <1>8, <1>9, <1>10, <1>11

\* Ending an attempt gives back one, on that key only; no lockout is touched, and the key
\* can take the failure that its reservation stood for.
LEMMA EndGivesBackOne ==
    ASSUME NEW E \in Map, NEW k \in Key, NEW t \in Nat,
           WithinLimit(E, t), Held(E, k) > 0
    PROVE  /\ EndAttempt(E, k, t) \in Map
           /\ WithinLimit(EndAttempt(E, k, t), t)
           /\ Kept(E, EndAttempt(E, k, t), t)
           /\ Held(EndAttempt(E, k, t), k) = Held(E, k) - 1
           /\ Room(EndAttempt(E, k, t), k, t)
           /\ \A j \in Key \ {k} : EndAttempt(E, k, t)[j] = E[j]
  <1> DEFINE n == E[k].inFlight - 1
             drop == n = 0 /\ (E[k].failures = 0 \/ WindowOver(E[k], t))
             e == [E[k] EXCEPT !.inFlight = n]
             R == [E EXCEPT ![k] = IF drop THEN NoEntry ELSE e]
  <1>1. /\ E[k] # NoEntry /\ Held(E, k) = E[k].inFlight
        /\ E[k] \in Entry /\ E[k].inFlight \in Nat /\ E[k].failures \in Nat
        /\ E[k].lockedUntil \in Nat /\ n \in Nat
    BY EntryOf DEF Held
  <1>2. EndAttempt(E, k, t) = R
    BY <1>1, Zenon DEF EndAttempt
  <1>3. /\ e \in Entry /\ e.inFlight = n /\ e.failures = E[k].failures
        /\ e.lockedUntil = E[k].lockedUntil
    BY <1>1, FieldSet
  <1>4. E[k].lockedUntil <= t /\ E[k].failures + E[k].inFlight <= MaxFailures
    BY <1>1 DEF WithinLimit
  <1> HIDE DEF e, drop
  <1>5. /\ R \in Map /\ (R[k] = NoEntry \/ R[k] = e)
        /\ \A j \in Key \ {k} : R[j] = E[j]
    BY <1>3 DEF Map
  <1>6. R[k] = NoEntry => n = 0
    BY <1>3, NoEntryAssumption DEF drop, Map
  <1> HIDE DEF R
  <1>7. Held(R, k) = Held(E, k) - 1
    BY <1>1, <1>3, <1>5, <1>6, NoEntryAssumption DEF Held
  <1>8. Room(R, k, t)
    BY <1>1, <1>3, <1>4, <1>5, GuardAssumption DEF Room
  <1>9. WithinLimit(R, t)
    <2> SUFFICES ASSUME NEW j \in Key, R[j] # NoEntry
                 PROVE  /\ R[j].failures + R[j].inFlight <= MaxFailures
                        /\ R[j].lockedUntil > t => R[j].inFlight = 0
      BY DEF WithinLimit
    <2>1. CASE j = k
      BY <2>1, <1>1, <1>3, <1>4, <1>5, GuardAssumption
    <2>2. CASE j # k
      BY <2>2, <1>5 DEF WithinLimit
    <2> QED BY <2>1, <2>2
  <1>10. Kept(E, R, t)
    <2> SUFFICES ASSUME NEW j \in Key, E[j] # NoEntry, E[j].lockedUntil > t
                 PROVE  R[j] # NoEntry /\ R[j].lockedUntil >= E[j].lockedUntil
      BY DEF Kept
    <2>1. E[j].lockedUntil \in Nat /\ j # k
      BY <1>1, <1>4, EntryOf
    <2> QED BY <2>1, <1>5
  <1> QED BY <1>2, <1>5, <1>7, <1>8, <1>9, <1>10

\* Counting a failure on a key that has room for it holds what was held; it may lock the
\* key, and then nothing is under way on it.
LEMMA CountFillsTheRoom ==
    ASSUME NEW E \in Map, NEW k \in Key, NEW t \in Nat,
           WithinLimit(E, t), Room(E, k, t)
    PROVE  /\ Count(E, k, t) \in Map
           /\ WithinLimit(Count(E, k, t), t)
           /\ Kept(E, Count(E, k, t), t)
           /\ \A j \in Key : Held(Count(E, k, t), j) = Held(E, j)
           /\ \A j \in Key \ {k} : Room(E, j, t) => Room(Count(E, k, t), j, t)
  <1> DEFINE C == Current(E, k, t)
             n == C[k].failures + 1
             w == IF n = 1 THEN t ELSE C[k].windowStart
             l == IF n >= MaxFailures THEN t + LockoutMs ELSE C[k].lockedUntil
             e == [failures |-> n, windowStart |-> w, lockedUntil |-> l,
                   inFlight |-> C[k].inFlight]
             R == [C EXCEPT ![k] = e]
  <1>1. Ready(E, C, k, t)
    BY CurrentIsReady
  <1>2. Count(E, k, t) =
          [C EXCEPT ![k].windowStart = IF n = 1 THEN t ELSE @,
                    ![k].failures = n,
                    ![k].lockedUntil = IF n >= MaxFailures THEN t + LockoutMs ELSE @]
    BY DEF Count
  <1> HIDE DEF C
  <1>3. /\ C \in Map /\ C[k] \in Entry /\ C[k].inFlight \in Nat /\ C[k].failures \in Nat
        /\ C[k].lockedUntil \in Nat /\ C[k].windowStart \in Nat
    BY <1>1 DEF Ready, Entry
  <1>4. Count(E, k, t) = R
    BY <1>2, <1>3 DEF Map, Entry
  <1>5. n \in Nat /\ w \in Nat /\ l \in Nat
    BY <1>3, GuardAssumption
  <1>6. /\ e \in Entry /\ e.inFlight = C[k].inFlight /\ e.failures = n /\ e.lockedUntil = l
    BY <1>3, <1>5, FieldsOf
  <1> HIDE DEF e
  <1>7. /\ R \in Map /\ R[k] = e /\ e # NoEntry
        /\ \A j \in Key \ {k} : R[j] = C[j]
    BY <1>3, <1>6, NoEntryAssumption DEF Map
  <1> HIDE DEF R
  <1>8. C[k].lockedUntil <= t /\ C[k].failures + C[k].inFlight < MaxFailures
    <2>1. CASE E[k] = NoEntry
      <3>1. C[k].failures = 0 /\ C[k].inFlight = 0 /\ C[k].lockedUntil <= t
        BY <1>1, <2>1 DEF Ready, Held
      <3> QED BY <3>1, GuardAssumption
    <2>2. CASE E[k] # NoEntry
      <3>1. /\ C[k].inFlight = E[k].inFlight
            /\ C[k].failures = 0 \/ C[k].failures = E[k].failures
            /\ C[k].lockedUntil <= t
        BY <1>1, <2>2 DEF Ready, Held, Room
      <3>2. E[k].failures \in Nat /\ E[k].inFlight \in Nat /\ MaxFailures \in Nat
        BY <2>2, EntryOf, GuardAssumption
      <3> QED BY <2>2, <3>1, <3>2 DEF Room
    <2> QED BY <2>1, <2>2
  <1>9. ASSUME NEW j \in Key \ {k} PROVE Held(R, j) = Held(E, j)
    BY <1>1, <1>7 DEF Ready, Held
  <1>10. Held(R, k) = Held(E, k)
    BY <1>1, <1>6, <1>7 DEF Ready, Held
  <1>11. WithinLimit(R, t)
    <2> SUFFICES ASSUME NEW j \in Key, R[j] # NoEntry
                 PROVE  /\ R[j].failures + R[j].inFlight <= MaxFailures
                        /\ R[j].lockedUntil > t => R[j].inFlight = 0
      BY DEF WithinLimit
    <2>1. CASE j = k
      BY <2>1, <1>3, <1>6, <1>7, <1>8, GuardAssumption
    <2>2. CASE j # k
      <3>1. R[j] = E[j]
        BY <2>2, <1>1, <1>7 DEF Ready
      <3> QED BY <3>1 DEF WithinLimit
    <2> QED BY <2>1, <2>2
  <1>12. Kept(E, R, t)
    <2> SUFFICES ASSUME NEW j \in Key, E[j] # NoEntry, E[j].lockedUntil > t
                 PROVE  R[j] # NoEntry /\ R[j].lockedUntil >= E[j].lockedUntil
      BY DEF Kept
    <2>1. E[j].lockedUntil \in Nat
      BY EntryOf
    <2>2. j # k
      BY <2>1 DEF Room
    <2>3. R[j] = E[j]
      BY <2>1, <2>2, <1>1, <1>7 DEF Ready
    <2> QED BY <2>1, <2>3
  <1>13. ASSUME NEW j \in Key \ {k}, Room(E, j, t) PROVE Room(R, j, t)
    <2>1. R[j] = E[j] \/ R[j] = NoEntry
      BY <1>1, <1>7 DEF Ready
    <2> QED BY <2>1, <1>13 DEF Room
  <1> QED BY <1>4, <1>7, <1>9, <1>10, <1>11, <1>12, <1>13

\* What is kept twice is kept.
LEMMA KeptIsTransitive ==
    ASSUME NEW E \in Map, NEW C \in Map, NEW R \in Map, NEW t \in Nat,
           Kept(E, C, t), Kept(C, R, t)
    PROVE  Kept(E, R, t)
  <1> SUFFICES ASSUME NEW k \in Key, E[k] # NoEntry, E[k].lockedUntil > t
               PROVE  R[k] # NoEntry /\ R[k].lockedUntil >= E[k].lockedUntil
    BY DEF Kept
  <1>1. C[k] # NoEntry /\ C[k].lockedUntil >= E[k].lockedUntil
    BY DEF Kept
  <1>2. E[k].lockedUntil \in Nat /\ C[k].lockedUntil \in Nat
    BY <1>1, EntryOf
  <1>3. R[k] # NoEntry /\ R[k].lockedUntil >= C[k].lockedUntil
    BY <1>1, <1>2 DEF Kept
  <1>4. R[k].lockedUntil \in Nat
    BY <1>3, EntryOf
  <1> QED BY <1>1, <1>2, <1>3, <1>4

\* Beginning an attempt takes one on the global key and on the address.
LEMMA BeginTakesBoth ==
    ASSUME NEW E \in Map, NEW ip \in Ip, NEW t \in Nat,
           WithinLimit(E, t), ~Blocked(E, Global, t), ~Blocked(E, ip, t)
    PROVE  LET R == Reserve(Reserve(E, Global, t), ip, t)
           IN  /\ R \in Map /\ WithinLimit(R, t) /\ Kept(E, R, t)
               /\ \A k \in Key : Held(R, k) = Held(E, k) + (IF k \in {Global, ip} THEN 1 ELSE 0)
  <1> DEFINE A == Reserve(E, Global, t)
             R == Reserve(A, ip, t)
  <1>1. Global \in Key /\ ip \in Key /\ Global # ip
    BY GuardAssumption DEF Key
  <1>2. /\ A \in Map /\ WithinLimit(A, t) /\ Kept(E, A, t)
        /\ Held(A, Global) = Held(E, Global) + 1
        /\ \A j \in Key \ {Global} : /\ Held(A, j) = Held(E, j)
                                     /\ ~Blocked(E, j, t) => ~Blocked(A, j, t)
    BY <1>1, ReserveTakesOne
  <1>3. ~Blocked(A, ip, t)
    BY <1>1, <1>2
  <1> HIDE DEF A
  <1>4. /\ R \in Map /\ WithinLimit(R, t) /\ Kept(A, R, t)
        /\ Held(R, ip) = Held(A, ip) + 1
        /\ \A j \in Key \ {ip} : Held(R, j) = Held(A, j)
    BY <1>1, <1>2, <1>3, ReserveTakesOne
  <1> HIDE DEF R
  <1>5. Kept(E, R, t)
    BY <1>2, <1>4, KeptIsTransitive
  <1>6. ASSUME NEW k \in Key
        PROVE  Held(R, k) = Held(E, k) + (IF k \in {Global, ip} THEN 1 ELSE 0)
    <2>0. Held(E, k) \in Nat
      BY EntryOf
    <2>1. CASE k = Global
      BY <2>1, <1>1, <1>2, <1>4
    <2>2. CASE k = ip
      BY <2>2, <1>1, <1>2, <1>4
    <2>3. CASE k # Global /\ k # ip
      BY <2>0, <2>3, <1>2, <1>4
    <2> QED BY <2>1, <2>2, <2>3
  <1> QED BY <1>4, <1>5, <1>6 DEF A, R

\* Releasing an attempt gives back one on both keys, with room for its failure on both.
LEMMA ReleaseGivesBackBoth ==
    ASSUME NEW E \in Map, NEW ip \in Ip, NEW t \in Nat,
           WithinLimit(E, t), Held(E, Global) > 0, Held(E, ip) > 0
    PROVE  LET R == Release(E, ip, t)
           IN  /\ R \in Map /\ WithinLimit(R, t) /\ Kept(E, R, t)
               /\ Room(R, Global, t) /\ Room(R, ip, t)
               /\ \A k \in Key : Held(R, k) = Held(E, k) - (IF k \in {Global, ip} THEN 1 ELSE 0)
  <1> DEFINE A == EndAttempt(E, Global, t)
             R == EndAttempt(A, ip, t)
  <1>1. Global \in Key /\ ip \in Key /\ Global # ip
    BY GuardAssumption DEF Key
  <1>2. /\ A \in Map /\ WithinLimit(A, t) /\ Kept(E, A, t)
        /\ Held(A, Global) = Held(E, Global) - 1 /\ Room(A, Global, t)
        /\ \A j \in Key \ {Global} : A[j] = E[j]
    BY <1>1, EndGivesBackOne
  <1> HIDE DEF A
  <1>3. Held(A, ip) > 0
    BY <1>1, <1>2 DEF Held
  <1>4. /\ R \in Map /\ WithinLimit(R, t) /\ Kept(A, R, t)
        /\ Held(R, ip) = Held(A, ip) - 1 /\ Room(R, ip, t)
        /\ \A j \in Key \ {ip} : R[j] = A[j]
    BY <1>1, <1>2, <1>3, EndGivesBackOne
  <1> HIDE DEF R
  <1>5. Kept(E, R, t)
    BY <1>2, <1>4, KeptIsTransitive
  <1>6. Room(R, Global, t)
    BY <1>1, <1>2, <1>4 DEF Room
  <1>7. ASSUME NEW k \in Key
        PROVE  Held(R, k) = Held(E, k) - (IF k \in {Global, ip} THEN 1 ELSE 0)
    <2>0. Held(E, k) \in Nat
      BY EntryOf
    <2>1. CASE k = Global
      <3>1. Held(R, k) = Held(A, k)
        BY <2>1, <1>1, <1>4 DEF Held
      <3> QED BY <2>1, <3>1, <1>2
    <2>2. CASE k = ip
      <3>1. Held(A, k) = Held(E, k)
        BY <2>2, <1>1, <1>2 DEF Held
      <3> QED BY <2>2, <3>1, <1>4
    <2>3. CASE k # Global /\ k # ip
      <3>1. Held(R, k) = Held(E, k)
        BY <2>3, <1>2, <1>4 DEF Held
      <3> QED BY <2>0, <2>3, <3>1
    <2> QED BY <2>1, <2>2, <2>3
  <1> QED BY <1>4, <1>5, <1>6, <1>7 DEF A, R, Release

\* Counting a failure on both keys holds what was held and keeps every lockout.
LEMMA CountFillsBoth ==
    ASSUME NEW E \in Map, NEW ip \in Ip, NEW t \in Nat,
           WithinLimit(E, t), Room(E, Global, t), Room(E, ip, t)
    PROVE  LET C == Count(Count(E, Global, t), ip, t)
           IN  /\ C \in Map /\ WithinLimit(C, t) /\ Kept(E, C, t)
               /\ \A k \in Key : Held(C, k) = Held(E, k)
  <1> DEFINE A == Count(E, Global, t)
             C == Count(A, ip, t)
  <1>1. Global \in Key /\ ip \in Key /\ Global # ip
    BY GuardAssumption DEF Key
  <1>2. /\ A \in Map /\ WithinLimit(A, t) /\ Kept(E, A, t)
        /\ \A j \in Key : Held(A, j) = Held(E, j)
        /\ Room(A, ip, t)
    BY <1>1, CountFillsTheRoom
  <1> HIDE DEF A
  <1>3. /\ C \in Map /\ WithinLimit(C, t) /\ Kept(A, C, t)
        /\ \A j \in Key : Held(C, j) = Held(A, j)
    BY <1>1, <1>2, CountFillsTheRoom
  <1> HIDE DEF C
  <1>4. Kept(E, C, t)
    BY <1>2, <1>3, KeptIsTransitive
  <1> QED BY <1>2, <1>3, <1>4 DEF A, C

-----------------------------------------------------------------------------
(* The steps *)

\* The guard's invariant and what it says of the map.
LEMMA InvFacts ==
    ASSUME GuardInv
    PROVE  /\ clock \in Nat /\ entries \in Map /\ WithinLimit(entries, clock)
           /\ \A k \in Key : Cardinality(OpenOn(k)) = Held(entries, k)
           /\ \A k \in Key : IsFiniteSet(OpenOn(k))
           /\ \A k \in Key : lockEnd[k] > clock =>
                 entries[k] # NoEntry /\ entries[k].lockedUntil >= lockEnd[k]
  <1>1. \A k \in Key : IsFiniteSet(OpenOn(k))
    BY GuardAssumption, FS_Subset DEF OpenOn
  <1>2. \A k \in Key : Cardinality(OpenOn(k)) = Held(entries, k)
    BY DEF GuardInv, ReservationsExact, Held
  <1> QED BY <1>1, <1>2 DEF GuardInv, NoOverrun, WithinLimit, LockoutsKept

\* A key of an attempt under way holds at least that one.
LEMMA OpenIsHeld ==
    ASSUME GuardInv, NEW a \in Attempt, attempts[a].at = "open"
    PROVE  /\ attempts[a].ip \in Ip
           /\ \A k \in {Global, attempts[a].ip} : Held(entries, k) > 0
  <1>1. attempts[a].ip \in Ip
    BY DEF GuardInv, OpenByAddress
  <1>2. ASSUME NEW k \in {Global, attempts[a].ip} PROVE Held(entries, k) > 0
    <2>1. k \in Key /\ a \in OpenOn(k)
      BY <1>1, <1>2 DEF Key, OpenOn
    <2>2. Cardinality(OpenOn(k)) = Held(entries, k) /\ IsFiniteSet(OpenOn(k))
      BY <2>1, InvFacts
    <2>3. Cardinality(OpenOn(k)) # 0
      BY <2>1, <2>2, FS_EmptySet
    <2>4. Held(entries, k) \in Nat
      BY <2>1, EntryOf, InvFacts
    <2> QED BY <2>2, <2>3, <2>4
  <1> QED BY <1>1, <1>2

\* The counts follow an attempt that begins.
LEMMA OneMoreOpen ==
    ASSUME GuardInv, NEW a \in Attempt, NEW ip \in Ip, attempts[a].at = "none",
           attempts' = [attempts EXCEPT ![a] = [at |-> "open", ip |-> ip]],
           entries' \in Map,
           \A k \in Key : Held(entries', k) =
                             Held(entries, k) + (IF k \in {Global, ip} THEN 1 ELSE 0)
    PROVE  ReservationsExact'
  <1> SUFFICES ASSUME NEW k \in Key PROVE Cardinality(OpenOn(k)') = Held(entries', k)
    BY DEF ReservationsExact, Held
  <1>1. /\ Cardinality(OpenOn(k)) = Held(entries, k) /\ IsFiniteSet(OpenOn(k))
        /\ Held(entries, k) \in Nat
    BY InvFacts, EntryOf
  <1>2. /\ \A b \in Attempt \ {a} : attempts'[b] = attempts[b]
        /\ attempts'[a] = [at |-> "open", ip |-> ip]
    BY DEF GuardInv
  <1>3. CASE k \in {Global, ip}
    <2>1. a \notin OpenOn(k)
      BY DEF OpenOn
    <2>2. OpenOn(k)' = OpenOn(k) \cup {a}
      BY <1>2, <1>3 DEF OpenOn
    <2>3. Cardinality(OpenOn(k) \cup {a}) = Cardinality(OpenOn(k)) + 1
      BY <1>1, <2>1, FS_AddElement
    <2> QED BY <1>1, <1>3, <2>2, <2>3
  <1>4. CASE k \notin {Global, ip}
    <2>1. OpenOn(k)' = OpenOn(k)
      BY <1>2, <1>4 DEF OpenOn
    <2> QED BY <1>1, <1>4, <2>1
  <1> QED BY <1>3, <1>4

\* The counts follow an attempt that ends.
LEMMA OneFewerOpen ==
    ASSUME GuardInv, NEW a \in Attempt, attempts[a].at = "open",
           \A b \in Attempt \ {a} : attempts'[b] = attempts[b],
           attempts'[a].at # "open",
           entries' \in Map,
           \A k \in Key : Held(entries', k) =
              Held(entries, k) - (IF k \in {Global, attempts[a].ip} THEN 1 ELSE 0)
    PROVE  ReservationsExact'
  <1> SUFFICES ASSUME NEW k \in Key PROVE Cardinality(OpenOn(k)') = Held(entries', k)
    BY DEF ReservationsExact, Held
  <1>1. /\ Cardinality(OpenOn(k)) = Held(entries, k) /\ IsFiniteSet(OpenOn(k))
        /\ Held(entries, k) \in Nat
    BY InvFacts, EntryOf
  <1>2. CASE k \in {Global, attempts[a].ip}
    <2>1. a \in OpenOn(k)
      BY <1>2 DEF OpenOn
    <2>2. OpenOn(k)' = OpenOn(k) \ {a}
      BY DEF OpenOn
    <2>3. Cardinality(OpenOn(k) \ {a}) = Cardinality(OpenOn(k)) - 1
      BY <1>1, <2>1, FS_RemoveElement
    <2> QED BY <1>1, <1>2, <2>2, <2>3
  <1>3. CASE k \notin {Global, attempts[a].ip}
    <2>1. OpenOn(k)' = OpenOn(k)
      BY <1>3 DEF OpenOn
    <2> QED BY <1>1, <1>3, <2>1
  <1> QED BY <1>2, <1>3

\* A map that keeps the lockouts keeps what the keys were told, while the clock stands.
LEMMA KeptLockouts ==
    ASSUME GuardInv, clock' = clock, lockEnd' = lockEnd, entries' \in Map,
           Kept(entries, entries', clock)
    PROVE  LockoutsKept'
  <1> SUFFICES ASSUME NEW k \in Key, lockEnd[k] > clock
               PROVE  entries'[k] # NoEntry /\ entries'[k].lockedUntil >= lockEnd[k]
    BY DEF LockoutsKept
  <1>1. entries[k] # NoEntry /\ entries[k].lockedUntil >= lockEnd[k]
    BY InvFacts
  <1>2. lockEnd[k] \in Nat /\ clock \in Nat /\ entries[k].lockedUntil \in Nat
    BY <1>1, EntryOf DEF GuardInv
  <1>3. entries'[k] # NoEntry /\ entries'[k].lockedUntil >= entries[k].lockedUntil
    BY <1>1, <1>2 DEF Kept
  <1>4. entries'[k].lockedUntil \in Nat
    BY <1>3, EntryOf
  <1> QED BY <1>1, <1>2, <1>3, <1>4

\* The limit that the map keeps is the run's property.
LEMMA WithinIsNoOverrun ==
    ASSUME WithinLimit(entries', clock')
    PROVE  NoOverrun'
  BY DEF WithinLimit, NoOverrun

\* begin() keeps the invariant.
LEMMA BeginKeeps ==
    ASSUME GuardInv, NEW a \in Attempt, NEW ip \in Ip, Begin(a, ip)
    PROVE  GuardInv'
  <1>1. /\ clock \in Nat /\ entries \in Map /\ WithinLimit(entries, clock)
    BY InvFacts
  <1>2. /\ entries' = Reserve(Reserve(entries, Global, clock), ip, clock)
        /\ clock' = clock /\ lockEnd' = lockEnd /\ attempts[a].at = "none"
        /\ ~Blocked(entries, Global, clock) /\ ~Blocked(entries, ip, clock)
        /\ attempts' = [attempts EXCEPT ![a] = [at |-> "open", ip |-> ip]]
    BY DEF Begin, history
  <1>3. /\ entries' \in Map /\ WithinLimit(entries', clock) /\ Kept(entries, entries', clock)
        /\ \A k \in Key : Held(entries', k) =
                             Held(entries, k) + (IF k \in {Global, ip} THEN 1 ELSE 0)
    BY <1>1, <1>2, BeginTakesBoth
  <1>4. ReservationsExact'
    BY <1>2, <1>3, OneMoreOpen
  <1>5. LockoutsKept'
    BY <1>2, <1>3, KeptLockouts
  <1>6. NoOverrun'
    BY <1>2, <1>3, WithinIsNoOverrun
  <1>7. /\ attempts' \in [Attempt -> [at : {"none", "open", "burn", "burned"}, ip : Key]]
        /\ OpenByAddress'
    BY <1>2 DEF GuardInv, OpenByAddress, Key
  <1> QED BY <1>2, <1>3, <1>4, <1>5, <1>6, <1>7 DEF GuardInv

\* What an attempt that ends leaves of the requests.
LEMMA EndedRequests ==
    ASSUME GuardInv, NEW a \in Attempt,
           \/ attempts' = [attempts EXCEPT ![a] = NoAttempt]
           \/ attempts' = [attempts EXCEPT ![a].at = "burn"]
           \/ attempts' = [attempts EXCEPT ![a].at = "burned"]
    PROVE  /\ attempts' \in [Attempt -> [at : {"none", "open", "burn", "burned"}, ip : Key]]
           /\ OpenByAddress'
           /\ \A b \in Attempt \ {a} : attempts'[b] = attempts[b]
           /\ attempts'[a].at # "open"
  <1>1. attempts \in [Attempt -> [at : {"none", "open", "burn", "burned"}, ip : Key]]
    BY DEF GuardInv
  <1>2. NoAttempt \in [at : {"none", "open", "burn", "burned"}, ip : Key]
    BY DEF NoAttempt, Key
  <1>3. /\ \A s \in {"burn", "burned"} :
              /\ [attempts[a] EXCEPT !.at = s]
                    \in [at : {"none", "open", "burn", "burned"}, ip : Key]
              /\ [attempts[a] EXCEPT !.at = s].at = s
        /\ NoAttempt.at = "none"
    BY <1>1 DEF NoAttempt
  <1>4. \E r \in [at : {"none", "open", "burn", "burned"}, ip : Key] :
            attempts' = [attempts EXCEPT ![a] = r] /\ r.at # "open"
    BY <1>2, <1>3
  <1> QED BY <1>1, <1>4 DEF GuardInv, OpenByAddress

\* abandoning an attempt keeps the invariant.
LEMMA AbandonKeeps ==
    ASSUME GuardInv, NEW a \in Attempt, Abandon(a)
    PROVE  GuardInv'
  <1> DEFINE ip == attempts[a].ip
  <1>1. /\ entries' = Release(entries, ip, clock) /\ clock' = clock /\ lockEnd' = lockEnd
        /\ attempts[a].at = "open" /\ attempts' = [attempts EXCEPT ![a] = NoAttempt]
    BY DEF Abandon, history
  <1>2. /\ clock \in Nat /\ entries \in Map /\ WithinLimit(entries, clock)
    BY InvFacts
  <1>3. ip \in Ip /\ Held(entries, Global) > 0 /\ Held(entries, ip) > 0
    BY <1>1, OpenIsHeld
  <1>4. /\ entries' \in Map /\ WithinLimit(entries', clock) /\ Kept(entries, entries', clock)
        /\ \A k \in Key : Held(entries', k) =
                             Held(entries, k) - (IF k \in {Global, ip} THEN 1 ELSE 0)
    BY <1>1, <1>2, <1>3, ReleaseGivesBackBoth
  <1>5. /\ attempts' \in [Attempt -> [at : {"none", "open", "burn", "burned"}, ip : Key]]
        /\ OpenByAddress'
        /\ \A b \in Attempt \ {a} : attempts'[b] = attempts[b]
        /\ attempts'[a].at # "open"
    BY <1>1, EndedRequests
  <1>6. ReservationsExact'
    BY <1>1, <1>4, <1>5, OneFewerOpen
  <1>7. LockoutsKept'
    BY <1>1, <1>4, KeptLockouts
  <1>8. NoOverrun'
    BY <1>1, <1>4, WithinIsNoOverrun
  <1> QED BY <1>1, <1>2, <1>4, <1>5, <1>6, <1>7, <1>8 DEF GuardInv

\* fail() keeps the invariant: it gives back both reservations and fills their room.
LEMMA FailKeeps ==
    ASSUME GuardInv, NEW a \in Attempt, FailAttempt(a)
    PROVE  GuardInv'
  <1> DEFINE ip == attempts[a].ip
             R == Release(entries, ip, clock)
             C == Count(Count(R, Global, clock), ip, clock)
  <1>1. /\ entries' = C /\ clock' = clock /\ attempts[a].at = "open"
        /\ lockEnd' = [k \in Key |-> IF C[k] # NoEntry /\ C[k].lockedUntil > lockEnd[k]
                                     THEN C[k].lockedUntil ELSE lockEnd[k]]
        /\ attempts' = [attempts EXCEPT ![a] =
                          IF BurnDue(burnFailures') THEN [@ EXCEPT !.at = "burn"] ELSE NoAttempt]
    BY DEF FailAttempt
  <1>2. /\ clock \in Nat /\ entries \in Map /\ WithinLimit(entries, clock)
        /\ lockEnd \in [Key -> Nat]
    BY InvFacts DEF GuardInv
  <1>3. ip \in Ip /\ Held(entries, Global) > 0 /\ Held(entries, ip) > 0
    BY <1>1, OpenIsHeld
  <1>4. /\ R \in Map /\ WithinLimit(R, clock) /\ Kept(entries, R, clock)
        /\ Room(R, Global, clock) /\ Room(R, ip, clock)
        /\ \A k \in Key : Held(R, k) =
                             Held(entries, k) - (IF k \in {Global, ip} THEN 1 ELSE 0)
    BY <1>2, <1>3, ReleaseGivesBackBoth
  <1> HIDE DEF R
  <1>5. /\ C \in Map /\ WithinLimit(C, clock) /\ Kept(R, C, clock)
        /\ \A k \in Key : Held(C, k) = Held(R, k)
    BY <1>2, <1>3, <1>4, CountFillsBoth
  <1> HIDE DEF C
  <1>6. Kept(entries, C, clock)
    BY <1>2, <1>4, <1>5, KeptIsTransitive
  <1>7. \/ attempts' = [attempts EXCEPT ![a] = NoAttempt]
        \/ attempts' = [attempts EXCEPT ![a].at = "burn"]
    BY <1>1
  <1>8. /\ attempts' \in [Attempt -> [at : {"none", "open", "burn", "burned"}, ip : Key]]
        /\ OpenByAddress'
        /\ \A b \in Attempt \ {a} : attempts'[b] = attempts[b]
        /\ attempts'[a].at # "open"
    BY <1>7, EndedRequests
  <1>9. \A k \in Key : Held(entries', k) =
                          Held(entries, k) - (IF k \in {Global, ip} THEN 1 ELSE 0)
    BY <1>1, <1>4, <1>5
  <1>10. ReservationsExact'
    BY <1>1, <1>5, <1>8, <1>9, OneFewerOpen
  <1>11. lockEnd' \in [Key -> Nat]
    <2>1. \A k \in Key : C[k] # NoEntry => C[k].lockedUntil \in Nat
      BY <1>5, EntryOf
    <2> QED BY <1>1, <1>2, <2>1
  <1>12. LockoutsKept'
    <2> SUFFICES ASSUME NEW k \in Key, lockEnd'[k] > clock
                 PROVE  C[k] # NoEntry /\ C[k].lockedUntil >= lockEnd'[k]
      BY <1>1 DEF LockoutsKept
    <2>1. CASE C[k] # NoEntry /\ C[k].lockedUntil > lockEnd[k]
      <3>1. lockEnd'[k] = C[k].lockedUntil /\ C[k].lockedUntil \in Nat
        BY <1>1, <1>5, <2>1, EntryOf
      <3> QED BY <2>1, <3>1
    <2>2. CASE ~(C[k] # NoEntry /\ C[k].lockedUntil > lockEnd[k])
      <3>1. lockEnd'[k] = lockEnd[k] /\ lockEnd[k] \in Nat
        BY <1>1, <1>2, <2>2
      <3>2. entries[k] # NoEntry /\ entries[k].lockedUntil >= lockEnd[k]
        BY <3>1, InvFacts
      <3>3. entries[k].lockedUntil \in Nat
        BY <1>2, <3>2, EntryOf
      <3>4. C[k] # NoEntry /\ C[k].lockedUntil >= entries[k].lockedUntil
        BY <1>2, <1>6, <3>1, <3>2, <3>3 DEF Kept
      <3>5. C[k].lockedUntil \in Nat
        BY <1>5, <3>4, EntryOf
      <3> QED BY <3>1, <3>2, <3>3, <3>4, <3>5
    <2> QED BY <2>1, <2>2
  <1>13. NoOverrun'
    BY <1>1, <1>5, WithinIsNoOverrun
  <1> QED BY <1>1, <1>2, <1>5, <1>8, <1>10, <1>11, <1>12, <1>13 DEF GuardInv

\* Clearing an address that has no attempt left, or only its failures, touches no lockout.
LEMMA ClearedAddress ==
    ASSUME NEW R \in Map, NEW k \in Key, NEW t \in Nat, WithinLimit(R, t), Room(R, k, t)
    PROVE  LET S == IF R[k] = NoEntry THEN R
                    ELSE IF R[k].inFlight = 0 THEN [R EXCEPT ![k] = NoEntry]
                    ELSE [R EXCEPT ![k].failures = 0]
           IN  /\ S \in Map /\ WithinLimit(S, t) /\ Kept(R, S, t)
               /\ \A j \in Key : Held(S, j) = Held(R, j)
  <1> DEFINE S == IF R[k] = NoEntry THEN R
                  ELSE IF R[k].inFlight = 0 THEN [R EXCEPT ![k] = NoEntry]
                  ELSE [R EXCEPT ![k].failures = 0]
             e == [R[k] EXCEPT !.failures = 0]
  <1>1. ASSUME R[k] # NoEntry
        PROVE  /\ e \in Entry /\ e.failures = 0 /\ e.inFlight = R[k].inFlight
               /\ e.lockedUntil = R[k].lockedUntil
               /\ R[k].inFlight \in Nat /\ R[k].failures \in Nat /\ R[k].lockedUntil \in Nat
               /\ R[k].lockedUntil <= t
    <2>1. R[k] \in Entry
      BY <1>1, EntryOf
    <2> QED BY <1>1, <2>1, EntryOf, FieldSet DEF Room
  <1>2. /\ S \in Map
        /\ \A j \in Key \ {k} : S[j] = R[j]
        /\ \/ S[k] = R[k]
           \/ S[k] = NoEntry /\ R[k] # NoEntry /\ R[k].inFlight = 0
           \/ S[k] = e /\ R[k] # NoEntry
    BY <1>1 DEF Map
  <1> HIDE DEF S, e
  <1>3. \A j \in Key : Held(S, j) = Held(R, j)
    BY <1>1, <1>2, NoEntryAssumption DEF Held
  <1>4. WithinLimit(S, t)
    <2> SUFFICES ASSUME NEW j \in Key, S[j] # NoEntry
                 PROVE  /\ S[j].failures + S[j].inFlight <= MaxFailures
                        /\ S[j].lockedUntil > t => S[j].inFlight = 0
      BY DEF WithinLimit
    <2>1. CASE S[j] = R[j]
      BY <2>1 DEF WithinLimit
    <2>2. CASE j = k /\ S[k] = e /\ R[k] # NoEntry
      <3>1. /\ R[k].failures + R[k].inFlight <= MaxFailures
            /\ R[k].lockedUntil > t => R[k].inFlight = 0
        BY <2>2 DEF WithinLimit
      <3> QED BY <1>1, <2>2, <3>1, GuardAssumption
    <2> QED BY <1>2, <2>1, <2>2
  <1>5. Kept(R, S, t)
    <2> SUFFICES ASSUME NEW j \in Key, R[j] # NoEntry, R[j].lockedUntil > t
                 PROVE  S[j] # NoEntry /\ S[j].lockedUntil >= R[j].lockedUntil
      BY DEF Kept
    <2>1. R[j].lockedUntil \in Nat /\ j # k
      BY <1>1, EntryOf
    <2> QED BY <1>2, <2>1
  <1> QED BY <1>2, <1>3, <1>4, <1>5 DEF S

\* succeed() keeps the invariant.
LEMMA SucceedKeeps ==
    ASSUME GuardInv, NEW a \in Attempt, Succeed(a)
    PROVE  GuardInv'
  <1> DEFINE ip == attempts[a].ip
             R == Release(entries, ip, clock)
  <1>1. /\ entries' = IF R[ip] = NoEntry THEN R
                      ELSE IF R[ip].inFlight = 0 THEN [R EXCEPT ![ip] = NoEntry]
                      ELSE [R EXCEPT ![ip].failures = 0]
        /\ clock' = clock /\ lockEnd' = lockEnd /\ attempts[a].at = "open"
        /\ attempts' = [attempts EXCEPT ![a] = NoAttempt]
    BY DEF Succeed, history
  <1>2. /\ clock \in Nat /\ entries \in Map /\ WithinLimit(entries, clock)
    BY InvFacts
  <1>3. ip \in Ip /\ ip \in Key /\ Held(entries, Global) > 0 /\ Held(entries, ip) > 0
    BY <1>1, OpenIsHeld DEF Key
  <1>4. /\ R \in Map /\ WithinLimit(R, clock) /\ Kept(entries, R, clock) /\ Room(R, ip, clock)
        /\ \A k \in Key : Held(R, k) =
                             Held(entries, k) - (IF k \in {Global, ip} THEN 1 ELSE 0)
    BY <1>2, <1>3, ReleaseGivesBackBoth
  <1> HIDE DEF R
  <1>5. /\ entries' \in Map /\ WithinLimit(entries', clock) /\ Kept(R, entries', clock)
        /\ \A k \in Key : Held(entries', k) = Held(R, k)
    BY <1>1, <1>2, <1>3, <1>4, ClearedAddress, ZenonT(30)
  <1>6. Kept(entries, entries', clock)
    BY <1>2, <1>4, <1>5, KeptIsTransitive
  <1>7. /\ attempts' \in [Attempt -> [at : {"none", "open", "burn", "burned"}, ip : Key]]
        /\ OpenByAddress'
        /\ \A b \in Attempt \ {a} : attempts'[b] = attempts[b]
        /\ attempts'[a].at # "open"
    BY <1>1, EndedRequests
  <1>8. ReservationsExact'
    <2>1. \A k \in Key : Held(entries', k) =
                             Held(entries, k) - (IF k \in {Global, ip} THEN 1 ELSE 0)
      BY <1>4, <1>5
    <2> QED BY <1>1, <1>5, <1>7, <2>1, OneFewerOpen
  <1>9. LockoutsKept'
    BY <1>1, <1>5, <1>6, KeptLockouts
  <1>10. NoOverrun'
    BY <1>1, <1>5, WithinIsNoOverrun
  <1> QED BY <1>1, <1>2, <1>5, <1>7, <1>8, <1>9, <1>10 DEF GuardInv

\* A step that leaves the map alone and opens or closes no attempt keeps the invariant.
LEMMA MapUntouched ==
    ASSUME GuardInv, clock' = clock, entries' = entries, lockEnd' = lockEnd,
           NEW a \in Attempt, attempts[a].at \in {"burn", "burned"},
           \/ attempts' = [attempts EXCEPT ![a] = NoAttempt]
           \/ attempts' = [attempts EXCEPT ![a].at = "burned"]
    PROVE  GuardInv'
  <1>1. /\ attempts' \in [Attempt -> [at : {"none", "open", "burn", "burned"}, ip : Key]]
        /\ OpenByAddress'
        /\ \A b \in Attempt \ {a} : attempts'[b] = attempts[b]
        /\ attempts'[a].at # "open"
    BY EndedRequests
  <1>2. \A k \in Key : OpenOn(k)' = OpenOn(k)
    BY <1>1 DEF OpenOn
  <1>3. ReservationsExact'
    BY <1>2 DEF GuardInv, ReservationsExact
  <1> QED BY <1>1, <1>3 DEF GuardInv, NoOverrun, LockoutsKept

\* Time passing keeps the invariant.
LEMMA TickKeeps ==
    ASSUME GuardInv, GuardTick
    PROVE  GuardInv'
  <1>1. /\ clock \in Nat /\ clock' = clock + 1 /\ entries' = entries /\ attempts' = attempts
        /\ lockEnd' = lockEnd /\ entries \in Map /\ lockEnd \in [Key -> Nat]
    BY DEF GuardInv, GuardTick, guardVars, history
  <1>2. ReservationsExact' /\ OpenByAddress'
    <2>1. \A k \in Key : OpenOn(k)' = OpenOn(k)
      BY <1>1 DEF OpenOn
    <2> QED BY <1>1, <2>1 DEF GuardInv, ReservationsExact, OpenByAddress
  <1>3. NoOverrun'
    <2>1. \A k \in Key : entries[k] # NoEntry => entries[k].lockedUntil \in Nat
      BY <1>1, EntryOf
    <2> QED BY <1>1, <2>1 DEF GuardInv, NoOverrun
  <1>4. LockoutsKept'
    <2>1. \A k \in Key : lockEnd[k] \in Nat
      BY <1>1
    <2> QED BY <1>1, <2>1 DEF GuardInv, LockoutsKept
  <1> QED BY <1>1, <1>2, <1>3, <1>4 DEF GuardInv

-----------------------------------------------------------------------------
(* The burn window *)

\* A set of numbers with 0 and with the next of each has them all.
LEMMA UpTo ==
    ASSUME NEW N \in Nat, NEW S, 0 \in S, \A n \in 1 .. N : n - 1 \in S => n \in S
    PROVE  \A n \in 0 .. N : n \in S
  <1> DEFINE R == OpToRel(<, Nat)
             T == {n \in Nat : n <= N /\ n \notin S}
  <1>1. IsWellFoundedOn(R, Nat) /\ T \subseteq Nat
    BY NatLessThanWellFounded
  <1>2. ASSUME NEW x \in T, \A y \in T : ~(<<y, x>> \in R) PROVE FALSE
    <2>1. x \in Nat /\ x <= N /\ x \notin S
      OBVIOUS
    <2>2. x # 0
      BY <2>1
    <2>3. x \in 1 .. N /\ x - 1 \in Nat /\ x - 1 < x /\ x - 1 <= N
      BY <2>1, <2>2
    <2>4. x - 1 \notin S
      BY <2>1, <2>3
    <2>5. x - 1 \in T
      BY <2>3, <2>4
    <2>6. <<x - 1, x>> \in R
      BY <2>1, <2>3 DEF OpToRel
    <2> QED
      BY <1>2, <2>5, <2>6
  <1> HIDE DEF R
  <1>3. T = {}
    BY <1>1, <1>2, WFMin
  <1> QED
    BY <1>3

\* The filter's results for the first n failures of s, up to k.
Filters(f, s, t, k) ==
    /\ DOMAIN f = 0 .. k /\ f[0] = <<>>
    /\ \A n \in 1 .. k : f[n] = IF t - s[n] < BurnWindow THEN Append(f[n - 1], s[n])
                                ELSE f[n - 1]

\* The filter's recursion is well founded: it has results, and the last one is Recent.
LEMMA RecentIs ==
    ASSUME NEW s \in Seq(Nat), NEW t
    PROVE  \E f : Filters(f, s, t, Len(s)) /\ Recent(s, t) = f[Len(s)]
  <1> DEFINE S == {k \in Nat : \E f : Filters(f, s, t, k)}
             Def(f) == [n \in 0 .. Len(s) |->
                          IF n = 0 THEN <<>>
                          ELSE IF t - s[n] < BurnWindow THEN Append(f[n - 1], s[n])
                          ELSE f[n - 1]]
             g == CHOOSE f : f = Def(f)
  <1>1. 0 \in S
    <2>1. Filters([n \in 0 .. 0 |-> <<>>], s, t, 0)
      BY DEF Filters
    <2> QED
      BY <2>1
  <1>2. ASSUME NEW k \in 1 .. Len(s), k - 1 \in S PROVE k \in S
    <2>1. PICK f : Filters(f, s, t, k - 1)
      BY <1>2
    <2>2. PICK last : last = IF t - s[k] < BurnWindow THEN Append(f[k - 1], s[k]) ELSE f[k - 1]
      OBVIOUS
    <2> DEFINE h == [n \in 0 .. k |-> IF n = k THEN last ELSE f[n]]
    <2>3. DOMAIN h = 0 .. k /\ h[k] = last /\ \A n \in 0 .. k - 1 : h[n] = f[n]
      OBVIOUS
    <2> HIDE DEF h
    <2>4. Filters(h, s, t, k)
      <3>1. h[0] = <<>>
        BY <2>1, <2>3 DEF Filters
      <3>2. ASSUME NEW n \in 1 .. k
            PROVE  h[n] = IF t - s[n] < BurnWindow THEN Append(h[n - 1], s[n]) ELSE h[n - 1]
        <4>1. CASE n = k
          BY <2>2, <2>3, <4>1
        <4>2. CASE n # k
          <5>1. n \in 1 .. k - 1 /\ n \in 0 .. k - 1 /\ n - 1 \in 0 .. k - 1
            BY <4>2
          <5> QED
            BY <2>1, <2>3, <5>1 DEF Filters
        <4> QED
          BY <4>1, <4>2
      <3> QED
        BY <2>3, <3>1, <3>2 DEF Filters
    <2> QED
      BY <2>4
  <1>3. Len(s) \in Nat
    OBVIOUS
  <1>4. PICK f : Filters(f, s, t, Len(s))
    <2>1. \A n \in 0 .. Len(s) : n \in S
      <3> HIDE DEF S
      <3> QED
        BY <1>1, <1>2, <1>3, UpTo
    <2> QED
      BY <1>3, <2>1
  <1>5. [n \in 0 .. Len(s) |-> f[n]] = Def([n \in 0 .. Len(s) |-> f[n]])
    <2> DEFINE r == [n \in 0 .. Len(s) |-> f[n]]
    <2>1. ASSUME NEW n \in 0 .. Len(s)
          PROVE  r[n] = IF n = 0 THEN <<>>
                        ELSE IF t - s[n] < BurnWindow THEN Append(r[n - 1], s[n])
                        ELSE r[n - 1]
      <3>1. CASE n = 0
        BY <1>4, <3>1 DEF Filters
      <3>2. CASE n # 0
        <4>1. n \in 1 .. Len(s) /\ n - 1 \in 0 .. Len(s)
          BY <1>3, <3>2
        <4>2. r[n] = f[n] /\ r[n - 1] = f[n - 1]
          BY <4>1
        <4>3. f[n] = IF t - s[n] < BurnWindow THEN Append(f[n - 1], s[n]) ELSE f[n - 1]
          BY <1>4, <4>1 DEF Filters
        <4> QED
          BY <3>2, <4>2, <4>3
      <3> QED
        BY <3>1, <3>2
    <2>2. r = [n \in 0 .. Len(s) |-> r[n]]
      OBVIOUS
    <2> HIDE DEF r
    <2>3. [n \in 0 .. Len(s) |-> r[n]] = Def(r)
      BY <2>1
    <2>4. r = Def(r)
      BY <2>2, <2>3
    <2> QED
      BY <2>4 DEF r
  <1>6. g = Def(g)
    <2> HIDE DEF Def
    <2> QED
      BY <1>5
  <1>7. Filters(g, s, t, Len(s))
    <2>1. DOMAIN g = 0 .. Len(s)
      <3>1. DOMAIN Def(g) = 0 .. Len(s)
        OBVIOUS
      <3> HIDE DEF Def, g
      <3> QED
        BY <1>6, <3>1
    <2>2. ASSUME NEW n \in 0 .. Len(s)
          PROVE  g[n] = IF n = 0 THEN <<>>
                        ELSE IF t - s[n] < BurnWindow THEN Append(g[n - 1], s[n])
                        ELSE g[n - 1]
      <3> HIDE DEF g
      <3>1. Def(g)[n] = IF n = 0 THEN <<>>
                        ELSE IF t - s[n] < BurnWindow THEN Append(g[n - 1], s[n])
                        ELSE g[n - 1]
        OBVIOUS
      <3> HIDE DEF Def
      <3> QED
        BY <1>6, <3>1
    <2> HIDE DEF g
    <2>3. 0 \in 0 .. Len(s)
      BY <1>3
    <2>4. g[0] = <<>>
      BY <2>2, <2>3
    <2>5. ASSUME NEW n \in 1 .. Len(s)
          PROVE  g[n] = IF t - s[n] < BurnWindow THEN Append(g[n - 1], s[n]) ELSE g[n - 1]
      <3>1. n \in 0 .. Len(s) /\ n # 0
        BY <1>3
      <3> QED
        BY <2>2, <3>1
    <2> QED
      BY <2>1, <2>4, <2>5 DEF Filters
  <1>8. Recent(s, t) = g[Len(s)]
    BY DEF Recent
  <1> QED
    BY <1>7, <1>8


\* The filter gives some of the failures it is given.
LEMMA RecentOf ==
    ASSUME NEW s \in Seq(Nat), NEW t
    PROVE  Recent(s, t) \in Seq(Nat) /\ Len(Recent(s, t)) <= Len(s)
  <1>1. PICK f : Filters(f, s, t, Len(s)) /\ Recent(s, t) = f[Len(s)]
    BY RecentIs
  <1>2. Len(s) \in Nat
    OBVIOUS
  <1> DEFINE S == {n \in 0 .. Len(s) : f[n] \in Seq(Nat) /\ Len(f[n]) <= n}
  <1>3. 0 \in S
    <2>1. f[0] = <<>>
      BY <1>1 DEF Filters
    <2>2. f[0] \in Seq(Nat) /\ Len(f[0]) = 0
      BY <2>1, EmptySeq
    <2> QED
      BY <1>2, <2>2
  <1>4. ASSUME NEW n \in 1 .. Len(s), n - 1 \in S PROVE n \in S
    <2>1. f[n - 1] \in Seq(Nat) /\ Len(f[n - 1]) <= n - 1 /\ s[n] \in Nat
      BY <1>4
    <2>2. f[n] = f[n - 1] \/ f[n] = Append(f[n - 1], s[n])
      BY <1>1 DEF Filters
    <2>3. f[n] \in Seq(Nat) /\ Len(f[n]) <= n
      <3>1. /\ Append(f[n - 1], s[n]) \in Seq(Nat)
            /\ Len(Append(f[n - 1], s[n])) = Len(f[n - 1]) + 1
        BY <2>1, AppendProperties
      <3>2. Len(f[n - 1]) \in Nat
        BY <2>1
      <3>3. n \in Nat /\ n - 1 <= n
        BY <1>2
      <3>4. CASE f[n] = f[n - 1]
        BY <2>1, <3>2, <3>3, <3>4
      <3>5. CASE f[n] = Append(f[n - 1], s[n])
        BY <2>1, <3>1, <3>2, <3>3, <3>5
      <3> QED
        BY <2>2, <3>4, <3>5
    <2> QED
      BY <1>2, <2>3
  <1> HIDE DEF S
  <1>5. Len(s) \in S
    <2>1. \A n \in 0 .. Len(s) : n \in S
      BY <1>2, <1>3, <1>4, UpTo
    <2> QED
      BY <1>2, <2>1
  <1> QED
    BY <1>1, <1>5 DEF S

\* As time goes by, failures leave the window and none comes back.
LEMMA WindowSlides ==
    ASSUME NEW s \in Seq(Nat), NEW t \in Nat, NEW u \in Nat, t <= u
    PROVE  Len(Recent(s, u)) <= Len(Recent(s, t))
  <1>1. PICK f : Filters(f, s, t, Len(s)) /\ Recent(s, t) = f[Len(s)]
    BY RecentIs
  <1>2. PICK g : Filters(g, s, u, Len(s)) /\ Recent(s, u) = g[Len(s)]
    BY RecentIs
  <1>3. Len(s) \in Nat /\ BurnWindow \in Nat
    BY GuardAssumption
  <1> DEFINE S == {n \in 0 .. Len(s) : /\ f[n] \in Seq(Nat) /\ g[n] \in Seq(Nat)
                                       /\ Len(g[n]) <= Len(f[n])}
  <1>4. 0 \in S
    <2>1. f[0] = <<>> /\ g[0] = <<>>
      BY <1>1, <1>2 DEF Filters
    <2>2. /\ f[0] \in Seq(Nat) /\ Len(f[0]) = 0
          /\ g[0] \in Seq(Nat) /\ Len(g[0]) = 0
      BY <2>1, EmptySeq
    <2> QED
      BY <1>3, <2>2
  <1>5. ASSUME NEW n \in 1 .. Len(s), n - 1 \in S PROVE n \in S
    <2>1. /\ f[n - 1] \in Seq(Nat) /\ g[n - 1] \in Seq(Nat)
          /\ Len(g[n - 1]) <= Len(f[n - 1]) /\ s[n] \in Nat
      BY <1>5
    <2>2. f[n] = IF t - s[n] < BurnWindow THEN Append(f[n - 1], s[n]) ELSE f[n - 1]
      BY <1>1 DEF Filters
    <2>3. g[n] = IF u - s[n] < BurnWindow THEN Append(g[n - 1], s[n]) ELSE g[n - 1]
      BY <1>2 DEF Filters
    <2>4. u - s[n] < BurnWindow => t - s[n] < BurnWindow
      BY <1>3, <2>1
    <2>5. /\ f[n] \in Seq(Nat) /\ g[n] \in Seq(Nat)
          /\ Len(g[n]) <= Len(f[n])
      <3>1. /\ Append(f[n - 1], s[n]) \in Seq(Nat)
            /\ Len(Append(f[n - 1], s[n])) = Len(f[n - 1]) + 1
            /\ Append(g[n - 1], s[n]) \in Seq(Nat)
            /\ Len(Append(g[n - 1], s[n])) = Len(g[n - 1]) + 1
        BY <2>1, AppendProperties
      <3>2. Len(f[n - 1]) \in Nat /\ Len(g[n - 1]) \in Nat
        BY <2>1
      <3>3. CASE u - s[n] < BurnWindow
        <4>1. f[n] = Append(f[n - 1], s[n]) /\ g[n] = Append(g[n - 1], s[n])
          BY <2>2, <2>3, <2>4, <3>3
        <4> QED
          BY <2>1, <3>1, <3>2, <4>1
      <3>4. CASE ~(u - s[n] < BurnWindow)
        <4>1. g[n] = g[n - 1] /\ (f[n] = f[n - 1] \/ f[n] = Append(f[n - 1], s[n]))
          BY <2>2, <2>3, <3>4
        <4>2. CASE f[n] = f[n - 1]
          BY <2>1, <4>1, <4>2
        <4>3. CASE f[n] = Append(f[n - 1], s[n])
          BY <2>1, <3>1, <3>2, <4>1, <4>3
        <4> QED
          BY <4>1, <4>2, <4>3
      <3> QED
        BY <3>3, <3>4
    <2> QED
      BY <1>3, <2>5
  <1> HIDE DEF S
  <1>6. Len(s) \in S
    <2>1. \A n \in 0 .. Len(s) : n \in S
      BY <1>3, <1>4, <1>5, UpTo
    <2> QED
      BY <1>3, <2>1
  <1> QED
    BY <1>1, <1>2, <1>6 DEF S

\* What is appended to the second of two sequences is appended to both.
LEMMA AppendToBoth ==
    ASSUME NEW a \in Seq(Nat), NEW b \in Seq(Nat), NEW x \in Nat
    PROVE  a \o Append(b, x) = Append(a \o b, x)
  <1>1. <<x>> \in Seq(Nat)
    OBVIOUS
  <1>2. Append(b, x) = b \o <<x>>
    BY AppendIsConcat
  <1>3. a \o b \in Seq(Nat)
    BY ConcatProperties
  <1>4. Append(a \o b, x) = (a \o b) \o <<x>>
    BY <1>3, AppendIsConcat
  <1>5. (a \o b) \o <<x>> = a \o (b \o <<x>>)
    BY <1>1, ConcatAssociative
  <1> QED
    BY <1>2, <1>4, <1>5

\* The filter of two stretches of failures is that of the one, then that of the other.
LEMMA RecentOfBoth ==
    ASSUME NEW p \in Seq(Nat), NEW m \in Seq(Nat), NEW t
    PROVE  Recent(p \o m, t) = Recent(p, t) \o Recent(m, t)
  <1> DEFINE s == p \o m
  <1>1. /\ s \in Seq(Nat) /\ Len(s) = Len(p) + Len(m)
        /\ Len(p) \in Nat /\ Len(m) \in Nat
        /\ \A n \in 1 .. Len(p) : s[n] = p[n]
        /\ \A n \in 1 .. Len(m) : s[Len(p) + n] = m[n]
    OBVIOUS
  <1> HIDE DEF s
  <1>2. PICK h : Filters(h, s, t, Len(s)) /\ Recent(s, t) = h[Len(s)]
    BY <1>1, RecentIs
  <1>3. PICK f : Filters(f, p, t, Len(p)) /\ Recent(p, t) = f[Len(p)]
    BY RecentIs
  <1>4. PICK g : Filters(g, m, t, Len(m)) /\ Recent(m, t) = g[Len(m)]
    BY RecentIs
  <1>5. h[Len(p)] = f[Len(p)]
    <2> DEFINE S == {n \in 0 .. Len(p) : h[n] = f[n]}
    <2>1. 0 \in S
      BY <1>1, <1>2, <1>3 DEF Filters
    <2>2. ASSUME NEW n \in 1 .. Len(p), n - 1 \in S PROVE n \in S
      <3>1. h[n - 1] = f[n - 1] /\ n \in 1 .. Len(s) /\ n \in 0 .. Len(p) /\ s[n] = p[n]
        BY <1>1, <2>2
      <3>2. h[n] = IF t - s[n] < BurnWindow THEN Append(h[n - 1], s[n]) ELSE h[n - 1]
        BY <1>2, <3>1 DEF Filters
      <3>3. f[n] = IF t - p[n] < BurnWindow THEN Append(f[n - 1], p[n]) ELSE f[n - 1]
        BY <1>3 DEF Filters
      <3> QED
        BY <3>1, <3>2, <3>3
    <2> HIDE DEF S
    <2>3. Len(p) \in S
      <3>1. \A n \in 0 .. Len(p) : n \in S
        BY <1>1, <2>1, <2>2, UpTo
      <3> QED
        BY <1>1, <3>1
    <2> QED
      BY <2>3 DEF S
  <1>6. f[Len(p)] \in Seq(Nat)
    BY <1>3, RecentOf
  <1>7. h[Len(s)] = f[Len(p)] \o g[Len(m)]
    <2> DEFINE S == {n \in 0 .. Len(m) : /\ g[n] \in Seq(Nat)
                                         /\ h[Len(p) + n] = f[Len(p)] \o g[n]}
    <2>1. 0 \in S
      <3>1. g[0] = <<>> /\ Len(p) + 0 = Len(p)
        BY <1>1, <1>4 DEF Filters
      <3>2. f[Len(p)] \o <<>> = f[Len(p)] /\ <<>> \in Seq(Nat)
        BY <1>6, ConcatEmptySeq, EmptySeq
      <3>3. 0 \in 0 .. Len(m)
        BY <1>1
      <3> QED
        BY <1>5, <3>1, <3>2, <3>3
    <2>2. ASSUME NEW n \in 1 .. Len(m), n - 1 \in S PROVE n \in S
      <3>1. g[n - 1] \in Seq(Nat) /\ h[Len(p) + (n - 1)] = f[Len(p)] \o g[n - 1]
        BY <2>2
      <3>2. /\ Len(p) + n \in 1 .. Len(s) /\ (Len(p) + n) - 1 = Len(p) + (n - 1)
            /\ s[Len(p) + n] = m[n] /\ m[n] \in Nat /\ n \in 0 .. Len(m)
        <4>1. s[Len(p) + n] = m[n]
          BY <1>1
        <4>2. m[n] \in Nat
          OBVIOUS
        <4>3. /\ Len(p) + n \in 1 .. Len(s) /\ (Len(p) + n) - 1 = Len(p) + (n - 1)
              /\ n \in 0 .. Len(m)
          BY <1>1
        <4> QED
          BY <4>1, <4>2, <4>3
      <3>3. h[Len(p) + n] = IF t - m[n] < BurnWindow
                            THEN Append(h[Len(p) + (n - 1)], m[n]) ELSE h[Len(p) + (n - 1)]
        BY <1>2, <3>2 DEF Filters
      <3>4. g[n] = IF t - m[n] < BurnWindow THEN Append(g[n - 1], m[n]) ELSE g[n - 1]
        BY <1>4 DEF Filters
      <3>5. Append(f[Len(p)] \o g[n - 1], m[n]) = f[Len(p)] \o Append(g[n - 1], m[n])
        BY <1>6, <3>1, <3>2, AppendToBoth
      <3>6. Append(g[n - 1], m[n]) \in Seq(Nat)
        BY <3>1, <3>2
      <3> QED
        BY <3>1, <3>2, <3>3, <3>4, <3>5, <3>6
    <2> HIDE DEF S
    <2>3. Len(m) \in S
      <3>1. \A n \in 0 .. Len(m) : n \in S
        BY <1>1, <2>1, <2>2, UpTo
      <3> QED
        BY <1>1, <3>1
    <2> QED
      BY <1>1, <2>3 DEF S
  <1>8. Recent(s, t) = Recent(p, t) \o Recent(m, t)
    BY <1>2, <1>3, <1>4, <1>7
  <1> QED
    BY <1>8 DEF s

\* The failures no invalidation followed, but for as many as a burned() has forgotten, are
\* the last of those the guard has counted.
BurnInv ==
    /\ burnFailures \in Seq(Nat) /\ missed \in Seq(Nat) /\ forgot \in Nat /\ thrown \in BOOLEAN
    /\ \E p, r, q \in Seq(Nat) :
          burnFailures = p \o q /\ missed = r \o q /\ Len(r) <= forgot
    /\ CodesBurnedInTime

\* While no more failures are missed than are forgotten, the codes are burned in time.
LEMMA FewMissed ==
    ASSUME missed' \in Seq(Nat), forgot' \in Nat, Len(missed') <= forgot'
    PROVE  CodesBurnedInTime'
  <1>1. Recent(missed', clock') \in Seq(Nat) /\ Len(Recent(missed', clock')) <= Len(missed')
    BY RecentOf
  <1>2. Len(Recent(missed', clock')) \in Nat /\ Len(missed') \in Nat
    BY <1>1
  <1>3. Len(Recent(missed', clock')) <= BurnAfter + forgot'
    BY <1>1, <1>2, GuardAssumption
  <1> QED
    BY <1>3 DEF CodesBurnedInTime

\* A step of an attempt that is not on its way to the codes leaves the window alone.
LEMMA WindowUntouched ==
    ASSUME BurnInv, clock' = clock, burnFailures' = burnFailures,
           missed' = missed, forgot' = forgot, thrown' = thrown,
           \A b \in Attempt : attempts[b].at = "burn" => attempts'[b].at = "burn"
    PROVE  BurnInv'
  <1>1. CodesBurnedInTime'
    BY DEF BurnInv, CodesBurnedInTime, Burning
  <1> QED
    BY <1>1 DEF BurnInv

\* A refused redeem is counted with those before it, and past the limit it burns the codes.
LEMMA FailBurnsInTime ==
    ASSUME GuardInv, BurnInv, NEW a \in Attempt, FailAttempt(a)
    PROVE  BurnInv'
  <1>1. /\ attempts \in [Attempt -> [at : {"none", "open", "burn", "burned"}, ip : Key]]
        /\ clock \in Nat /\ clock' = clock
        /\ burnFailures \in Seq(Nat) /\ missed \in Seq(Nat) /\ forgot \in Nat
    BY DEF GuardInv, BurnInv, FailAttempt
  <1>2. /\ burnFailures' = Append(Recent(burnFailures, clock), clock)
        /\ missed' = Append(Recent(missed, clock), clock)
        /\ thrown' = FALSE /\ forgot' = forgot
    BY DEF FailAttempt
  <1>3. PICK p \in Seq(Nat), r \in Seq(Nat), q \in Seq(Nat) :
            burnFailures = p \o q /\ missed = r \o q /\ Len(r) <= forgot
    BY DEF BurnInv
  <1>4. /\ Recent(p, clock) \in Seq(Nat) /\ Recent(q, clock) \in Seq(Nat)
        /\ Recent(r, clock) \in Seq(Nat) /\ Len(Recent(r, clock)) <= Len(r)
    BY RecentOf
  <1> DEFINE last == Append(Recent(q, clock), clock)
  <1>5. last \in Seq(Nat)
    BY <1>1, <1>4, AppendProperties
  <1>6. burnFailures' = Recent(p, clock) \o last
    <2>1. Recent(burnFailures, clock) = Recent(p, clock) \o Recent(q, clock)
      BY <1>3, RecentOfBoth
    <2>2. Recent(p, clock) \o last = Append(Recent(p, clock) \o Recent(q, clock), clock)
      BY <1>1, <1>4, AppendToBoth
    <2> QED
      BY <1>2, <2>1, <2>2
  <1>7. missed' = Recent(r, clock) \o last
    <2>1. Recent(missed, clock) = Recent(r, clock) \o Recent(q, clock)
      BY <1>3, RecentOfBoth
    <2>2. Recent(r, clock) \o last = Append(Recent(r, clock) \o Recent(q, clock), clock)
      BY <1>1, <1>4, AppendToBoth
    <2> QED
      BY <1>2, <2>1, <2>2
  <1> HIDE DEF last
  <1>8. burnFailures' \in Seq(Nat) /\ missed' \in Seq(Nat)
    BY <1>4, <1>5, <1>6, <1>7, ConcatProperties
  <1>9. Len(Recent(r, clock)) <= forgot'
    <2>1. Len(Recent(r, clock)) \in Nat /\ Len(r) \in Nat
      BY <1>4
    <2> QED
      BY <1>1, <1>2, <1>3, <1>4, <2>1
  <1>10. CodesBurnedInTime'
    <2>1. CASE BurnDue(burnFailures')
      <3>1. attempts' = [attempts EXCEPT ![a].at = "burn"]
        BY <2>1 DEF FailAttempt
      <3>2. attempts'[a].at = "burn"
        BY <1>1, <3>1
      <3> QED
        BY <3>2 DEF CodesBurnedInTime, Burning
    <2>2. CASE ~BurnDue(burnFailures')
      <3>1. /\ Len(burnFailures') = Len(Recent(p, clock)) + Len(last)
            /\ Len(missed') = Len(Recent(r, clock)) + Len(last)
        BY <1>4, <1>5, <1>6, <1>7, ConcatProperties
      <3>2. /\ Len(Recent(p, clock)) \in Nat /\ Len(Recent(r, clock)) \in Nat
            /\ Len(last) \in Nat
        BY <1>4, <1>5
      <3>3. Len(burnFailures') <= BurnAfter
        BY <1>8, <2>2, GuardAssumption DEF BurnDue
      <3>4. /\ Recent(missed', clock') \in Seq(Nat)
            /\ Len(Recent(missed', clock')) <= Len(missed')
        BY <1>8, RecentOf
      <3>5. Len(Recent(missed', clock')) \in Nat
        BY <3>4
      <3>6. Len(Recent(missed', clock')) <= BurnAfter + forgot'
        BY <1>1, <1>2, <1>9, <3>1, <3>2, <3>3, <3>4, <3>5, GuardAssumption
      <3> QED
        BY <3>6 DEF CodesBurnedInTime
    <2> QED
      BY <2>1, <2>2
  <1> QED
    BY <1>1, <1>2, <1>4, <1>5, <1>6, <1>7, <1>8, <1>9, <1>10 DEF BurnInv

\* The store invalidates the codes, or throws, or its answer has come.
LEMMA CodesStepsBurnInTime ==
    ASSUME GuardInv, BurnInv, NEW a \in Attempt,
           Invalidate(a) \/ InvalidateFails(a) \/ Burned(a)
    PROVE  BurnInv'
  <1>1. /\ burnFailures \in Seq(Nat) /\ missed \in Seq(Nat)
        /\ forgot \in Nat /\ thrown \in BOOLEAN
    BY DEF BurnInv
  <1>2. <<>> \in Seq(Nat) /\ Len(<<>>) = 0 /\ <<>> = <<>> \o <<>>
    BY EmptySeq, ConcatEmptySeq
  <1>3. CASE Invalidate(a)
    <2>1. missed' = <<>> /\ forgot' = 0 /\ thrown' = thrown /\ burnFailures' = burnFailures
      BY <1>3 DEF Invalidate, guardVars
    <2>2. CodesBurnedInTime'
      BY <1>2, <2>1, FewMissed
    <2>3. burnFailures' = burnFailures \o <<>> /\ missed' = <<>> \o <<>> /\ Len(<<>>) <= forgot'
      BY <1>1, <1>2, <2>1, ConcatEmptySeq
    <2> QED
      BY <1>1, <1>2, <2>1, <2>2, <2>3 DEF BurnInv
  <1>4. CASE InvalidateFails(a)
    <2>1. /\ missed' = missed /\ forgot' = forgot /\ thrown' = TRUE
          /\ burnFailures' = burnFailures
      BY <1>4 DEF InvalidateFails, guardVars
    <2>2. CodesBurnedInTime'
      BY <2>1 DEF CodesBurnedInTime, Burning
    <2> QED
      BY <1>1, <2>1, <2>2 DEF BurnInv
  <1>5. CASE Burned(a)
    <2>1. /\ missed' = missed /\ forgot' = Len(missed) /\ thrown' = thrown
          /\ burnFailures' = <<>>
      BY <1>5 DEF Burned
    <2>2. Len(missed) \in Nat /\ Len(missed) <= forgot'
      BY <1>1, <2>1
    <2>3. CodesBurnedInTime'
      BY <1>1, <2>1, <2>2, FewMissed
    <2>4. burnFailures' = <<>> \o <<>> /\ missed' = missed \o <<>> /\ Len(missed) <= forgot'
      BY <1>1, <1>2, <2>1, <2>2, ConcatEmptySeq
    <2> QED
      BY <1>1, <1>2, <2>1, <2>2, <2>3, <2>4 DEF BurnInv
  <1> QED
    BY <1>3, <1>4, <1>5

\* As time goes by the window can only shrink.
LEMMA TickBurnsInTime ==
    ASSUME GuardInv, BurnInv, GuardTick
    PROVE  BurnInv'
  <1>1. /\ clock \in Nat /\ clock' = clock + 1 /\ missed \in Seq(Nat) /\ forgot \in Nat
        /\ missed' = missed /\ forgot' = forgot /\ thrown' = thrown
        /\ burnFailures' = burnFailures /\ attempts' = attempts
    BY DEF GuardInv, BurnInv, GuardTick, guardVars, history
  <1>2. Len(Recent(missed, clock + 1)) <= Len(Recent(missed, clock))
    BY <1>1, WindowSlides
  <1>3. /\ Len(Recent(missed, clock + 1)) \in Nat /\ Len(Recent(missed, clock)) \in Nat
    BY <1>1, RecentOf
  <1>4. CodesBurnedInTime'
    <2>1. CASE Len(Recent(missed, clock)) <= BurnAfter + forgot
      <3>1. Len(Recent(missed, clock + 1)) <= BurnAfter + forgot
        BY <1>1, <1>2, <1>3, <2>1, GuardAssumption
      <3> QED
        BY <1>1, <3>1 DEF CodesBurnedInTime
    <2>2. CASE ~(Len(Recent(missed, clock)) <= BurnAfter + forgot)
      BY <1>1, <2>2 DEF BurnInv, CodesBurnedInTime, Burning
    <2> QED
      BY <2>1, <2>2
  <1> QED
    BY <1>1, <1>4 DEF BurnInv

-----------------------------------------------------------------------------
(* The theorems *)

\* An empty guard satisfies the invariant.
LEMMA GuardStarts == GuardInit => GuardInv
  <1> SUFFICES ASSUME GuardInit PROVE GuardInv
    OBVIOUS
  <1>1. \A k \in Key : OpenOn(k) = {}
    BY DEF GuardInit, OpenOn, NoAttempt
  <1>2. ReservationsExact
    BY <1>1, FS_EmptySet DEF GuardInit, ReservationsExact
  <1> QED BY <1>2 DEF GuardInit, GuardInv, Map, OpenByAddress, NoAttempt, NoOverrun,
                      LockoutsKept, Key

\* Every step of the guard keeps the invariant.
LEMMA GuardSteps == GuardInv /\ [GuardNext]_redeemVars => GuardInv'
  <1> SUFFICES ASSUME GuardInv, [GuardNext]_redeemVars PROVE GuardInv'
    OBVIOUS
  <1>1. ASSUME NEW a \in Attempt, NEW ip \in Ip, Begin(a, ip) PROVE GuardInv'
    BY <1>1, BeginKeeps
  <1>2. ASSUME NEW a \in Attempt, FailAttempt(a) PROVE GuardInv'
    BY <1>2, FailKeeps
  <1>3. ASSUME NEW a \in Attempt, Succeed(a) PROVE GuardInv'
    BY <1>3, SucceedKeeps
  <1>4. ASSUME NEW a \in Attempt, Abandon(a) PROVE GuardInv'
    BY <1>4, AbandonKeeps
  <1>5. ASSUME NEW a \in Attempt, Invalidate(a) \/ InvalidateFails(a) \/ Burned(a)
        PROVE  GuardInv'
    BY <1>5, MapUntouched DEF Invalidate, InvalidateFails, Burned, guardVars, history
  <1>6. ASSUME GuardTick PROVE GuardInv'
    BY <1>6, TickKeeps
  <1>7. ASSUME UNCHANGED redeemVars PROVE GuardInv'
    <2>1. \A k \in Key : OpenOn(k)' = OpenOn(k)
      BY <1>7 DEF OpenOn, redeemVars
    <2> QED BY <1>7, <2>1 DEF redeemVars, guardVars, history, GuardInv, ReservationsExact,
                              NoOverrun, LockoutsKept, OpenByAddress
  <1> QED BY <1>1, <1>2, <1>3, <1>4, <1>5, <1>6, <1>7 DEF GuardNext

\* The invariant holds of every behaviour of the guard.
THEOREM GuardInvariant == GuardSpec => []GuardInv
  <1> QED BY GuardStarts, GuardSteps, PTL DEF GuardSpec

(***************************************************************************)
(* However the attempts of the redeem route interleave (redeem-guard.ts,   *)
(* begin to the outcome), the failures and the attempts under way on an    *)
(* address, or on all together, never exceed the limit, and a locked key   *)
(* has no attempt under way that could still succeed.                      *)
(***************************************************************************)
THEOREM LimitNeverOverrun == GuardSpec => []NoOverrun
  <1>1. GuardInv => NoOverrun
    BY DEF GuardInv
  <1> QED BY <1>1, GuardInvariant, PTL

(***************************************************************************)
(* release() is idempotent and no entry is dropped, restarted or swept     *)
(* from under an attempt: what an entry counts as under way is what is     *)
(* under way.                                                              *)
(***************************************************************************)
THEOREM ReservationsAlwaysExact == GuardSpec => []ReservationsExact
  <1>1. GuardInv => ReservationsExact
    BY DEF GuardInv
  <1> QED BY <1>1, GuardInvariant, PTL

(***************************************************************************)
(* Once a key is locked, no attempt begins on it before the lockout that   *)
(* it was given ends: not after a success, a release, a restarted window   *)
(* or a sweep of a full map in between.                                    *)
(***************************************************************************)
THEOREM LockoutAlwaysHolds == GuardSpec => LockoutHolds
  <1> DEFINE Holds == \A a \in Attempt :
                         attempts[a].at = "none" /\ attempts'[a].at = "open" =>
                         lockEnd[Global] <= clock /\ lockEnd[attempts'[a].ip] <= clock
  <1>1. ASSUME GuardInv, GuardNext PROVE Holds
    <2> SUFFICES ASSUME NEW a \in Attempt, attempts[a].at = "none", attempts'[a].at = "open"
                 PROVE  lockEnd[Global] <= clock /\ lockEnd[attempts'[a].ip] <= clock
      OBVIOUS
    <2>1. ASSUME NEW b \in Attempt, NEW ip \in Ip, Begin(b, ip)
          PROVE  lockEnd[Global] <= clock /\ lockEnd[attempts'[a].ip] <= clock
      <3>1. b = a /\ attempts'[a].ip = ip
        BY <1>1, <2>1 DEF Begin, GuardInv
      <3>2. ASSUME NEW k \in Key, ~Blocked(entries, k, clock) PROVE lockEnd[k] <= clock
        <4>1. ~(entries[k] # NoEntry /\ entries[k].lockedUntil > clock)
          BY <3>2 DEF Blocked
        <4>2. lockEnd[k] \in Nat /\ clock \in Nat
          BY <1>1 DEF GuardInv
        <4>3. ASSUME lockEnd[k] > clock PROVE FALSE
          <5>1. entries[k] # NoEntry /\ entries[k].lockedUntil >= lockEnd[k]
            BY <1>1, <4>3, InvFacts
          <5>2. entries[k].lockedUntil \in Nat
            BY <1>1, <5>1, InvFacts, EntryOf
          <5> QED BY <4>1, <4>2, <4>3, <5>1, <5>2
        <4> QED BY <4>2, <4>3
      <3>3. ~Blocked(entries, Global, clock) /\ ~Blocked(entries, ip, clock)
        BY <2>1 DEF Begin
      <3> QED BY <3>1, <3>2, <3>3 DEF Key
    <2>2. ASSUME NEW b \in Attempt,
                 \/ FailAttempt(b) \/ Succeed(b) \/ Abandon(b)
                 \/ Invalidate(b) \/ InvalidateFails(b) \/ Burned(b)
          PROVE  FALSE
      <3>1. \/ attempts' = [attempts EXCEPT ![b] = NoAttempt]
            \/ attempts' = [attempts EXCEPT ![b].at = "burn"]
            \/ attempts' = [attempts EXCEPT ![b].at = "burned"]
        BY <2>2 DEF FailAttempt, Succeed, Abandon, Invalidate, InvalidateFails, Burned
      <3>2. /\ \A c \in Attempt \ {b} : attempts'[c] = attempts[c]
            /\ attempts'[b].at # "open"
        BY <1>1, <3>1, EndedRequests
      <3> QED BY <3>2
    <2>3. ASSUME GuardTick PROVE FALSE
      BY <2>3 DEF GuardTick
    <2> QED BY <1>1, <2>1, <2>2, <2>3 DEF GuardNext
  <1>2. GuardInv /\ [GuardNext]_redeemVars => [Holds]_redeemVars
    BY <1>1
  <1> QED BY <1>2, GuardInvariant, PTL DEF GuardSpec, LockoutHolds

\* The burn window's invariant holds of every behaviour of the guard.
LEMMA WindowInvariant == GuardSpec => []BurnInv
  <1>1. GuardInit => BurnInv
    <2> SUFFICES ASSUME GuardInit PROVE BurnInv
      OBVIOUS
    <2>1. <<>> \in Seq(Nat) /\ Len(<<>>) = 0 /\ <<>> = <<>> \o <<>>
      BY EmptySeq, ConcatEmptySeq
    <2>2. missed = <<>> /\ burnFailures = <<>> /\ forgot = 0 /\ thrown = FALSE
      BY DEF GuardInit
    <2>3. CodesBurnedInTime
      <3>1. Recent(<<>>, clock) \in Seq(Nat) /\ Len(Recent(<<>>, clock)) <= 0
        BY <2>1, RecentOf
      <3> QED
        BY <2>2, <3>1, GuardAssumption DEF CodesBurnedInTime
    <2>4. burnFailures = <<>> \o <<>> /\ missed = <<>> \o <<>>
      BY <2>1, <2>2, Zenon
    <2>5. Len(<<>>) <= forgot /\ forgot \in Nat
      BY <2>1, <2>2
    <2>6. thrown \in BOOLEAN
      BY <2>2
    <2> QED
      BY <2>1, <2>2, <2>3, <2>4, <2>5, <2>6 DEF BurnInv
  <1>2. GuardInv /\ BurnInv /\ [GuardNext]_redeemVars => BurnInv'
    <2> SUFFICES ASSUME GuardInv, BurnInv, [GuardNext]_redeemVars PROVE BurnInv'
      OBVIOUS
    <2>1. ASSUME NEW a \in Attempt,
                 (\E ip \in Ip : Begin(a, ip)) \/ Succeed(a) \/ Abandon(a)
          PROVE  BurnInv'
      <3>1. attempts \in [Attempt -> [at : {"none", "open", "burn", "burned"}, ip : Key]]
        BY DEF GuardInv
      <3>2. /\ attempts[a].at \in {"none", "open"}
            /\ \/ attempts' = [attempts EXCEPT ![a] = NoAttempt]
               \/ \E ip \in Ip : attempts' = [attempts EXCEPT ![a] = [at |-> "open", ip |-> ip]]
            /\ clock' = clock
            /\ burnFailures' = burnFailures
            /\ missed' = missed /\ forgot' = forgot /\ thrown' = thrown
        BY <2>1 DEF Begin, Succeed, Abandon, history
      <3>3. \A b \in Attempt : attempts[b].at = "burn" => attempts'[b].at = "burn"
        BY <3>1, <3>2 DEF NoAttempt
      <3> QED
        BY <3>2, <3>3, WindowUntouched
    <2>2. ASSUME NEW a \in Attempt, FailAttempt(a) PROVE BurnInv'
      BY <2>2, FailBurnsInTime
    <2>3. ASSUME NEW a \in Attempt, Invalidate(a) \/ InvalidateFails(a) \/ Burned(a)
          PROVE  BurnInv'
      BY <2>3, CodesStepsBurnInTime
    <2>4. ASSUME GuardTick PROVE BurnInv'
      BY <2>4, TickBurnsInTime
    <2>5. ASSUME UNCHANGED redeemVars PROVE BurnInv'
      BY <2>5, WindowUntouched DEF redeemVars, guardVars, history
    <2> QED
      BY <2>1, <2>2, <2>3, <2>4, <2>5 DEF GuardNext
  <1> QED
    BY <1>1, <1>2, GuardInvariant, PTL DEF GuardSpec

(***************************************************************************)
(* The guard's types, the two sequences of the burn window among them.     *)
(***************************************************************************)
THEOREM GuardTypeCorrect == GuardSpec => []GuardTypeOK
  <1>1. GuardInv /\ BurnInv => GuardTypeOK
    BY DEF GuardInv, BurnInv, GuardTypeOK, Map
  <1> QED BY <1>1, GuardInvariant, WindowInvariant, PTL

(***************************************************************************)
(* However failures, slow invalidations and their late answers interleave  *)
(* (app.ts, the refused redeem; redeem-guard.ts, fail and burned), the     *)
(* failures of a burn window that no invalidation followed never exceed    *)
(* the limit and those a burned() came upon, unless one is asked for or    *)
(* just threw.                                                             *)
(***************************************************************************)
THEOREM CodesAlwaysBurnedInTime == GuardSpec => []CodesBurnedInTime
  <1>1. BurnInv => CodesBurnedInTime
    BY DEF BurnInv
  <1> QED BY <1>1, WindowInvariant, PTL
=============================================================================

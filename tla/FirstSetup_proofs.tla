---------------------------- MODULE FirstSetup_proofs ----------------------------
(***************************************************************************)
(* Proofs about first setup, for every set of keys, tags, profiles and     *)
(* runs and every value of the bounds.                                     *)
(*                                                                         *)
(* Every step is a call of the relay's store or leaves it alone, so the    *)
(* store's invariant holds beside it.  That "first" is inferred only by    *)
(* the first owner needs no more than who the relay has enrolled.  That a  *)
(* master is minted once and backed up in the end holds for any number of  *)
(* windows, while no two of them were inside finish and none wiped the     *)
(* record that another worked on: then a run at work and the device record *)
(* say the same, a late run knows either the record's master or another    *)
(* key's, and nobody else's steps take back what a run has made (Grows).   *)
(* Which code opens the wrap, and that a stage only advances, is shown     *)
(* while no window opens beside one at work.                               *)
(***************************************************************************)
EXTENDS FirstSetup, RelayStore_proofs

\* Where a run works with the keys of its device.
Keyed == {"code", "finish", "mint", "manifest", "naming", "backup", "shown", "stopped"}
            \cup Waiting

\* Where a run carries the master it minted or found in the vault.
Tagged == {"manifest", "naming", "granting", "grant_answer", "wrapping"}

\* Where it is on its way to the granted scopes.
Finishing == InFinish \cup {"granting", "grant_answer"}

\* Where it carries a recovery code.
Coded == {"wrapping", "wrap_answer", "shown"}

\* Where a run stands decides what it carries; a locked one waits for an answer or is
\* inside finish.
Shape(n) ==
    /\ n.life = "free" => n = NoRun
    /\ n.life # "free" => n.at # None
    /\ n.life = "locked" => n.at \in Waiting \cup InFinish
    /\ n.at \in Keyed => n.key \in Device
    /\ n.at \in Tagged => n.tag \in Scope
    /\ n.at \in Coded => n.code \in Recovery
    /\ n.at \in {"welcome", "passkey"} => n.tag = None
    /\ n.at = "redeeming" => n.code \in Code
    /\ n.at = "listed" => n.mode \in Mode \cup {None}
    /\ n.at = "redeem_answer" => n.mode \in Mode \cup {"refused"}

RunShape == \A r \in Run : Shape(runs[r])

BaseInv == SetupTypeOK /\ StoreInv /\ RunShape

\* The relay has told every device it knows a mode, and enrolled it as an owner for good.
OwnersReported ==
    \A d \in Device : /\ reported[d] # None <=> status[d] # "none"
                      /\ status[d] # "none" => d \in ActiveOwners

\* Of the owners one is the first.
FirstIsThere == ActiveOwners # {} => \E d \in ActiveOwners : reported[d] = "first"

\* A master is an owner's.
MasterIsOwned == Masters # {} => ActiveOwners # {}

InferInv ==
    BaseInv /\ OwnersReported /\ FirstIsThere /\ MasterIsOwned /\ InferredFirstIsFirst

\* The relay granted d the master t and the one stream of its manifest, which names d.
Granted(d, t) ==
    /\ t \in acl[d] /\ kind[t] = "master"
    /\ d \in manifest[t].devices
    /\ manifest[t].streams # {} /\ manifest[t].streams \subseteq acl[d]

\* A record whose master is granted.
Backed(rec) == rec.grant \in Scope /\ Granted(rec.key, rec.grant)

\* A run at work and the record of its profile say the same.
WorkFits(n, rec) ==
    /\ n.at \in Keyed => rec # None /\ rec.key = n.key
    /\ n.at = "mint" => rec.grant = None
    /\ n.at \in {"backup", "shown", "wrapping", "wrap_answer"} => Backed(rec)

\* A run carries the master of its record, if it is still its key's.
TagFits(n, rec) == n.tag \in Scope /\ rec # None /\ rec.key = n.key => rec.grant = n.tag

\* How far a run has come, the manifest, the relay's rows and the wrap have come, too.
SentFits(n) ==
    /\ n.at \in {"naming", "granting"} => manifest[n.tag].streams # {}
    /\ n.at = "granting" => n.key \in manifest[n.tag].devices
    /\ n.at = "grant_answer" => Granted(n.key, n.tag)
    /\ n.at = "wrapping" => kind[n.tag] = "master"
    /\ n.at \in {"wrap_answer", "shown"} => wrap # None

RunFits(n, rec) == (AtWork(n) => WorkFits(n, rec)) /\ TagFits(n, rec) /\ SentFits(n)

RunsFit == \A r \in Run : RunFits(runs[r], record[r[1]])

\* A stage that is recorded was reached.
StageFits(rec) ==
    /\ rec.stage \in {"scopes_granted", "recovery_pending", "done"} => Backed(rec)
    /\ rec.stage = "keys_created" => rec.mode = None
    /\ rec.stage = "done" => wrap # None

\* The relay has granted a device nothing but its vault's master and that one's stream.
AclIsVault(rec) ==
    IF rec.grant = None THEN acl[rec.key] = {}
    ELSE /\ acl[rec.key] \subseteq {rec.grant} \cup manifest[rec.grant].streams
         /\ rec.grant \in acl[rec.key] => kind[rec.grant] = "master"

RecordsFit == \A p \in Profile : record[p] # None => StageFits(record[p]) /\ AclIsVault(record[p])

\* Inside finish a profile has one run.
FinishAlone ==
    \A r, q \in Run : r[1] = q[1] /\ runs[r].at \in InFinish /\ runs[q].at \in InFinish => r = q

\* A key belongs to one profile.
KeysApart ==
    /\ \A p \in Profile, r \in Run :
          record[p] # None /\ runs[r].key = record[p].key => r[1] = p
    /\ \A p, q \in Profile :
          record[p] # None /\ record[q] # None /\ record[p].key = record[q].key => p = q

\* A manifest has one stream at most, and a stream's tag is nobody's master.
StreamsApart ==
    \A t \in Scope : \A s \in manifest[t].streams :
        /\ manifest[t].streams = {s}
        /\ kind[s] # "master"
        /\ \A p \in Profile : record[p] # None => record[p].grant # s
        /\ \A r \in Run : runs[r].tag # s

WrapIsMaster == wrap # None => wrap.tag \in Masters

\* What holds while no two runs were inside finish and no record was wiped under a run.
FitInv ==
    /\ FinishAlone /\ KeysApart
    /\ RunsFit /\ RecordsFit
    /\ StreamsApart /\ WrapIsMaster

\* One run of a profile is at work.
OneAtWork ==
    \A r, q \in Run : r[1] = q[1] /\ AtWork(runs[r]) /\ AtWork(runs[q]) => r = q

\* Then its record's stage is where the run stands.
StageStands(n, rec) ==
    /\ n.at = "wiping" => rec # None
    /\ n.at \in Keyed => rec.stage # "done"
    /\ n.at \in Finishing => rec.stage = "redeemed"

\* The wrap's code, if it was not put late, is the one that a live run is about to show.
CodeStands(n) ==
    n.life = "live" /\ n.at \in {"wrap_answer", "shown"} => wrap.late \/ wrap.code = n.code

RunsStand ==
    \A r \in Run : (AtWork(runs[r]) => StageStands(runs[r], record[r[1]])) /\ CodeStands(runs[r])

\* Once setup is done it is the one she confirmed.
PaperStands ==
    \A p \in Profile : record[p] # None /\ record[p].stage = "done"
                          => wrap.late \/ wrap.code = paper[p]

\* No two profiles hold the same master.
MastersApart ==
    \A p, q \in Profile :
        /\ record[p] # None /\ record[q] # None
        /\ record[p].grant \in Scope /\ record[q].grant = record[p].grant
        => p = q

\* What holds while no window opens beside one at work.
AloneInv == OneAtWork /\ RunsStand /\ PaperStands /\ MastersApart

VaultInv == BaseInv /\ (Apart => FitInv) /\ (Alone => AloneInv)

-----------------------------------------------------------------------------
(* Runs and their fields *)

RunRec == [life : {"free", "live", "locked"}, at : Screen \cup Waiting \cup {None},
           key : Device \cup {None}, tag : Scope \cup {None},
           code : Code \cup Recovery \cup {None}, mode : Mode \cup {None, "refused"}]

\* A live run on a screen, with nothing but its key.
OnScreen(s, k) == [NoRun EXCEPT !.life = "live", !.at = s, !.key = k]

\* The screens that a run settles on.
Rest == {"welcome", "passkey", "code", "finish", "backup", "stopped"}

\* What Settle leaves of a run.
Settled(n, s) == IF n.life = "live" THEN OnScreen(s, n.key) ELSE NoRun

\* The steps of one run.
Stepping(r) ==
    \/ ReadDeviceStatus(r) \/ Wipe(r) \/ CreatePasskey(r)
    \/ \E d \in Device : SealVault(r, d)
    \/ Redeem(r) \/ ServeList(r) \/ TakeList(r) \/ ServeRedeem(r) \/ TakeRedeem(r)
    \/ Finish(r) \/ ServeGrant(r) \/ TakeGrant(r)
    \/ \E tag \in Scope : Mint(r, tag) \/ AddStream(r, tag)
    \/ AddDevice(r)
    \/ IssueRecoveryCode(r) \/ ServeWrap(r) \/ TakeWrap(r) \/ ConfirmRecoveryCode(r)
    \/ Ambiguous(r) \/ Lock(r) \/ Close(r)

\* A step is a run's, the rest of the deployment's, or none.
LEMMA StepCases ==
    ASSUME [SetupNext]_vars
    PROVE  (\E r \in Run : Stepping(r)) \/ Elsewhere \/ UNCHANGED vars
  BY DEF SetupNext, Stepping

\* The mark for none is nothing that it is a mark for.
LEMMA NoneIsNothing ==
    /\ None \notin Device /\ None \notin Scope /\ None \notin Code /\ None \notin Slot
    /\ None \notin Recovery /\ None \notin Wrap
    /\ None \notin Mode /\ None # "refused" /\ None \notin Record
    /\ None \notin Screen \cup Waiting
  BY SetupAssumption, NoneAssumption

\* A run that is gone is a run.
LEMMA FreeRun ==
    /\ NoRun \in RunRec /\ Shape(NoRun)
    /\ NoRun.life = "free" /\ NoRun.at = None /\ NoRun.key = None /\ NoRun.tag = None
    /\ NoRun.code = None /\ NoRun.mode = None
  <1>1. NoRun \in RunRec
    BY DEF NoRun, RunRec
  <1>2. /\ NoRun.life = "free" /\ NoRun.at = None /\ NoRun.key = None /\ NoRun.tag = None
        /\ NoRun.code = None /\ NoRun.mode = None
    BY DEF NoRun
  <1>3. Keyed \cup Tagged \cup Coded \cup {"redeeming", "listed", "redeem_answer"}
          \subseteq Screen \cup Waiting
    BY DEF Keyed, Tagged, Coded, Screen, Waiting
  <1> QED BY <1>1, <1>2, <1>3, NoneIsNothing DEF Shape

\* The fields of a run on a screen.
LEMMA ScreenRun ==
    ASSUME NEW s \in Screen, NEW k \in Device \cup {None}
    PROVE  /\ OnScreen(s, k) \in RunRec
           /\ OnScreen(s, k).life = "live" /\ OnScreen(s, k).at = s /\ OnScreen(s, k).key = k
           /\ OnScreen(s, k).tag = None /\ OnScreen(s, k).code = None
           /\ OnScreen(s, k).mode = None
  BY DEF OnScreen, NoRun, RunRec

\* Setting a field of a run leaves the others.
LEMMA RunFields ==
    ASSUME NEW n \in RunRec
    PROVE  /\ \A a \in Screen \cup Waiting :
                 LET e == [n EXCEPT !.at = a]
                 IN  /\ e \in RunRec /\ e.at = a /\ e.life = n.life /\ e.key = n.key
                     /\ e.tag = n.tag /\ e.code = n.code /\ e.mode = n.mode
           /\ \A d \in Device :
                 LET e == [n EXCEPT !.key = d]
                 IN  /\ e \in RunRec /\ e.key = d /\ e.life = n.life /\ e.at = n.at
                     /\ e.tag = n.tag /\ e.code = n.code /\ e.mode = n.mode
           /\ \A t \in Scope \cup {None} :
                 LET e == [n EXCEPT !.tag = t]
                 IN  /\ e \in RunRec /\ e.tag = t /\ e.life = n.life /\ e.at = n.at
                     /\ e.key = n.key /\ e.code = n.code /\ e.mode = n.mode
           /\ \A c \in Code \cup Recovery \cup {None} :
                 LET e == [n EXCEPT !.code = c]
                 IN  /\ e \in RunRec /\ e.code = c /\ e.life = n.life /\ e.at = n.at
                     /\ e.key = n.key /\ e.tag = n.tag /\ e.mode = n.mode
           /\ \A m \in Mode \cup {None, "refused"} :
                 LET e == [n EXCEPT !.mode = m]
                 IN  /\ e \in RunRec /\ e.mode = m /\ e.life = n.life /\ e.at = n.at
                     /\ e.key = n.key /\ e.tag = n.tag /\ e.code = n.code
           /\ LET e == [n EXCEPT !.life = "locked"]
              IN  /\ e \in RunRec /\ e.life = "locked" /\ e.at = n.at
                  /\ e.key = n.key /\ e.tag = n.tag /\ e.code = n.code /\ e.mode = n.mode
  BY DEF RunRec

\* The runs, as the type invariant has them.
LEMMA RunTypes ==
    ASSUME SetupTypeOK
    PROVE  /\ runs \in [Run -> RunRec]
           /\ \A r \in Run : /\ runs[r] \in RunRec
                             /\ r = <<r[1], r[2]>> /\ r[1] \in Profile /\ r[2] \in Slot
  BY DEF SetupTypeOK, RunRec, Run

\* One run moves, and is a run.
OneMoves(r) == runs' = [runs EXCEPT ![r] = runs'[r]] /\ runs'[r] \in RunRec

\* ... to where, and with what.
MovesTo(r, l, a, k, t, c, m) ==
    /\ OneMoves(r)
    /\ runs'[r].life = l /\ runs'[r].at = a /\ runs'[r].key = k
    /\ runs'[r].tag = t /\ runs'[r].code = c /\ runs'[r].mode = m

\* Overwriting a run with a run moves it alone.
LEMMA Overwritten ==
    ASSUME SetupTypeOK, NEW r \in Run, NEW n \in RunRec, runs' = [runs EXCEPT ![r] = n]
    PROVE  OneMoves(r) /\ runs'[r] = n
  BY RunTypes DEF OneMoves

\* A run that settles is on a screen with its key, or is gone.
LEMMA SettleMoves ==
    ASSUME SetupTypeOK, RunShape, NEW r \in Run, NEW s \in Rest, Settle(r, s),
           s \in Keyed => runs[r].key \in Device
    PROVE  /\ OneMoves(r) /\ Shape(runs'[r])
           /\ runs[r].life = "live" => MovesTo(r, "live", s, runs[r].key, None, None, None)
           /\ runs[r].life # "live" => runs'[r] = NoRun
  <1>0. s \in Screen
    BY DEF Rest, Screen
  <1>1. runs \in [Run -> RunRec] /\ runs[r] \in RunRec /\ runs[r].key \in Device \cup {None}
    BY RunTypes DEF RunRec
  <1>2. runs' = [runs EXCEPT ![r] = Settled(runs[r], s)]
    BY <1>1 DEF Settle, GoOn, Settled, OnScreen
  <1>3. /\ Settled(runs[r], s) \in RunRec
        /\ runs[r].life = "live" => Settled(runs[r], s) = OnScreen(s, runs[r].key)
        /\ runs[r].life # "live" => Settled(runs[r], s) = NoRun
    BY <1>0, <1>1, FreeRun, ScreenRun DEF Settled
  <1>4. OneMoves(r) /\ runs'[r] = Settled(runs[r], s)
    BY <1>2, <1>3, Overwritten
  <1>5. runs[r].life = "live" => MovesTo(r, "live", s, runs[r].key, None, None, None)
    BY <1>0, <1>1, <1>3, <1>4, ScreenRun DEF MovesTo
  <1>6. ASSUME runs[r].life = "live" PROVE Shape(runs'[r])
    <2>1. s # None
      BY <1>0, NoneIsNothing
    <2>2. /\ s \notin Waiting /\ s \notin Tagged /\ s \notin Coded
          /\ s \notin {"redeeming", "listed", "redeem_answer"}
      BY DEF Rest, Waiting, Tagged, Coded
    <2> QED BY <1>5, <1>6, <2>1, <2>2 DEF Shape, MovesTo
  <1>7. runs[r].life # "live" => Shape(runs'[r])
    BY <1>3, <1>4, FreeRun
  <1> QED BY <1>3, <1>4, <1>5, <1>6, <1>7

\* A run of which some fields are set moves alone.
LEMMA SetMoves ==
    ASSUME SetupTypeOK, NEW r \in Run, NEW a \in Screen \cup Waiting
    PROVE  LET n == runs[r]
           IN  /\ runs' = [runs EXCEPT ![r].at = a] =>
                     MovesTo(r, n.life, a, n.key, n.tag, n.code, n.mode)
               /\ \A d \in Device : runs' = [runs EXCEPT ![r].at = a, ![r].key = d] =>
                     MovesTo(r, n.life, a, d, n.tag, n.code, n.mode)
               /\ \A t \in Scope \cup {None} : runs' = [runs EXCEPT ![r].tag = t, ![r].at = a] =>
                     MovesTo(r, n.life, a, n.key, t, n.code, n.mode)
               /\ \A t \in Scope \cup {None} : runs' = [runs EXCEPT ![r].at = a, ![r].tag = t] =>
                     MovesTo(r, n.life, a, n.key, t, n.code, n.mode)
               /\ \A c \in Code : runs' = [runs EXCEPT ![r].at = a, ![r].code = c] =>
                     MovesTo(r, n.life, a, n.key, n.tag, c, n.mode)
               /\ \A t \in Scope, c \in Recovery :
                     runs' = [runs EXCEPT ![r].at = a, ![r].tag = t, ![r].code = c] =>
                        MovesTo(r, n.life, a, n.key, t, c, n.mode)
               /\ \A m \in Mode \cup {None} : runs' = [runs EXCEPT ![r].at = a, ![r].mode = m] =>
                     MovesTo(r, n.life, a, n.key, n.tag, n.code, m)
               /\ \A m \in Mode \cup {"refused"} :
                     runs' = [runs EXCEPT ![r].at = a, ![r].code = None, ![r].mode = m] =>
                        MovesTo(r, n.life, a, n.key, n.tag, None, m)
               /\ runs' = [runs EXCEPT ![r].life = "locked"] =>
                     MovesTo(r, "locked", n.at, n.key, n.tag, n.code, n.mode)
  <1> DEFINE n == runs[r]
             x == [n EXCEPT !.at = a]
  <1>0. runs \in [Run -> RunRec] /\ n \in RunRec
    BY RunTypes
  <1>1. /\ x \in RunRec /\ x.at = a /\ x.life = n.life /\ x.key = n.key
        /\ x.tag = n.tag /\ x.code = n.code /\ x.mode = n.mode
    BY <1>0, RunFields, Zenon
  <1>2. ASSUME runs' = [runs EXCEPT ![r].at = a]
        PROVE  MovesTo(r, n.life, a, n.key, n.tag, n.code, n.mode)
    BY <1>0, <1>1, <1>2, Overwritten DEF MovesTo
  <1>3. ASSUME NEW d \in Device, runs' = [runs EXCEPT ![r].at = a, ![r].key = d]
        PROVE  MovesTo(r, n.life, a, d, n.tag, n.code, n.mode)
    <2> DEFINE e == [x EXCEPT !.key = d]
    <2>1. runs' = [runs EXCEPT ![r] = e]
      BY <1>0, <1>3
    <2> HIDE DEF x
    <2>2. /\ e \in RunRec /\ e.key = d /\ e.life = x.life /\ e.at = x.at
          /\ e.tag = x.tag /\ e.code = x.code /\ e.mode = x.mode
      BY <1>1, RunFields, Zenon
    <2> HIDE DEF e
    <2> QED BY <1>1, <2>1, <2>2, Overwritten DEF MovesTo
  <1>4. ASSUME NEW t \in Scope \cup {None},
               \/ runs' = [runs EXCEPT ![r].at = a, ![r].tag = t]
               \/ runs' = [runs EXCEPT ![r].tag = t, ![r].at = a]
        PROVE  MovesTo(r, n.life, a, n.key, t, n.code, n.mode)
    <2> DEFINE e == [x EXCEPT !.tag = t]
    <2>1. runs' = [runs EXCEPT ![r] = e]
      <3>1. [[n EXCEPT !.tag = t] EXCEPT !.at = a] = e
        BY <1>0 DEF RunRec
      <3> QED BY <1>0, <1>4, <3>1
    <2> HIDE DEF x
    <2>2. /\ e \in RunRec /\ e.tag = t /\ e.life = x.life /\ e.at = x.at
          /\ e.key = x.key /\ e.code = x.code /\ e.mode = x.mode
      BY <1>1, RunFields, Zenon
    <2> HIDE DEF e
    <2> QED BY <1>1, <2>1, <2>2, Overwritten DEF MovesTo
  <1>5. ASSUME NEW c \in Code, runs' = [runs EXCEPT ![r].at = a, ![r].code = c]
        PROVE  MovesTo(r, n.life, a, n.key, n.tag, c, n.mode)
    <2> DEFINE e == [x EXCEPT !.code = c]
    <2>1. runs' = [runs EXCEPT ![r] = e]
      BY <1>0, <1>5
    <2> HIDE DEF x
    <2>2. /\ e \in RunRec /\ e.code = c /\ e.life = x.life /\ e.at = x.at
          /\ e.key = x.key /\ e.tag = x.tag /\ e.mode = x.mode
      <3>1. c \in Code \cup Recovery \cup {None}
        OBVIOUS
      <3> QED BY <1>1, <3>1, RunFields, Zenon
    <2> HIDE DEF e
    <2> QED BY <1>1, <2>1, <2>2, Overwritten DEF MovesTo
  <1>6. ASSUME NEW m \in Mode \cup {None}, runs' = [runs EXCEPT ![r].at = a, ![r].mode = m]
        PROVE  MovesTo(r, n.life, a, n.key, n.tag, n.code, m)
    <2> DEFINE e == [x EXCEPT !.mode = m]
    <2>1. runs' = [runs EXCEPT ![r] = e]
      BY <1>0, <1>6
    <2> HIDE DEF x
    <2>2. /\ e \in RunRec /\ e.mode = m /\ e.life = x.life /\ e.at = x.at
          /\ e.key = x.key /\ e.tag = x.tag /\ e.code = x.code
      <3>1. m \in Mode \cup {None, "refused"}
        OBVIOUS
      <3> QED BY <1>1, <3>1, RunFields, Zenon
    <2> HIDE DEF e
    <2> QED BY <1>1, <2>1, <2>2, Overwritten DEF MovesTo
  <1>7. ASSUME NEW m \in Mode \cup {"refused"},
               runs' = [runs EXCEPT ![r].at = a, ![r].code = None, ![r].mode = m]
        PROVE  MovesTo(r, n.life, a, n.key, n.tag, None, m)
    <2> DEFINE y == [x EXCEPT !.code = None]
               e == [y EXCEPT !.mode = m]
    <2>1. runs' = [runs EXCEPT ![r] = e]
      BY <1>0, <1>7
    <2> HIDE DEF x
    <2>2. /\ y \in RunRec /\ y.code = None /\ y.life = x.life /\ y.at = x.at
          /\ y.key = x.key /\ y.tag = x.tag /\ y.mode = x.mode
      <3>1. None \in Code \cup Recovery \cup {None}
        OBVIOUS
      <3> QED BY <1>1, <3>1, RunFields, Zenon
    <2> HIDE DEF y
    <2>3. /\ e \in RunRec /\ e.mode = m /\ e.life = y.life /\ e.at = y.at
          /\ e.key = y.key /\ e.tag = y.tag /\ e.code = y.code
      <3>1. m \in Mode \cup {None, "refused"}
        OBVIOUS
      <3> QED BY <2>2, <3>1, RunFields, Zenon
    <2> HIDE DEF e
    <2> QED BY <1>1, <2>1, <2>2, <2>3, Overwritten DEF MovesTo
  <1>8. ASSUME runs' = [runs EXCEPT ![r].life = "locked"]
        PROVE  MovesTo(r, "locked", n.at, n.key, n.tag, n.code, n.mode)
    <2> DEFINE e == [n EXCEPT !.life = "locked"]
    <2>1. runs' = [runs EXCEPT ![r] = e]
      BY <1>0, <1>8
    <2>2. /\ e \in RunRec /\ e.life = "locked" /\ e.at = n.at
          /\ e.key = n.key /\ e.tag = n.tag /\ e.code = n.code /\ e.mode = n.mode
      BY <1>0, RunFields, Zenon
    <2> HIDE DEF e
    <2> QED BY <2>1, <2>2, Overwritten DEF MovesTo
  <1>9. ASSUME NEW t \in Scope, NEW c \in Recovery,
               runs' = [runs EXCEPT ![r].at = a, ![r].tag = t, ![r].code = c]
        PROVE  MovesTo(r, n.life, a, n.key, t, c, n.mode)
    <2> DEFINE y == [x EXCEPT !.tag = t]
               e == [y EXCEPT !.code = c]
    <2>1. runs' = [runs EXCEPT ![r] = e]
      BY <1>0, <1>9
    <2> HIDE DEF x
    <2>2. /\ y \in RunRec /\ y.tag = t /\ y.life = x.life /\ y.at = x.at
          /\ y.key = x.key /\ y.code = x.code /\ y.mode = x.mode
      <3>1. t \in Scope \cup {None}
        OBVIOUS
      <3> QED BY <1>1, <3>1, RunFields, Zenon
    <2> HIDE DEF y
    <2>3. /\ e \in RunRec /\ e.code = c /\ e.life = y.life /\ e.at = y.at
          /\ e.key = y.key /\ e.tag = y.tag /\ e.mode = y.mode
      <3>1. c \in Code \cup Recovery \cup {None}
        OBVIOUS
      <3> QED BY <2>2, <3>1, RunFields, Zenon
    <2> HIDE DEF e
    <2> QED BY <1>1, <2>1, <2>2, <2>3, Overwritten DEF MovesTo
  <1> QED BY <1>2, <1>3, <1>4, <1>5, <1>6, <1>7, <1>8, <1>9

\* A run goes on with the same key, or is gone if it was locked.
GoesOn(r, a, t, c, m) ==
    \/ runs[r].life = "live" /\ MovesTo(r, "live", a, runs[r].key, t, c, m)
    \/ runs[r].life # "live" /\ OneMoves(r) /\ runs'[r] = NoRun

LEMMA GoOnMoves ==
    ASSUME SetupTypeOK, NEW r \in Run, NEW a \in Screen \cup Waiting
    PROVE  LET n == runs[r]
           IN  /\ GoOn(r, [n EXCEPT !.at = a]) => GoesOn(r, a, n.tag, n.code, n.mode)
               /\ \A t \in Scope : GoOn(r, [n EXCEPT !.at = a, !.tag = t]) =>
                     GoesOn(r, a, t, n.code, n.mode)
  <1> DEFINE n == runs[r]
             x == [n EXCEPT !.at = a]
  <1>0. runs \in [Run -> RunRec] /\ n \in RunRec
    BY RunTypes
  <1>1. /\ x \in RunRec /\ x.at = a /\ x.life = n.life /\ x.key = n.key
        /\ x.tag = n.tag /\ x.code = n.code /\ x.mode = n.mode
    BY <1>0, RunFields, Zenon
  <1>2. ASSUME NEW e \in RunRec, GoOn(r, e)
        PROVE  OneMoves(r) /\ runs'[r] = IF n.life = "live" THEN e ELSE NoRun
    <2> DEFINE f == IF n.life = "live" THEN e ELSE NoRun
    <2>1. runs' = [runs EXCEPT ![r] = f]
      BY <1>0, <1>2 DEF GoOn
    <2>2. f \in RunRec
      BY FreeRun
    <2> HIDE DEF f
    <2>3. OneMoves(r) /\ runs'[r] = f
      BY <2>1, <2>2, Overwritten
    <2> QED BY <2>3 DEF f
  <1>3. ASSUME GoOn(r, x) PROVE GoesOn(r, a, n.tag, n.code, n.mode)
    BY <1>1, <1>2, <1>3 DEF GoesOn, MovesTo
  <1>4. ASSUME NEW t \in Scope, GoOn(r, [n EXCEPT !.at = a, !.tag = t])
        PROVE  GoesOn(r, a, t, n.code, n.mode)
    <2> DEFINE e == [x EXCEPT !.tag = t]
    <2>1. GoOn(r, e)
      BY <1>4
    <2> HIDE DEF x
    <2>2. /\ e \in RunRec /\ e.tag = t /\ e.life = x.life /\ e.at = x.at
          /\ e.key = x.key /\ e.code = x.code /\ e.mode = x.mode
      <3>1. t \in Scope \cup {None}
        OBVIOUS
      <3> QED BY <1>1, <3>1, RunFields, Zenon
    <2> HIDE DEF e
    <2> QED BY <1>1, <1>2, <2>1, <2>2 DEF GoesOn, MovesTo
  <1> QED BY <1>3, <1>4

-----------------------------------------------------------------------------
(* What a step makes of its run *)

\* Types of a record's fields.
LEMMA RecordTypes ==
    ASSUME SetupTypeOK, NEW p \in Profile, record[p] # None
    PROVE  /\ record[p] \in Record
           /\ record[p].key \in Device /\ record[p].stage \in Stage
           /\ record[p].mode \in Mode \cup {None} /\ record[p].at \in Nat
           /\ record[p].grant \in Scope \cup {None}
  BY DEF SetupTypeOK, Record

\* Opening the app puts a run on a screen, with the record's key if it resumes.
LEMMA OpenMoves ==
    ASSUME SetupTypeOK, NEW r \in Run, ReadDeviceStatus(r)
    PROVE  LET rec == record[r[1]]
           IN  /\ runs[r].life = "free"
               /\ crossed' = {} => \A q \in Beside(r) : ~AtWork(runs[q])
               /\ \/ rec = None /\ MovesTo(r, "live", "welcome", None, None, None, None)
                  \/ rec # None /\ MovesTo(r, "live", "wiping", None, None, None, None)
                  \/ /\ rec # None /\ rec.stage # "done"
                     /\ \/ rec.stage = "keys_created"
                           /\ MovesTo(r, "live", "code", rec.key, None, None, None)
                        \/ rec.stage = "redeemed"
                           /\ MovesTo(r, "live", "finish", rec.key, None, None, None)
                        \/ rec.stage \in {"scopes_granted", "recovery_pending"}
                           /\ MovesTo(r, "live", "backup", rec.key, None, None, None)
  <1> DEFINE rec == record[r[1]]
             Open(at, key) == runs' = [runs EXCEPT ![r] = OnScreen(at, key)]
  <1>1. /\ runs[r].life = "free"
        /\ crossed' = {} => \A q \in Beside(r) : ~AtWork(runs[q])
    BY DEF ReadDeviceStatus, Cross
  <1>2. ASSUME NEW s \in Screen, NEW k \in Device \cup {None}, Open(s, k)
        PROVE  MovesTo(r, "live", s, k, None, None, None)
    <2>1. OneMoves(r) /\ runs'[r] = OnScreen(s, k)
      BY <1>2, ScreenRun, Overwritten
    <2> QED BY <2>1, ScreenRun DEF MovesTo
  <1>3. \/ rec = None /\ Open("welcome", None)
        \/ rec # None /\ Open("wiping", None)
        \/ rec # None /\ rec.stage # "done" /\ Open(ResumeScreen(rec.stage), rec.key)
    BY DEF ReadDeviceStatus, OnScreen
  <1>4. CASE rec = None /\ Open("welcome", None)
    <2>1. MovesTo(r, "live", "welcome", None, None, None, None)
      BY <1>2, <1>4 DEF Screen
    <2> QED BY <1>1, <1>4, <2>1
  <1>5. CASE rec # None /\ Open("wiping", None)
    <2>1. MovesTo(r, "live", "wiping", None, None, None, None)
      BY <1>2, <1>5 DEF Screen
    <2> QED BY <1>1, <1>5, <2>1
  <1>6. CASE rec # None /\ rec.stage # "done" /\ Open(ResumeScreen(rec.stage), rec.key)
    <2>1. rec.key \in Device /\ rec.stage \in Stage
      BY <1>6, RunTypes, RecordTypes
    <2>2. \/ rec.stage = "keys_created" /\ ResumeScreen(rec.stage) = "code"
          \/ rec.stage = "redeemed" /\ ResumeScreen(rec.stage) = "finish"
          \/ /\ rec.stage \in {"scopes_granted", "recovery_pending"}
             /\ ResumeScreen(rec.stage) = "backup"
      BY <1>6, <2>1 DEF Stage, ResumeScreen
    <2>3. MovesTo(r, "live", ResumeScreen(rec.stage), rec.key, None, None, None)
      BY <1>2, <1>6, <2>1, <2>2 DEF Screen
    <2> QED BY <1>1, <1>6, <2>2, <2>3
  <1> QED BY <1>3, <1>4, <1>5, <1>6

\* The steps up to the sealed vault.
LEMMA SealMoves ==
    ASSUME SetupTypeOK, RunShape, NEW r \in Run
    PROVE  LET n == runs[r]
           IN  /\ Wipe(r) => MovesTo(r, "live", "welcome", n.key, None, None, None)
               /\ CreatePasskey(r) => MovesTo(r, "live", "passkey", n.key, None, None, None)
               /\ \A d \in Device :
                     SealVault(r, d) => MovesTo(r, "live", "code", d, n.tag, n.code, n.mode)
  <1>1. ASSUME Wipe(r) PROVE MovesTo(r, "live", "welcome", runs[r].key, None, None, None)
    BY <1>1, SettleMoves DEF Wipe, Live, Rest, Keyed, Waiting
  <1>2. ASSUME CreatePasskey(r)
        PROVE  MovesTo(r, "live", "passkey", runs[r].key, None, None, None)
    BY <1>2, SettleMoves DEF CreatePasskey, Live, Rest, Keyed, Waiting
  <1>3. ASSUME NEW d \in Device, SealVault(r, d)
        PROVE  MovesTo(r, "live", "code", d, runs[r].tag, runs[r].code, runs[r].mode)
    <2>1. "code" \in Screen \cup Waiting
      BY DEF Screen
    <2>2. runs[r].life = "live" /\ runs' = [runs EXCEPT ![r].at = "code", ![r].key = d]
      BY <1>3 DEF SealVault, Live
    <2> QED BY <2>1, <2>2, SetMoves
  <1> QED BY <1>1, <1>2, <1>3

\* A run settles on a screen, or is gone if it was locked.
SettlesOn(r, s) ==
    \/ runs[r].life = "live" /\ MovesTo(r, "live", s, runs[r].key, None, None, None)
    \/ runs[r].life # "live" /\ OneMoves(r) /\ runs'[r] = NoRun

\* A run that works with its keys has one.
LEMMA KeyedRun ==
    ASSUME SetupTypeOK, RunShape, NEW r \in Run, runs[r].at \in Keyed
    PROVE  runs[r].key \in Device /\ runs[r].life # "free"
  <1>1. runs[r].key \in Device
    BY DEF RunShape, Shape
  <1>2. runs[r].life # "free"
    BY <1>1, FreeRun, NoneIsNothing DEF RunShape, Shape
  <1> QED BY <1>1, <1>2

\* Such a run settles on any screen.
LEMMA Settles ==
    ASSUME SetupTypeOK, RunShape, NEW r \in Run, runs[r].at \in Keyed, NEW s \in Rest, Settle(r, s)
    PROVE  SettlesOn(r, s)
  BY KeyedRun, SettleMoves DEF SettlesOn

\* What learning the mode makes of a run and of the record.
Learns(r, mode) ==
    \/ record[r[1]] = None /\ SettlesOn(r, "code") /\ UNCHANGED record
    \/ /\ record[r[1]] # None /\ RecordStage(r[1], "redeemed", mode)
       /\ \/ mode = "first" /\ SettlesOn(r, "finish")
          \/ mode # "first" /\ SettlesOn(r, "stopped")

LEMMA LearnMoves ==
    ASSUME SetupTypeOK, RunShape, NEW r \in Run, runs[r].at \in Keyed, NEW mode, LearnMode(r, mode)
    PROVE  Learns(r, mode)
  <1>1. "code" \in Rest /\ "finish" \in Rest /\ "stopped" \in Rest
    BY DEF Rest
  <1>2. CASE record[r[1]] = None
    BY <1>1, <1>2, Settles DEF LearnMode, Learns
  <1>3. CASE record[r[1]] # None /\ mode = "first"
    BY <1>1, <1>3, Settles DEF LearnMode, Learns
  <1>4. CASE record[r[1]] # None /\ mode # "first"
    BY <1>1, <1>4, Settles DEF LearnMode, Learns
  <1> QED BY <1>2, <1>3, <1>4

\* The redeem: the probe of the device list, and the code.
LEMMA RedeemMoves ==
    ASSUME SetupTypeOK, RunShape, NEW r \in Run
    PROVE  LET n == runs[r]
               rec == record[r[1]]
           IN  /\ Redeem(r) =>
                     \/ /\ rec # None /\ rec.stage # "keys_created"
                        /\ \/ rec.mode = "first" /\ SettlesOn(r, "finish")
                           \/ SettlesOn(r, "stopped")
                     \/ MovesTo(r, n.life, "listing", n.key, n.tag, n.code, n.mode)
               /\ ServeList(r) =>
                     \E m \in {"first", "recovery", None} :
                        /\ m = "first" => Authorized(n.key) /\ InferRedeemMode(n.key) = "first"
                        /\ MovesTo(r, n.life, "listed", n.key, n.tag, n.code, m)
               /\ TakeList(r) =>
                     \/ n.mode # None /\ Learns(r, n.mode)
                     \/ /\ UNCHANGED record
                        /\ \E c \in Code : MovesTo(r, n.life, "redeeming", n.key, n.tag, c, n.mode)
                     \/ UNCHANGED record /\ SettlesOn(r, "code")
               /\ ServeRedeem(r) =>
                     \E m \in Mode \cup {"refused"} :
                        /\ MovesTo(r, n.life, "redeem_answer", n.key, n.tag, None, m)
                        /\ \/ /\ m = "refused" /\ UNCHANGED <<storeVars, reported>>
                           \/ /\ m = RedeemMode /\ RedeemOwnerCode(n.code, n.key)
                              /\ reported' = [reported EXCEPT ![n.key] = m]
               /\ TakeRedeem(r) =>
                     \/ n.mode # "refused" /\ Learns(r, n.mode)
                     \/ UNCHANGED record /\ SettlesOn(r, "code")
  <1> DEFINE n == runs[r]
             rec == record[r[1]]
  <1>0. /\ {"code", "listing", "listed", "redeeming", "redeem_answer"} \subseteq Keyed
        /\ {"listing", "listed", "redeeming", "redeem_answer"} \subseteq Screen \cup Waiting
        /\ {"code", "finish", "stopped"} \subseteq Rest
    BY DEF Keyed, Waiting, Rest
  <1>1. ASSUME Redeem(r)
        PROVE  \/ /\ rec # None /\ rec.stage # "keys_created"
                  /\ \/ rec.mode = "first" /\ SettlesOn(r, "finish")
                     \/ SettlesOn(r, "stopped")
               \/ MovesTo(r, n.life, "listing", n.key, n.tag, n.code, n.mode)
    <2>1. n.at \in Keyed
      BY <1>0, <1>1 DEF Redeem, Live
    <2>2. \/ /\ rec # None /\ rec.stage # "keys_created"
             /\ \/ rec.mode = "first" /\ Settle(r, "finish")
                \/ Settle(r, "stopped")
          \/ runs' = [runs EXCEPT ![r].at = "listing"]
      BY <1>1 DEF Redeem
    <2>3. CASE runs' = [runs EXCEPT ![r].at = "listing"]
      BY <1>0, <2>3, SetMoves
    <2>4. Settle(r, "finish") => SettlesOn(r, "finish")
      BY <1>0, <2>1, Settles
    <2>5. Settle(r, "stopped") => SettlesOn(r, "stopped")
      BY <1>0, <2>1, Settles
    <2> QED BY <2>2, <2>3, <2>4, <2>5
  <1>2. ASSUME ServeList(r)
        PROVE  \E m \in {"first", "recovery", None} :
                  /\ m = "first" => Authorized(n.key) /\ InferRedeemMode(n.key) = "first"
                  /\ MovesTo(r, n.life, "listed", n.key, n.tag, n.code, m)
    <2> DEFINE m == IF Authorized(n.key) THEN InferRedeemMode(n.key) ELSE None
    <2>1. runs' = [runs EXCEPT ![r].at = "listed", ![r].mode = m]
      BY <1>2 DEF ServeList
    <2>2. m \in {"first", "recovery", None}
      BY DEF InferRedeemMode
    <2>3. m \in Mode \cup {None}
      BY <2>2 DEF Mode
    <2>4. m = "first" => Authorized(n.key) /\ InferRedeemMode(n.key) = "first"
      BY NoneIsNothing DEF Mode
    <2> HIDE DEF m
    <2>5. MovesTo(r, n.life, "listed", n.key, n.tag, n.code, m)
      BY <1>0, <2>1, <2>3, SetMoves
    <2> QED BY <2>2, <2>4, <2>5
  <1>3. ASSUME TakeList(r)
        PROVE  \/ n.mode # None /\ Learns(r, n.mode)
               \/ /\ UNCHANGED record
                  /\ \E c \in Code : MovesTo(r, n.life, "redeeming", n.key, n.tag, c, n.mode)
               \/ UNCHANGED record /\ SettlesOn(r, "code")
    <2>1. n.at \in Keyed
      BY <1>0, <1>3 DEF TakeList
    <2>2. CASE n.mode # None /\ LearnMode(r, n.mode)
      BY <2>1, <2>2, LearnMoves
    <2>3. CASE UNCHANGED record
               /\ \E c \in Code : runs' = [runs EXCEPT ![r].at = "redeeming", ![r].code = c]
      <3>1. PICK c \in Code : runs' = [runs EXCEPT ![r].at = "redeeming", ![r].code = c]
        BY <2>3
      <3>2. MovesTo(r, n.life, "redeeming", n.key, n.tag, c, n.mode)
        BY <1>0, <3>1, SetMoves
      <3> QED BY <2>3, <3>2
    <2>4. CASE UNCHANGED record /\ Settle(r, "code")
      BY <1>0, <2>1, <2>4, Settles
    <2> QED BY <1>3, <2>2, <2>3, <2>4 DEF TakeList
  <1>4. ASSUME ServeRedeem(r)
        PROVE  \E m \in Mode \cup {"refused"} :
                  /\ MovesTo(r, n.life, "redeem_answer", n.key, n.tag, None, m)
                  /\ \/ /\ m = "refused" /\ UNCHANGED <<storeVars, reported>>
                     \/ /\ m = RedeemMode /\ RedeemOwnerCode(n.code, n.key)
                        /\ reported' = [reported EXCEPT ![n.key] = m]
    <2> DEFINE Answer(m) ==
                  runs' = [runs EXCEPT ![r].at = "redeem_answer", ![r].code = None, ![r].mode = m]
    <2>1. ASSUME NEW m \in Mode \cup {"refused"}, Answer(m)
          PROVE  MovesTo(r, n.life, "redeem_answer", n.key, n.tag, None, m)
      BY <1>0, <2>1, SetMoves
    <2>2. \/ /\ RedeemOwnerCode(n.code, n.key) /\ Answer(RedeemMode)
             /\ reported' = [reported EXCEPT ![n.key] = RedeemMode]
          \/ Answer("refused") /\ UNCHANGED <<storeVars, reported>>
      BY <1>4 DEF ServeRedeem
    <2>3. RedeemMode \in Mode
      BY DEF RedeemMode, Mode
    <2> HIDE DEF Answer
    <2> QED BY <2>1, <2>2, <2>3
  <1>5. ASSUME TakeRedeem(r)
        PROVE  \/ n.mode # "refused" /\ Learns(r, n.mode)
               \/ UNCHANGED record /\ SettlesOn(r, "code")
    <2>1. n.at \in Keyed
      BY <1>0, <1>5 DEF TakeRedeem
    <2>2. \/ n.mode # "refused" /\ LearnMode(r, n.mode)
          \/ UNCHANGED record /\ Settle(r, "code")
      BY <1>5 DEF TakeRedeem
    <2> QED BY <1>0, <2>1, <2>2, LearnMoves, Settles
  <1> QED BY <1>1, <1>2, <1>3, <1>4, <1>5

\* What a device asks the relay to grant it: its master, and its stream as a period.
OwnGrants(t) == {<<t, "master">>} \cup {<<s, "period">> : s \in manifest[t].streams}

\* From the master to the granted scopes.
LEMMA MintMoves ==
    ASSUME SetupTypeOK, RunShape, NEW r \in Run
    PROVE  LET n == runs[r]
               rec == record[r[1]]
           IN  /\ Finish(r) =>
                     \/ SettlesOn(r, "code")
                     \/ /\ rec # None /\ rec.mode = "first" /\ rec.stage # "redeemed"
                        /\ SettlesOn(r, "backup")
                     \/ /\ rec # None /\ rec.stage = "redeemed" /\ rec.grant = None
                        /\ MovesTo(r, "live", "mint", n.key, None, n.code, n.mode)
                     \/ /\ rec # None /\ rec.stage = "redeemed" /\ rec.grant \in Scope
                        /\ MovesTo(r, "live", "manifest", n.key, rec.grant, n.code, n.mode)
               /\ \A t \in Scope : Mint(r, t) =>
                     \/ UNCHANGED record /\ SettlesOn(r, "code")
                     \/ /\ rec # None /\ t \in FreshTags
                        /\ record' = [record EXCEPT ![r[1]].grant = t]
                        /\ GoesOn(r, "manifest", t, n.code, n.mode)
               /\ \A t \in Scope : AddStream(r, t) =>
                     MovesTo(r, n.life, "naming", n.key, n.tag, n.code, n.mode)
               /\ AddDevice(r) => GoesOn(r, "granting", n.tag, n.code, n.mode)
               /\ ServeGrant(r) =>
                     \/ /\ GrantScopes(n.key, OwnGrants(n.tag))
                        /\ MovesTo(r, n.life, "grant_answer", n.key, n.tag, n.code, n.mode)
                     \/ UNCHANGED storeVars /\ SettlesOn(r, "stopped")
               /\ TakeGrant(r) =>
                     \/ /\ n.life = "live" /\ rec # None
                        /\ RecordStage(r[1], "scopes_granted", "first")
                        /\ SettlesOn(r, "backup")
                     \/ UNCHANGED record /\ SettlesOn(r, "code")
  <1> DEFINE n == runs[r]
             rec == record[r[1]]
  <1>0. /\ {"finish", "mint", "manifest", "naming", "granting", "grant_answer"} \subseteq Keyed
        /\ {"mint", "manifest", "naming", "granting", "grant_answer"} \subseteq Screen \cup Waiting
        /\ {"code", "backup", "stopped"} \subseteq Rest
    BY DEF Keyed, Screen, Waiting, Rest
  <1>1. ASSUME Finish(r)
        PROVE  \/ SettlesOn(r, "code")
               \/ /\ rec # None /\ rec.mode = "first" /\ rec.stage # "redeemed"
                  /\ SettlesOn(r, "backup")
               \/ /\ rec # None /\ rec.stage = "redeemed" /\ rec.grant = None
                  /\ MovesTo(r, "live", "mint", n.key, None, n.code, n.mode)
               \/ /\ rec # None /\ rec.stage = "redeemed" /\ rec.grant \in Scope
                  /\ MovesTo(r, "live", "manifest", n.key, rec.grant, n.code, n.mode)
    <2>1. n.at \in Keyed /\ n.life = "live"
      BY <1>0, <1>1 DEF Finish, Live
    <2>2. \/ Settle(r, "code")
          \/ /\ rec # None /\ rec.mode = "first" /\ rec.stage # "redeemed"
             /\ Settle(r, "backup")
          \/ /\ rec # None /\ rec.stage = "redeemed"
             /\ runs' = [runs EXCEPT ![r].tag = rec.grant,
                                     ![r].at = IF rec.grant = None THEN "mint" ELSE "manifest"]
      BY <1>1 DEF Finish, StoredGrant
    <2>3. Settle(r, "code") => SettlesOn(r, "code")
      BY <1>0, <2>1, Settles
    <2>4. Settle(r, "backup") => SettlesOn(r, "backup")
      BY <1>0, <2>1, Settles
    <2>5. ASSUME rec # None, runs' = [runs EXCEPT ![r].tag = rec.grant,
                                   ![r].at = IF rec.grant = None THEN "mint" ELSE "manifest"]
          PROVE  \/ rec.grant = None /\ MovesTo(r, "live", "mint", n.key, None, n.code, n.mode)
                 \/ /\ rec.grant \in Scope
                    /\ MovesTo(r, "live", "manifest", n.key, rec.grant, n.code, n.mode)
      <3>1. rec.grant \in Scope \cup {None}
        BY <2>5, RunTypes, RecordTypes
      <3>2. CASE rec.grant = None
        BY <1>0, <2>1, <2>5, <3>1, <3>2, SetMoves
      <3>3. CASE rec.grant # None
        BY <1>0, <2>1, <2>5, <3>1, <3>3, SetMoves
      <3> QED BY <3>2, <3>3
    <2> QED BY <2>2, <2>3, <2>4, <2>5
  <1>2. ASSUME NEW t \in Scope, Mint(r, t)
        PROVE  \/ UNCHANGED record /\ SettlesOn(r, "code")
               \/ /\ rec # None /\ t \in FreshTags
                  /\ record' = [record EXCEPT ![r[1]].grant = t]
                  /\ GoesOn(r, "manifest", t, n.code, n.mode)
    <2>1. n.at \in Keyed
      BY <1>0, <1>2 DEF Mint
    <2>2. CASE UNCHANGED record /\ Settle(r, "code")
      BY <1>0, <2>1, <2>2, Settles
    <2>3. CASE rec # None /\ t \in FreshTags /\ record' = [record EXCEPT ![r[1]].grant = t]
               /\ GoOn(r, [runs[r] EXCEPT !.at = "manifest", !.tag = t])
      BY <1>0, <2>3, GoOnMoves
    <2> QED BY <1>2, <2>2, <2>3 DEF Mint
  <1>3. ASSUME NEW t \in Scope, AddStream(r, t)
        PROVE  MovesTo(r, n.life, "naming", n.key, n.tag, n.code, n.mode)
    <2>1. runs' = [runs EXCEPT ![r].at = "naming"]
      BY <1>3 DEF AddStream
    <2> QED BY <1>0, <2>1, SetMoves
  <1>4. ASSUME AddDevice(r)
        PROVE  GoesOn(r, "granting", n.tag, n.code, n.mode)
    <2>1. GoOn(r, [runs[r] EXCEPT !.at = "granting"])
      BY <1>4 DEF AddDevice
    <2> QED BY <1>0, <2>1, GoOnMoves
  <1>5. ASSUME ServeGrant(r)
        PROVE  \/ /\ GrantScopes(n.key, OwnGrants(n.tag))
                  /\ MovesTo(r, n.life, "grant_answer", n.key, n.tag, n.code, n.mode)
               \/ UNCHANGED storeVars /\ SettlesOn(r, "stopped")
    <2>1. n.at \in Keyed
      BY <1>0, <1>5 DEF ServeGrant
    <2>2. CASE GrantScopes(n.key, OwnGrants(n.tag))
              /\ runs' = [runs EXCEPT ![r].at = "grant_answer"]
      BY <1>0, <2>2, SetMoves
    <2>3. CASE UNCHANGED storeVars /\ Settle(r, "stopped")
      BY <1>0, <2>1, <2>3, Settles
    <2> QED BY <1>5, <2>2, <2>3 DEF ServeGrant, OwnGrants
  <1>6. ASSUME TakeGrant(r)
        PROVE  \/ /\ n.life = "live" /\ rec # None
                  /\ RecordStage(r[1], "scopes_granted", "first")
                  /\ SettlesOn(r, "backup")
               \/ UNCHANGED record /\ SettlesOn(r, "code")
    <2>1. n.at \in Keyed
      BY <1>0, <1>6 DEF TakeGrant
    <2>2. CASE MayWriteStage(r)
      <3>1. /\ n.life = "live" /\ rec # None /\ RecordStage(r[1], "scopes_granted", "first")
            /\ Settle(r, "backup")
        BY <1>6, <2>2 DEF TakeGrant, MayWriteStage
      <3> QED BY <1>0, <2>1, <3>1, Settles
    <2>3. CASE ~MayWriteStage(r)
      <3>1. UNCHANGED record /\ Settle(r, "code")
        BY <1>6, <2>3 DEF TakeGrant
      <3> QED BY <1>0, <2>1, <3>1, Settles
    <2> QED BY <2>2, <2>3
  <1> QED BY <1>1, <1>2, <1>3, <1>4, <1>5, <1>6

\* The wrap that a run puts.
WrapOf(n) == [tag |-> n.tag, code |-> n.code, late |-> n.life = "locked"]

LEMMA WrapFields ==
    ASSUME NEW n, n.tag \in Scope, n.code \in Recovery
    PROVE  /\ WrapOf(n) \in Wrap /\ WrapOf(n) # None
           /\ WrapOf(n).tag = n.tag /\ WrapOf(n).code = n.code
           /\ WrapOf(n).late \/ n.life # "locked"
  <1> DEFINE b == n.life = "locked"
  <1>1. b \in BOOLEAN
    OBVIOUS
  <1>2. WrapOf(n) = [tag |-> n.tag, code |-> n.code, late |-> b]
    BY Zenon DEF WrapOf
  <1>3. b \/ n.life # "locked"
    OBVIOUS
  <1> HIDE DEF b
  <1>4. /\ WrapOf(n) \in Wrap /\ WrapOf(n).late = b
        /\ WrapOf(n).tag = n.tag /\ WrapOf(n).code = n.code
    BY <1>1, <1>2 DEF Wrap
  <1> QED BY <1>3, <1>4, NoneIsNothing

\* The recovery code, and how a run is interrupted or ends.
LEMMA BackupMoves ==
    ASSUME SetupTypeOK, RunShape, NEW r \in Run
    PROVE  LET n == runs[r]
               rec == record[r[1]]
           IN  /\ IssueRecoveryCode(r) =>
                     \/ SettlesOn(r, "code")
                     \/ /\ rec.grant \in Scope
                        /\ \E c \in Recovery :
                              MovesTo(r, "live", "wrapping", n.key, rec.grant, c, n.mode)
               /\ ServeWrap(r) =>
                     \/ wrap' = WrapOf(n)
                        /\ MovesTo(r, n.life, "wrap_answer", n.key, None, n.code, n.mode)
                     \/ wrap' = wrap /\ SettlesOn(r, "code")
               /\ TakeWrap(r) => GoesOn(r, "shown", n.tag, n.code, n.mode)
               /\ ConfirmRecoveryCode(r) => OneMoves(r) /\ runs'[r] = NoRun
               /\ Ambiguous(r) => SettlesOn(r, "code")
               /\ Lock(r) => MovesTo(r, "locked", n.at, n.key, n.tag, n.code, n.mode)
               /\ Close(r) => OneMoves(r) /\ runs'[r] = NoRun
  <1> DEFINE n == runs[r]
             rec == record[r[1]]
  <1>0. /\ {"backup", "shown", "wrapping", "wrap_answer"} \subseteq Keyed
        /\ {"wrapping", "wrap_answer", "shown"} \subseteq Screen \cup Waiting
        /\ Waiting \subseteq Keyed /\ Waiting \cup InFinish \subseteq Screen \cup Waiting
        /\ "code" \in Rest
    BY DEF Keyed, Screen, Waiting, Rest, InFinish
  <1>1. ASSUME IssueRecoveryCode(r)
        PROVE  \/ SettlesOn(r, "code")
               \/ /\ rec.grant \in Scope
                  /\ \E c \in Recovery :
                        MovesTo(r, "live", "wrapping", n.key, rec.grant, c, n.mode)
    <2>1. n.at \in Keyed /\ n.life = "live" /\ rec # None
      BY <1>0, <1>1 DEF IssueRecoveryCode, Live, MayWriteStage
    <2>2. rec.grant \in Scope \cup {None}
      BY <2>1, RunTypes, RecordTypes
    <2>3. CASE rec.grant = None /\ Settle(r, "code")
      BY <1>0, <2>1, <2>3, Settles
    <2>4. ASSUME rec.grant # None, NEW c \in Recovery,
                 runs' = [runs EXCEPT ![r].at = "wrapping", ![r].tag = rec.grant, ![r].code = c]
          PROVE  MovesTo(r, "live", "wrapping", n.key, rec.grant, c, n.mode)
      BY <1>0, <2>1, <2>2, <2>4, SetMoves
    <2> QED BY <1>1, <2>2, <2>3, <2>4 DEF IssueRecoveryCode, FreshRecovery
  <1>2. ASSUME ServeWrap(r)
        PROVE  \/ wrap' = WrapOf(n)
                  /\ MovesTo(r, n.life, "wrap_answer", n.key, None, n.code, n.mode)
               \/ wrap' = wrap /\ SettlesOn(r, "code")
    <2>1. n.at \in Keyed
      BY <1>0, <1>2 DEF ServeWrap
    <2>2. CASE /\ wrap' = WrapOf(n)
               /\ runs' = [runs EXCEPT ![r].at = "wrap_answer", ![r].tag = None]
      BY <1>0, <2>2, SetMoves
    <2>3. CASE Settle(r, "code") /\ UNCHANGED wrap
      BY <1>0, <2>1, <2>3, Settles
    <2>4. CASE Authorized(n.key)
      <3>1. wrap' = WrapOf(n)
        BY <1>2, <2>4, Zenon DEF ServeWrap, WrapOf
      <3>2. runs' = [runs EXCEPT ![r].at = "wrap_answer", ![r].tag = None]
        BY <1>2, <2>4 DEF ServeWrap
      <3> QED BY <2>2, <3>1, <3>2
    <2>5. CASE ~Authorized(n.key)
      BY <1>2, <2>3, <2>5 DEF ServeWrap
    <2> QED BY <2>4, <2>5
  <1>3. ASSUME TakeWrap(r) PROVE GoesOn(r, "shown", n.tag, n.code, n.mode)
    BY <1>0, <1>3, GoOnMoves DEF TakeWrap
  <1>4. ASSUME Ended(r) PROVE OneMoves(r) /\ runs'[r] = NoRun
    BY <1>4, FreeRun, Overwritten DEF Ended
  <1>5. ASSUME Ambiguous(r) PROVE SettlesOn(r, "code")
    BY <1>0, <1>5, Settles DEF Ambiguous, ScreenAfterLoss
  <1>6. ASSUME Lock(r) PROVE MovesTo(r, "locked", n.at, n.key, n.tag, n.code, n.mode)
    <2>1. n.at \in Screen \cup Waiting /\ runs' = [runs EXCEPT ![r].life = "locked"]
      BY <1>0, <1>6 DEF Lock
    <2> QED BY <2>1, SetMoves
  <1> QED BY <1>1, <1>2, <1>3, <1>4, <1>5, <1>6 DEF ConfirmRecoveryCode, Close

\* Where a run may stand with what.
LEMMA ShapeOf ==
    ASSUME NEW r, NEW l \in {"live", "locked"}, NEW a \in Screen \cup Waiting,
           NEW k, NEW t, NEW c, NEW m,
           MovesTo(r, l, a, k, t, c, m),
           l = "locked" => a \in Waiting \cup InFinish,
           a \in Keyed => k \in Device, a \in Tagged => t \in Scope,
           a \in Coded => c \in Recovery,
           a \in {"welcome", "passkey"} => t = None,
           a = "redeeming" => c \in Code,
           a = "listed" => m \in Mode \cup {None},
           a = "redeem_answer" => m \in Mode \cup {"refused"}
    PROVE  OneMoves(r) /\ Shape(runs'[r])
  BY NoneIsNothing DEF Shape, MovesTo

\* A run that settles has its shape.
LEMMA SettledShape ==
    ASSUME SetupTypeOK, RunShape, NEW r \in Run, NEW s \in Rest, SettlesOn(r, s),
           s \in Keyed => runs[r].key \in Device
    PROVE  OneMoves(r) /\ Shape(runs'[r])
  <1>1. CASE runs[r].life = "live"
    <2>1. MovesTo(r, "live", s, runs[r].key, None, None, None)
      BY <1>1 DEF SettlesOn
    <2>2. /\ s \in Screen /\ s \notin Tagged /\ s \notin Coded
          /\ s \notin {"redeeming", "listed", "redeem_answer"}
      BY DEF Rest, Screen, Tagged, Coded
    <2>3. s \in Screen \cup Waiting /\ "live" \in {"live", "locked"}
      BY <2>2
    <2> QED BY <2>1, <2>2, <2>3, ShapeOf
  <1>2. CASE runs[r].life # "live"
    BY <1>2, FreeRun DEF SettlesOn
  <1> QED BY <1>1, <1>2

\* A step moves its run alone, and to where it carries what it must.
LEMMA StepMoves ==
    ASSUME SetupTypeOK, RunShape, NEW r \in Run, Stepping(r)
    PROVE  OneMoves(r) /\ Shape(runs'[r])
  <1> DEFINE n == runs[r]
             Goal == OneMoves(r) /\ Shape(runs'[r])
  <1>0. n \in RunRec /\ Shape(n)
    BY RunTypes DEF RunShape
  <1>a. ASSUME NEW s \in Rest, n.at \in Keyed, SettlesOn(r, s) PROVE Goal
    BY <1>a, KeyedRun, SettledShape
  <1>b. ASSUME n.at \in Keyed PROVE n.life \in {"live", "locked"} /\ n.key \in Device
    BY <1>0, <1>b, KeyedRun DEF RunRec
  <1>c. /\ n.at \in Tagged => n.tag \in Scope
        /\ n.at \in Coded => n.code \in Recovery
        /\ n.life = "locked" => n.at \in Waiting \cup InFinish
    BY <1>0 DEF Shape
  <1>d. /\ "live" \in {"live", "locked"} /\ "locked" \in {"live", "locked"}
        /\ \A s \in {"code", "finish", "backup", "stopped"} : s \in Rest
        /\ Waiting \subseteq Keyed /\ Waiting \subseteq Screen \cup Waiting
        /\ \A s \in {"code", "finish", "mint", "manifest", "naming", "backup", "shown"} :
              s \in Keyed
        /\ \A s \in {"listing", "listed", "redeeming", "redeem_answer", "granting",
                     "grant_answer", "wrapping", "wrap_answer"} :
              s \in Waiting /\ s \in Keyed /\ s \in Screen \cup Waiting
        /\ \A s \in {"mint", "manifest", "naming", "code", "finish", "backup", "welcome",
                     "passkey", "wiping"} :
              s \in Screen \cup Waiting
        /\ \A s \in {"listing", "listed", "redeeming", "redeem_answer", "mint", "wrap_answer",
                     "code", "finish", "backup", "welcome", "passkey", "wiping"} :
              s \notin Tagged
        /\ \A s \in {"welcome", "passkey", "wiping"} : s \notin Keyed
        /\ \A s \in Screen \cup Waiting : s \in Coded <=> s \in {"wrapping", "wrap_answer", "shown"}
        /\ "shown" \in Screen \cup Waiting /\ "shown" \notin Tagged
        /\ InFinish = {"mint", "manifest", "naming"}
    BY DEF Rest, Waiting, Keyed, Screen, Tagged, Coded, InFinish
  <1>f. ASSUME NEW a \in {"manifest", "granting", "shown"}, NEW t, NEW c, NEW m,
               n.at \in Keyed, GoesOn(r, a, t, c, m),
               a \in Tagged => t \in Scope, a \in Coded => c \in Recovery
        PROVE  Goal
    <2>1. CASE MovesTo(r, "live", a, n.key, t, c, m)
      <3>1. a \in Screen \cup Waiting
        BY <1>d
      <3> QED BY <1>b, <1>d, <1>f, <2>1, <3>1, ShapeOf
    <2> QED BY <1>f, <2>1, FreeRun DEF GoesOn
  <1>1. ASSUME ReadDeviceStatus(r) PROVE Goal
    <2>1. \E a \in {"welcome", "wiping", "code", "finish", "backup"}, k \in Device \cup {None} :
             /\ MovesTo(r, "live", a, k, None, None, None)
             /\ a \in {"code", "finish", "backup"} => k \in Device
      BY <1>1, OpenMoves, RunTypes, RecordTypes
    <2>2. PICK a \in {"welcome", "wiping", "code", "finish", "backup"}, k \in Device \cup {None} :
             /\ MovesTo(r, "live", a, k, None, None, None)
             /\ a \in {"code", "finish", "backup"} => k \in Device
      BY <2>1
    <2>3. /\ a \in Screen \cup Waiting /\ a \notin Tagged
          /\ a \in Keyed => a \in {"code", "finish", "backup"}
      BY <1>d
    <2> QED BY <1>d, <2>2, <2>3, ShapeOf
  <1>2. ASSUME Wipe(r) \/ CreatePasskey(r) PROVE Goal
    <2>1. \E a \in {"welcome", "passkey"} : MovesTo(r, "live", a, n.key, None, None, None)
      BY <1>2, SealMoves
    <2> QED BY <1>d, <2>1, ShapeOf
  <1>3. ASSUME NEW d \in Device, SealVault(r, d) PROVE Goal
    <2>1. MovesTo(r, "live", "code", d, n.tag, n.code, n.mode)
      BY <1>3, SealMoves
    <2> QED BY <1>d, <2>1, ShapeOf
  <1>4. ASSUME Redeem(r) PROVE Goal
    <2>1. n.at = "code"
      BY <1>4 DEF Redeem, Live
    <2>2. \/ SettlesOn(r, "finish") \/ SettlesOn(r, "stopped")
          \/ MovesTo(r, n.life, "listing", n.key, n.tag, n.code, n.mode)
      BY <1>4, RedeemMoves
    <2>3. CASE MovesTo(r, n.life, "listing", n.key, n.tag, n.code, n.mode)
      BY <1>b, <1>d, <2>1, <2>3, ShapeOf
    <2> QED BY <1>a, <1>d, <2>1, <2>2, <2>3
  <1>5. ASSUME ServeList(r) PROVE Goal
    <2>1. n.at = "listing"
      BY <1>5 DEF ServeList
    <2>2. PICK m \in {"first", "recovery", None} :
             MovesTo(r, n.life, "listed", n.key, n.tag, n.code, m)
      BY <1>5, RedeemMoves
    <2>3. m \in Mode \cup {None}
      BY DEF Mode
    <2> QED BY <1>b, <1>d, <2>1, <2>2, <2>3, ShapeOf
  <1>e. ASSUME NEW m, Learns(r, m), n.at \in Keyed PROVE Goal
    <2>1. SettlesOn(r, "code") \/ SettlesOn(r, "finish") \/ SettlesOn(r, "stopped")
      BY <1>e DEF Learns
    <2> QED BY <1>a, <1>d, <1>e, <2>1
  <1>6. ASSUME TakeList(r) PROVE Goal
    <2>1. n.at = "listed"
      BY <1>6 DEF TakeList
    <2>2. \/ Learns(r, n.mode) \/ SettlesOn(r, "code")
          \/ \E c \in Code : MovesTo(r, n.life, "redeeming", n.key, n.tag, c, n.mode)
      BY <1>6, RedeemMoves
    <2>3. ASSUME NEW c \in Code, MovesTo(r, n.life, "redeeming", n.key, n.tag, c, n.mode)
          PROVE  Goal
      BY <1>b, <1>d, <2>1, <2>3, ShapeOf
    <2>4. n.at \in Keyed
      BY <1>d, <2>1
    <2> QED BY <1>a, <1>d, <1>e, <2>2, <2>3, <2>4
  <1>7. ASSUME ServeRedeem(r) PROVE Goal
    <2>1. n.at = "redeeming"
      BY <1>7 DEF ServeRedeem
    <2>2. PICK m \in Mode \cup {"refused"} :
             MovesTo(r, n.life, "redeem_answer", n.key, n.tag, None, m)
      BY <1>7, RedeemMoves
    <2> QED BY <1>b, <1>d, <2>1, <2>2, ShapeOf
  <1>8. ASSUME TakeRedeem(r) PROVE Goal
    <2>1. n.at = "redeem_answer"
      BY <1>8 DEF TakeRedeem
    <2>2. Learns(r, n.mode) \/ SettlesOn(r, "code")
      BY <1>8, RedeemMoves
    <2>3. n.at \in Keyed
      BY <1>d, <2>1
    <2> QED BY <1>a, <1>d, <1>e, <2>2, <2>3
  <1>9. ASSUME Finish(r) PROVE Goal
    <2>1. n.at = "finish"
      BY <1>9 DEF Finish, Live
    <2>2. \/ SettlesOn(r, "code") \/ SettlesOn(r, "backup")
          \/ MovesTo(r, "live", "mint", n.key, None, n.code, n.mode)
          \/ \E t \in Scope : MovesTo(r, "live", "manifest", n.key, t, n.code, n.mode)
      BY <1>9, MintMoves
    <2>3. CASE MovesTo(r, "live", "mint", n.key, None, n.code, n.mode)
      BY <1>b, <1>d, <2>1, <2>3, ShapeOf
    <2>4. ASSUME NEW t \in Scope, MovesTo(r, "live", "manifest", n.key, t, n.code, n.mode)
          PROVE  Goal
      BY <1>b, <1>d, <2>1, <2>4, ShapeOf
    <2>5. n.at \in Keyed
      BY <1>d, <2>1
    <2> QED BY <1>a, <1>d, <2>2, <2>3, <2>4, <2>5
  <1>10. ASSUME NEW t \in Scope, Mint(r, t) PROVE Goal
    <2>1. n.at = "mint"
      BY <1>10 DEF Mint
    <2>2. SettlesOn(r, "code") \/ GoesOn(r, "manifest", t, n.code, n.mode)
      BY <1>10, MintMoves
    <2>3. n.at \in Keyed /\ "manifest" \notin Coded
      BY <1>d, <2>1
    <2> QED BY <1>a, <1>d, <1>f, <2>2, <2>3
  <1>11. ASSUME NEW t \in Scope, AddStream(r, t) PROVE Goal
    <2>1. n.at = "manifest" /\ n.at \in Tagged
      BY <1>11 DEF AddStream, Tagged
    <2>2. MovesTo(r, n.life, "naming", n.key, n.tag, n.code, n.mode)
      BY <1>11, MintMoves
    <2> QED BY <1>b, <1>c, <1>d, <2>1, <2>2, ShapeOf
  <1>12. ASSUME AddDevice(r) PROVE Goal
    <2>1. n.at \in {"manifest", "naming"} /\ n.at \in Tagged
      BY <1>12 DEF AddDevice, Tagged
    <2>2. GoesOn(r, "granting", n.tag, n.code, n.mode)
      BY <1>12, MintMoves
    <2>3. n.at \in Keyed /\ "granting" \notin Coded
      BY <1>d, <2>1
    <2> QED BY <1>c, <1>f, <2>1, <2>2, <2>3
  <1>13. ASSUME ServeGrant(r) PROVE Goal
    <2>1. n.at = "granting" /\ n.at \in Tagged
      BY <1>13 DEF ServeGrant, Tagged
    <2>2. \/ MovesTo(r, n.life, "grant_answer", n.key, n.tag, n.code, n.mode)
          \/ SettlesOn(r, "stopped")
      BY <1>13, MintMoves
    <2>3. CASE MovesTo(r, n.life, "grant_answer", n.key, n.tag, n.code, n.mode)
      BY <1>b, <1>c, <1>d, <2>1, <2>3, ShapeOf
    <2>4. n.at \in Keyed
      BY <1>d, <2>1
    <2> QED BY <1>a, <1>d, <2>2, <2>3, <2>4
  <1>14. ASSUME TakeGrant(r) PROVE Goal
    <2>1. n.at \in Keyed
      BY <1>14, <1>d DEF TakeGrant
    <2>2. SettlesOn(r, "backup") \/ SettlesOn(r, "code")
      BY <1>14, MintMoves
    <2> QED BY <1>a, <1>d, <2>1, <2>2
  <1>15. ASSUME IssueRecoveryCode(r) PROVE Goal
    <2>1. n.at \in Keyed
      BY <1>15, <1>d DEF IssueRecoveryCode, Live
    <2>2. \/ SettlesOn(r, "code")
          \/ \E t \in Scope, c \in Recovery :
                MovesTo(r, "live", "wrapping", n.key, t, c, n.mode)
      BY <1>15, BackupMoves
    <2>3. ASSUME NEW t \in Scope, NEW c \in Recovery,
                 MovesTo(r, "live", "wrapping", n.key, t, c, n.mode)
          PROVE  Goal
      BY <1>b, <1>d, <2>1, <2>3, ShapeOf
    <2> QED BY <1>a, <1>d, <2>1, <2>2, <2>3
  <1>16. ASSUME ServeWrap(r) PROVE Goal
    <2>1. n.at \in Keyed
      BY <1>16, <1>d DEF ServeWrap
    <2>2. \/ MovesTo(r, n.life, "wrap_answer", n.key, None, n.code, n.mode)
          \/ SettlesOn(r, "code")
      BY <1>16, BackupMoves
    <2>3. CASE MovesTo(r, n.life, "wrap_answer", n.key, None, n.code, n.mode)
      <3>1. n.code \in Recovery
        BY <1>16, <1>c DEF ServeWrap, Coded
      <3> QED BY <1>b, <1>d, <2>1, <2>3, <3>1, ShapeOf
    <2> QED BY <1>a, <1>d, <2>1, <2>2, <2>3
  <1>17. ASSUME TakeWrap(r) \/ Ambiguous(r) PROVE Goal
    <2>1. n.at \in Keyed /\ (TakeWrap(r) => n.code \in Recovery)
      BY <1>17, <1>c, <1>d DEF TakeWrap, Ambiguous, Coded
    <2>2. \/ TakeWrap(r) /\ GoesOn(r, "shown", n.tag, n.code, n.mode)
          \/ SettlesOn(r, "code")
      BY <1>17, BackupMoves
    <2> QED BY <1>a, <1>d, <1>f, <2>1, <2>2
  <1>18. ASSUME Lock(r) PROVE Goal
    <2>1. n.at \in Waiting \cup InFinish /\ n.at \in Keyed
      BY <1>18, <1>d DEF Lock
    <2>2. MovesTo(r, "locked", n.at, n.key, n.tag, n.code, n.mode)
      BY <1>18, BackupMoves
    <2>3. /\ n.at = "redeeming" => n.code \in Code
          /\ n.at = "listed" => n.mode \in Mode \cup {None}
          /\ n.at = "redeem_answer" => n.mode \in Mode \cup {"refused"}
      BY <1>0 DEF Shape
    <2>4. n.key \in Device /\ n.at \in Screen \cup Waiting /\ n.at \notin {"welcome", "passkey"}
      BY <1>b, <1>d, <2>1
    <2> QED BY <1>c, <1>d, <2>1, <2>2, <2>3, <2>4, ShapeOf
  <1>19. ASSUME ConfirmRecoveryCode(r) \/ Close(r) PROVE Goal
    BY <1>19, BackupMoves, FreeRun
  <1> QED
    BY <1>1, <1>2, <1>3, <1>4, <1>5, <1>6, <1>7, <1>8, <1>9, <1>10, <1>11, <1>12, <1>13, <1>14,
       <1>15, <1>16, <1>17, <1>18, <1>19 DEF Stepping

-----------------------------------------------------------------------------
(* Types, shapes and the store *)

\* A step calls the store as its routes may, or leaves it alone.
LEMMA StoreSteps ==
    ASSUME SetupTypeOK, RunShape, [SetupNext]_vars
    PROVE  [StoreNext]_storeVars
  <1>1. ASSUME NEW r \in Run, ServeRedeem(r) PROVE [StoreNext]_storeVars
    <2>1. runs[r].code \in Code /\ runs[r].key \in Device
      BY <1>1, KeyedRun DEF ServeRedeem, RunShape, Shape, Keyed, Waiting
    <2> QED BY <1>1, <2>1 DEF ServeRedeem, StoreNext
  <1>2. ASSUME NEW r \in Run, ServeGrant(r) PROVE [StoreNext]_storeVars
    <2> DEFINE grants == {<<runs[r].tag, "master">>}
                            \cup {<<s, "period">> : s \in manifest[runs[r].tag].streams}
    <2>1. runs[r].tag \in Scope /\ runs[r].key \in Device
      BY <1>2, KeyedRun DEF ServeGrant, RunShape, Shape, Keyed, Waiting, Tagged
    <2>2. grants \in SUBSET (Scope \X Kind)
      <3>1. manifest[runs[r].tag].streams \subseteq Scope
        BY <2>1 DEF SetupTypeOK
      <3> QED BY <2>1, <3>1 DEF Kind
    <2>3. GrantScopes(runs[r].key, grants) \/ UNCHANGED storeVars
      BY <1>2 DEF ServeGrant
    <2> HIDE DEF grants
    <2> QED BY <2>1, <2>2, <2>3 DEF StoreNext
  <1>3. ASSUME NEW r \in Run, Stepping(r), ~ServeRedeem(r), ~ServeGrant(r)
        PROVE  UNCHANGED storeVars
    BY <1>3 DEF Stepping, ReadDeviceStatus, Wipe, CreatePasskey, SealVault, Redeem, ServeList,
       TakeList, TakeRedeem, Finish, TakeGrant, Mint, AddStream, AddDevice, IssueRecoveryCode,
       ServeWrap, TakeWrap, ConfirmRecoveryCode, Ambiguous, Lock, Close
  <1>4. ASSUME Elsewhere PROVE [StoreNext]_storeVars
    BY <1>4 DEF Elsewhere, StoreNext
  <1>5. UNCHANGED vars => UNCHANGED storeVars
    BY DEF vars
  <1> QED BY <1>1, <1>2, <1>3, <1>4, <1>5, StepCases

\* How a step moves the device record of its profile: it wipes it, seals a new one,
\* sets the stage, or stores a minted master.
Wipes(r) == Wipe(r) /\ record' = [record EXCEPT ![r[1]] = None]

Seals(r) ==
    \E d \in Device :
       /\ SealVault(r, d)
       /\ record' = [record EXCEPT ![r[1]] =
             [key |-> d, stage |-> "keys_created", mode |-> None, at |-> now, grant |-> None]]

Restages(r) ==
    /\ record[r[1]] # None
    /\ \E s \in Stage, m \in Mode : /\ RecordStage(r[1], s, m)
                                    /\ s = "redeemed" \/ runs[r].life = "live"

Mints(r) ==
    /\ record[r[1]] # None
    /\ \E t \in Scope : /\ Mint(r, t) /\ t \in FreshTags
                        /\ record' = [record EXCEPT ![r[1]].grant = t]

\* What a step does to the device records.
LEMMA RecordSteps ==
    ASSUME SetupTypeOK, RunShape, NEW r \in Run, Stepping(r)
    PROVE  UNCHANGED record \/ Wipes(r) \/ Seals(r) \/ Restages(r) \/ Mints(r)
  <1>1. ASSUME NEW m \in Mode, Learns(r, m) PROVE UNCHANGED record \/ Restages(r)
    BY <1>1 DEF Learns, Stage, Restages
  <1>2. ASSUME TakeList(r) PROVE UNCHANGED record \/ Restages(r)
    <2>1. runs[r].mode \in Mode \cup {None}
      BY <1>2 DEF TakeList, RunShape, Shape
    <2> QED BY <1>1, <1>2, <2>1, RedeemMoves
  <1>3. ASSUME TakeRedeem(r) PROVE UNCHANGED record \/ Restages(r)
    <2>1. runs[r].mode \in Mode \cup {"refused"}
      BY <1>3 DEF TakeRedeem, RunShape, Shape
    <2> QED BY <1>1, <1>3, <2>1, RedeemMoves
  <1>4. ASSUME TakeGrant(r) \/ IssueRecoveryCode(r) \/ ConfirmRecoveryCode(r)
        PROVE  UNCHANGED record \/ Restages(r)
    BY <1>4
       DEF TakeGrant, IssueRecoveryCode, ConfirmRecoveryCode, MayWriteStage, Stage, Mode, Restages
  <1>5. ASSUME NEW t \in Scope, Mint(r, t) PROVE UNCHANGED record \/ Mints(r)
    BY <1>5 DEF Mint, Mints
  <1>6. ASSUME NEW d \in Device, SealVault(r, d) PROVE Seals(r)
    BY <1>6 DEF SealVault, Seals
  <1>7. ASSUME Wipe(r) PROVE Wipes(r)
    BY <1>7 DEF Wipe, Wipes
  <1>8. ASSUME \/ ReadDeviceStatus(r) \/ CreatePasskey(r) \/ Redeem(r) \/ ServeList(r)
               \/ ServeRedeem(r) \/ Finish(r) \/ ServeGrant(r) \/ AddDevice(r)
               \/ ServeWrap(r) \/ TakeWrap(r) \/ Ambiguous(r) \/ Lock(r) \/ Close(r)
               \/ \E t \in Scope : AddStream(r, t)
        PROVE  UNCHANGED record
    BY <1>8 DEF ReadDeviceStatus, CreatePasskey, Redeem, ServeList, ServeRedeem, Finish,
       ServeGrant, AddDevice, ServeWrap, TakeWrap, Ambiguous, Lock, Close, AddStream
  <1> QED BY <1>1, <1>2, <1>3, <1>4, <1>5, <1>6, <1>7, <1>8 DEF Stepping

\* The record with a stage.
LEMMA Restaged ==
    ASSUME SetupTypeOK, NEW p \in Profile, record[p] # None, NEW s \in Stage, NEW m \in Mode,
           RecordStage(p, s, m)
    PROVE  /\ record'[p] \in Record /\ record'[p] # None
           /\ record' = [record EXCEPT ![p] = record'[p]]
           /\ record'[p].key = record[p].key /\ record'[p].grant = record[p].grant
           /\ record'[p].stage = s /\ record'[p].mode = m
  <1> DEFINE e == [record[p] EXCEPT !.stage = s, !.mode = m, !.at = now]
  <1>1. record \in [Profile -> Record \cup {None}] /\ record[p] \in Record /\ now \in Nat
    BY RecordTypes DEF SetupTypeOK, StoreTypeOK
  <1>2. record' = [record EXCEPT ![p] = e]
    BY <1>1 DEF RecordStage
  <1>3. /\ e \in Record /\ e.stage = s /\ e.mode = m
        /\ e.key = record[p].key /\ e.grant = record[p].grant
    BY <1>1 DEF Record
  <1> HIDE DEF e
  <1>4. record'[p] = e
    BY <1>1, <1>2
  <1> QED BY <1>2, <1>3, <1>4, NoneIsNothing

\* The record with a master.
LEMMA Regranted ==
    ASSUME SetupTypeOK, NEW p \in Profile, record[p] # None, NEW t \in Scope,
           record' = [record EXCEPT ![p].grant = t]
    PROVE  /\ record'[p] \in Record /\ record'[p] # None
           /\ record' = [record EXCEPT ![p] = record'[p]]
           /\ record'[p].key = record[p].key /\ record'[p].grant = t
           /\ record'[p].stage = record[p].stage /\ record'[p].mode = record[p].mode
  <1> DEFINE e == [record[p] EXCEPT !.grant = t]
  <1>1. record \in [Profile -> Record \cup {None}] /\ record[p] \in Record
    BY RecordTypes DEF SetupTypeOK
  <1>2. record' = [record EXCEPT ![p] = e]
    BY <1>1
  <1>3. /\ e \in Record /\ e.grant = t
        /\ e.key = record[p].key /\ e.stage = record[p].stage /\ e.mode = record[p].mode
    BY <1>1 DEF Record
  <1> HIDE DEF e
  <1>4. record'[p] = e
    BY <1>1, <1>2
  <1> QED BY <1>2, <1>3, <1>4, NoneIsNothing

\* A step leaves device records where records were, and touches its profile's alone.
LEMMA RecordStep ==
    ASSUME SetupTypeOK, RunShape, NEW r \in Run, Stepping(r)
    PROVE  /\ record' \in [Profile -> Record \cup {None}]
           /\ \A p \in Profile : p # r[1] => record'[p] = record[p]
  <1> DEFINE p == r[1]
  <1>0. record \in [Profile -> Record \cup {None}] /\ p \in Profile /\ now \in Nat
    BY RunTypes DEF SetupTypeOK, StoreTypeOK
  <1>1. CASE UNCHANGED record
    BY <1>0, <1>1
  <1>2. CASE Wipes(r)
    BY <1>0, <1>2 DEF Wipes
  <1>3. CASE Seals(r)
    <2>1. PICK d \in Device : record' = [record EXCEPT ![p] =
             [key |-> d, stage |-> "keys_created", mode |-> None, at |-> now, grant |-> None]]
      BY <1>3 DEF Seals
    <2>2. [key |-> d, stage |-> "keys_created", mode |-> None, at |-> now, grant |-> None]
              \in Record
      BY <1>0 DEF Record, Stage
    <2> QED BY <1>0, <2>1, <2>2
  <1>4. CASE Restages(r)
    <2>1. PICK s \in Stage, m \in Mode : RecordStage(p, s, m)
      BY <1>4 DEF Restages
    <2> QED BY <1>0, <1>4, <2>1, Restaged DEF Restages
  <1>5. CASE Mints(r)
    <2>1. PICK t \in Scope : record' = [record EXCEPT ![p].grant = t]
      BY <1>5 DEF Mints
    <2> QED BY <1>0, <1>5, <2>1, Regranted DEF Mints
  <1> QED BY <1>1, <1>2, <1>3, <1>4, <1>5, RecordSteps

\* What a step does to the manifests.
LEMMA ManifestStep ==
    ASSUME SetupTypeOK, RunShape, NEW r \in Run, Stepping(r)
    PROVE  \/ UNCHANGED manifest
           \/ /\ runs[r].at \in {"manifest", "naming"} /\ runs[r].tag \in Scope
              /\ \/ \E s \in Scope : AddStream(r, s)
                 \/ AddDevice(r)
  <1>1. ASSUME NEW s \in Scope, AddStream(r, s)
        PROVE  runs[r].at = "manifest" /\ runs[r].tag \in Scope
    BY <1>1 DEF AddStream, Live, RunShape, Shape, Tagged
  <1>2. ASSUME AddDevice(r)
        PROVE  runs[r].at \in {"manifest", "naming"} /\ runs[r].tag \in Scope
    BY <1>2 DEF AddDevice, Live, RunShape, Shape, Tagged
  <1>3. ASSUME Stepping(r), ~AddDevice(r), \A s \in Scope : ~AddStream(r, s)
        PROVE  UNCHANGED manifest
    BY <1>3 DEF Stepping, ReadDeviceStatus, Wipe, CreatePasskey, SealVault, Redeem, ServeList,
       TakeList, ServeRedeem, TakeRedeem, Finish, ServeGrant, TakeGrant, Mint, IssueRecoveryCode,
       ServeWrap, TakeWrap, ConfirmRecoveryCode, Ambiguous, Lock, Close
  <1> QED BY <1>1, <1>2, <1>3

\* What the two writes make of the master's manifest.
LEMMA ManifestWrites ==
    ASSUME SetupTypeOK, RunShape, NEW r \in Run, runs[r].tag \in Scope
    PROVE  LET t == runs[r].tag
           IN  /\ \A s \in Scope : AddStream(r, s) =>
                     /\ manifest' = [manifest EXCEPT ![t] = manifest'[t]]
                     /\ manifest'[t].streams = manifest[t].streams \cup {s}
                     /\ manifest'[t].devices = manifest[t].devices
                     /\ manifest'[t] \in [streams : SUBSET Scope, devices : SUBSET Device]
               /\ AddDevice(r) =>
                     /\ manifest' = [manifest EXCEPT ![t] = manifest'[t]]
                     /\ manifest'[t].streams = manifest[t].streams
                     /\ manifest'[t].devices = manifest[t].devices \cup {runs[r].key}
                     /\ manifest'[t] \in [streams : SUBSET Scope, devices : SUBSET Device]
  <1> DEFINE t == runs[r].tag
             Man == [streams : SUBSET Scope, devices : SUBSET Device]
  <1>0. manifest \in [Scope -> Man] /\ manifest[t] \in Man
    BY DEF SetupTypeOK
  <1>1. ASSUME NEW s \in Scope, AddStream(r, s)
        PROVE  /\ manifest' = [manifest EXCEPT ![t] = manifest'[t]]
               /\ manifest'[t].streams = manifest[t].streams \cup {s}
               /\ manifest'[t].devices = manifest[t].devices
               /\ manifest'[t] \in Man
    <2> DEFINE e == [manifest[t] EXCEPT !.streams = manifest[t].streams \cup {s}]
    <2>1. manifest' = [manifest EXCEPT ![t] = e]
      BY <1>0, <1>1 DEF AddStream
    <2>2. /\ e \in Man /\ e.streams = manifest[t].streams \cup {s}
          /\ e.devices = manifest[t].devices
      BY <1>0
    <2> HIDE DEF e
    <2>3. manifest'[t] = e
      BY <1>0, <2>1
    <2> QED BY <2>1, <2>2, <2>3
  <1>2. ASSUME AddDevice(r)
        PROVE  /\ manifest' = [manifest EXCEPT ![t] = manifest'[t]]
               /\ manifest'[t].streams = manifest[t].streams
               /\ manifest'[t].devices = manifest[t].devices \cup {runs[r].key}
               /\ manifest'[t] \in Man
    <2> DEFINE e == [manifest[t] EXCEPT !.devices = manifest[t].devices \cup {runs[r].key}]
    <2>1. manifest' = [manifest EXCEPT ![t] = e]
      BY <1>0, <1>2 DEF AddDevice
    <2>0. runs[r].key \in Device
      BY <1>2, KeyedRun DEF AddDevice, Live, Keyed
    <2>2. /\ e \in Man /\ e.streams = manifest[t].streams
          /\ e.devices = manifest[t].devices \cup {runs[r].key}
      BY <1>0, <2>0
    <2> HIDE DEF e
    <2>3. manifest'[t] = e
      BY <1>0, <2>1
    <2> QED BY <2>1, <2>2, <2>3
  <1> QED BY <1>1, <1>2

\* A code is confirmed by one step only.
LEMMA PaperCalls ==
    ASSUME NEW r \in Run, Stepping(r)
    PROVE  ConfirmRecoveryCode(r) \/ UNCHANGED paper
  BY DEF Stepping, ReadDeviceStatus, Wipe, CreatePasskey, SealVault, Redeem, ServeList,
     TakeList, ServeRedeem, TakeRedeem, Finish, ServeGrant, TakeGrant, Mint, AddStream,
     AddDevice, IssueRecoveryCode, ServeWrap, TakeWrap, Ambiguous, Lock, Close

\* What runs have done side by side is not forgotten.
LEMMA CrossSteps ==
    ASSUME NEW r \in Run, Stepping(r)
    PROVE  /\ crossed \subseteq crossed'
           /\ crossed' \subseteq crossed \cup {"open", "finish", "wipe"}
  <1>1. ReadDeviceStatus(r) \/ Wipe(r) \/ Finish(r) \/ UNCHANGED crossed
    BY DEF Stepping, CreatePasskey, SealVault, Redeem, ServeList, TakeList, ServeRedeem,
       TakeRedeem, ServeGrant, TakeGrant, Mint, AddStream, AddDevice, IssueRecoveryCode,
       ServeWrap, TakeWrap, ConfirmRecoveryCode, Ambiguous, Lock, Close
  <1>2. \A act \in {"open", "finish", "wipe"}, b \in BOOLEAN :
           Cross(act, b) => /\ crossed \subseteq crossed'
                            /\ crossed' \subseteq crossed \cup {"open", "finish", "wipe"}
    BY DEF Cross
  <1>3. ReadDeviceStatus(r) =>
           \E b \in BOOLEAN : Cross("open", b)
    BY DEF ReadDeviceStatus
  <1>4. Wipe(r) => \E b \in BOOLEAN : Cross("wipe", b)
    BY DEF Wipe
  <1>5. Finish(r) => \E b \in BOOLEAN : Cross("finish", b)
    BY DEF Finish
  <1> QED BY <1>1, <1>2, <1>3, <1>4, <1>5

\* Every run keeps its shape, and every variable its type.
LEMMA TypesStep ==
    ASSUME SetupTypeOK, RunShape, [SetupNext]_vars
    PROVE  SetupTypeOK' /\ RunShape'
  <1>1. StoreTypeOK'
    BY StoreSteps, NextType DEF SetupTypeOK
  <1>2. ASSUME NEW r \in Run, Stepping(r)
        PROVE  /\ record' \in [Profile -> Record \cup {None}]
               /\ runs' \in [Run -> RunRec] /\ RunShape'
    <2>1. runs \in [Run -> RunRec]
      BY RunTypes
    <2>2. OneMoves(r) /\ Shape(runs'[r])
      BY <1>2, StepMoves
    <2>3. runs' \in [Run -> RunRec] /\ \A q \in Run : q # r => runs'[q] = runs[q]
      BY <2>1, <2>2 DEF OneMoves
    <2>4. ASSUME NEW q \in Run PROVE Shape(runs'[q])
      <3>1. Shape(runs[q])
        BY DEF RunShape
      <3> QED BY <2>2, <2>3, <3>1
    <2>5. RunShape'
      BY <2>4 DEF RunShape, Shape, NoRun
    <2> QED BY <1>2, <2>3, <2>5, RecordStep
  <1>3. ASSUME NEW r \in Run, Stepping(r)
        PROVE  manifest' \in [Scope -> [streams : SUBSET Scope, devices : SUBSET Device]]
    <2>1. manifest \in [Scope -> [streams : SUBSET Scope, devices : SUBSET Device]]
      BY DEF SetupTypeOK
    <2> QED BY <1>3, <2>1, ManifestStep, ManifestWrites
  <1>4. ASSUME NEW r \in Run, Stepping(r)
        PROVE  holder' \in [Profile -> Slot \cup {None}]
    <2>1. holder \in [Profile -> Slot \cup {None}] /\ r[1] \in Profile /\ r[2] \in Slot
      BY RunTypes DEF SetupTypeOK
    <2>2. Ended(r) => holder' \in [Profile -> Slot \cup {None}]
      BY <2>1 DEF Ended
    <2>3. CreatePasskey(r) \/ Lock(r) => holder' \in [Profile -> Slot \cup {None}]
      BY <2>1 DEF CreatePasskey, Lock
    <2>4. \/ UNCHANGED holder \/ Ended(r) \/ CreatePasskey(r) \/ Lock(r)
      BY <1>4 DEF Stepping, ReadDeviceStatus, Wipe, SealVault, Redeem, ServeList, TakeList,
         ServeRedeem, TakeRedeem, Finish, ServeGrant, TakeGrant, Mint, AddStream, AddDevice,
         IssueRecoveryCode, ServeWrap, TakeWrap, ConfirmRecoveryCode, Ambiguous, Close
    <2> QED BY <2>1, <2>2, <2>3, <2>4
  <1>5. ASSUME NEW r \in Run, Stepping(r)
        PROVE  wrap' \in Wrap \cup {None}
    <2>1. wrap \in Wrap \cup {None}
      BY DEF SetupTypeOK
    <2>2. ServeWrap(r) => wrap' = wrap \/ wrap' \in Wrap
      <3>1. ServeWrap(r) => runs[r].tag \in Scope /\ runs[r].code \in Recovery
        BY DEF ServeWrap, RunShape, Shape, Tagged, Coded
      <3> QED BY <3>1, BackupMoves, WrapFields
    <2>3. UNCHANGED wrap \/ ServeWrap(r)
      BY <1>5 DEF Stepping, ReadDeviceStatus, Wipe, CreatePasskey, SealVault, Redeem, ServeList,
         TakeList, ServeRedeem, TakeRedeem, Finish, ServeGrant, TakeGrant, Mint, AddStream,
         AddDevice, IssueRecoveryCode, TakeWrap, ConfirmRecoveryCode, Ambiguous, Lock, Close
    <2> QED BY <2>1, <2>2, <2>3
  <1>6. ASSUME NEW r \in Run, Stepping(r)
        PROVE  reported' \in [Device -> Mode \cup {None}]
    <2>1. reported \in [Device -> Mode \cup {None}]
      BY DEF SetupTypeOK
    <2>2. UNCHANGED reported \/ ServeRedeem(r)
      BY <1>6 DEF Stepping, ReadDeviceStatus, Wipe, CreatePasskey, SealVault, Redeem, ServeList,
         TakeList, TakeRedeem, Finish, ServeGrant, TakeGrant, Mint, AddStream, AddDevice,
         IssueRecoveryCode, ServeWrap, TakeWrap, ConfirmRecoveryCode, Ambiguous, Lock, Close
    <2>3. RedeemMode \in Mode
      BY DEF RedeemMode, Mode
    <2> QED BY <2>1, <2>2, <2>3 DEF ServeRedeem
  <1>7. ASSUME NEW r \in Run, Stepping(r)
        PROVE  faults' \in 0 .. MaxFaults
    <2>1. faults \in 0 .. MaxFaults
      BY DEF SetupTypeOK
    <2>2. UNCHANGED faults \/ Ambiguous(r)
      BY <1>7 DEF Stepping, ReadDeviceStatus, Wipe, CreatePasskey, SealVault, Redeem, ServeList,
         TakeList, ServeRedeem, TakeRedeem, Finish, ServeGrant, TakeGrant, Mint, AddStream,
         AddDevice, IssueRecoveryCode, ServeWrap, TakeWrap, ConfirmRecoveryCode, Lock, Close
    <2>3. Ambiguous(r) => faults' \in 0 .. MaxFaults
      BY <2>1, SetupAssumption DEF Ambiguous
    <2> QED BY <2>1, <2>2, <2>3
  <1>a. ASSUME NEW r \in Run, Stepping(r)
        PROVE  paper' \in [Profile -> Recovery \cup {None}]
    <2>1. paper \in [Profile -> Recovery \cup {None}]
      BY DEF SetupTypeOK
    <2>2. UNCHANGED paper \/ ConfirmRecoveryCode(r)
      BY <1>a, PaperCalls
    <2>3. ConfirmRecoveryCode(r) => runs[r].code \in Recovery
      BY DEF ConfirmRecoveryCode, Live, RunShape, Shape, Coded
    <2> QED BY <2>1, <2>2, <2>3 DEF ConfirmRecoveryCode
  <1>b. ASSUME NEW r \in Run, Stepping(r)
        PROVE  crossed' \subseteq {"open", "finish", "wipe"}
    BY <1>b, CrossSteps DEF SetupTypeOK
  <1>8. ASSUME NEW r \in Run, Stepping(r) PROVE SetupTypeOK' /\ RunShape'
    <2>1. /\ record' \in [Profile -> Record \cup {None}]
          /\ runs' \in [Run -> RunRec] /\ RunShape'
      BY <1>2, <1>8
    <2>2. manifest' \in [Scope -> [streams : SUBSET Scope, devices : SUBSET Device]]
      BY <1>3, <1>8
    <2>3. holder' \in [Profile -> Slot \cup {None}] /\ wrap' \in Wrap \cup {None}
      BY <1>4, <1>5, <1>8
    <2>4. reported' \in [Device -> Mode \cup {None}] /\ faults' \in 0 .. MaxFaults
      BY <1>6, <1>7, <1>8
    <2>5. /\ paper' \in [Profile -> Recovery \cup {None}]
          /\ crossed' \subseteq {"open", "finish", "wipe"}
      BY <1>a, <1>b, <1>8
    <2> QED BY <1>1, <2>1, <2>2, <2>3, <2>4, <2>5 DEF SetupTypeOK, RunRec
  <1>9. ASSUME UNCHANGED setupVars PROVE SetupTypeOK' /\ RunShape'
    BY <1>1, <1>9 DEF setupVars, SetupTypeOK, RunShape, Shape, NoRun
  <1>10. UNCHANGED vars => UNCHANGED setupVars
    BY DEF vars
  <1> QED BY <1>8, <1>9, <1>10, StepCases DEF Elsewhere

\* Before anything happened.
LEMMA TypesInit == SetupInit => SetupTypeOK /\ RunShape
  <1> SUFFICES ASSUME SetupInit PROVE SetupTypeOK /\ RunShape
    OBVIOUS
  <1>1. StoreTypeOK
    BY InitType DEF SetupInit
  <1>2. runs \in [Run -> RunRec] /\ RunShape
    BY FreeRun DEF SetupInit, RunShape
  <1> QED BY <1>1, <1>2, SetupAssumption DEF SetupInit, SetupTypeOK, RunRec

\* The store's invariant holds beside the runs.
LEMMA BaseStep == BaseInv /\ [SetupNext]_vars => BaseInv'
  BY TypesStep, StoreSteps, NextInv DEF BaseInv

LEMMA BaseInit == SetupInit => BaseInv
  BY TypesInit, InitInv DEF BaseInv, SetupInit

\* Every variable of first setup keeps its type.
THEOREM SetupTypeCorrect == SetupSpec => []SetupTypeOK
  <1>1. SetupTypeOK /\ RunShape /\ [SetupNext]_vars => (SetupTypeOK /\ RunShape)'
    BY TypesStep
  <1> QED BY <1>1, TypesInit, PTL DEF SetupSpec

-----------------------------------------------------------------------------
(* Who infers "first" *)

\* The two requests that write the relay's rows.
LEMMA StoreCalls ==
    ASSUME NEW r \in Run, Stepping(r)
    PROVE  ServeRedeem(r) \/ ServeGrant(r) \/ UNCHANGED storeVars
  BY DEF Stepping, ReadDeviceStatus, Wipe, CreatePasskey, SealVault, Redeem, ServeList,
     TakeList, TakeRedeem, Finish, TakeGrant, Mint, AddStream, AddDevice, IssueRecoveryCode,
     ServeWrap, TakeWrap, ConfirmRecoveryCode, Ambiguous, Lock, Close

\* Only a redeem is answered with a mode.
LEMMA ReportCalls ==
    ASSUME NEW r \in Run, Stepping(r)
    PROVE  ServeRedeem(r) \/ UNCHANGED reported
  BY DEF Stepping, ReadDeviceStatus, Wipe, CreatePasskey, SealVault, Redeem, ServeList,
     TakeList, TakeRedeem, Finish, ServeGrant, TakeGrant, Mint, AddStream, AddDevice,
     IssueRecoveryCode, ServeWrap, TakeWrap, ConfirmRecoveryCode, Ambiguous, Lock, Close

\* The rest of the deployment moves no row.
LEMMA ElsewhereIsQuiet == Elsewhere => UNCHANGED <<deviceVars, scopeVars, setupVars>>
  BY DEF Elsewhere, IssueOwnerCode, SweepExpired, Tick

\* A redeem enrolls its key as an active owner, and changes no other row.
LEMMA RedeemRow ==
    ASSUME SetupTypeOK, NEW c \in Code, NEW d \in Device, RedeemOwnerCode(c, d)
    PROVE  /\ status[d] = "none"
           /\ UNCHANGED <<kind, acl>>
           /\ role'[d] = "owner" /\ status'[d] = "active"
           /\ \A e \in Device : e # d => role'[e] = role[e] /\ status'[e] = status[e]
           /\ ActiveOwners' = ActiveOwners \cup {d}
  <1>1. role \in [Device -> Role \cup {"none"}]
            /\ status \in [Device -> {"none", "active", "revoked"}]
    BY DEF SetupTypeOK, StoreTypeOK
  <1>2. /\ status[d] = "none" /\ UNCHANGED <<kind, acl>>
        /\ role' = [role EXCEPT ![d] = "owner"] /\ status' = [status EXCEPT ![d] = "active"]
    BY DEF RedeemOwnerCode, FreshKey, scopeVars
  <1> QED BY <1>1, <1>2 DEF ActiveOwners

\* The relay's answers to the redeems say who was first.
LEMMA ReportsStep ==
    ASSUME BaseInv, OwnersReported, FirstIsThere, MasterIsOwned, [SetupNext]_vars
    PROVE  /\ OwnersReported' /\ FirstIsThere' /\ MasterIsOwned'
           /\ \A d \in Device : reported[d] = "first" => reported'[d] = "first"
  <1> DEFINE Goal == /\ OwnersReported' /\ FirstIsThere' /\ MasterIsOwned'
                     /\ \A d \in Device : reported[d] = "first" => reported'[d] = "first"
  <1>0. SetupTypeOK /\ RunShape /\ reported \in [Device -> Mode \cup {None}]
    BY DEF BaseInv, SetupTypeOK
  <1>1. ASSUME UNCHANGED <<deviceVars, kind, reported>> PROVE Goal
    <2>1. ActiveOwners' = ActiveOwners /\ Masters' = Masters
            /\ reported' = reported /\ status' = status
      BY <1>1 DEF ActiveOwners, Masters, deviceVars
    <2> QED BY <2>1 DEF OwnersReported, FirstIsThere, MasterIsOwned
  <1>2. ASSUME NEW r \in Run, ServeRedeem(r) PROVE Goal
    <2> DEFINE d == runs[r].key
    <2>1. d \in Device /\ runs[r].code \in Code
      BY <1>0, <1>2, KeyedRun DEF ServeRedeem, RunShape, Shape, Keyed, Waiting
    <2>2. CASE UNCHANGED <<storeVars, reported>>
      BY <1>1, <2>2 DEF storeVars, deviceVars, scopeVars
    <2>3. CASE RedeemOwnerCode(runs[r].code, d) /\ reported' = [reported EXCEPT ![d] = RedeemMode]
      <3>1. /\ status[d] = "none" /\ UNCHANGED <<kind, acl>>
            /\ role'[d] = "owner" /\ status'[d] = "active"
            /\ \A e \in Device : e # d => role'[e] = role[e] /\ status'[e] = status[e]
            /\ ActiveOwners' = ActiveOwners \cup {d}
        BY <1>0, <2>1, <2>3, RedeemRow
      <3>2. reported[d] = None
        BY <2>1, <3>1 DEF OwnersReported
      <3>3. /\ reported'[d] = RedeemMode
            /\ \A e \in Device : e # d => reported'[e] = reported[e]
        BY <1>0, <2>1, <2>3
      <3>4. RedeemMode \in Mode /\ RedeemMode # None /\ "first" # None
        BY NoneIsNothing DEF RedeemMode, Mode
      <3>5. OwnersReported'
        BY <2>1, <3>1, <3>3, <3>4 DEF OwnersReported
      <3>6. FirstIsThere'
        <4>1. CASE ActiveOwners = {}
          <5>1. RedeemMode = "first"
            BY <4>1 DEF MasterIsOwned, RedeemMode
          <5> QED BY <3>1, <3>3, <5>1 DEF FirstIsThere
        <4>2. CASE ActiveOwners # {}
          <5>1. PICK e \in ActiveOwners : reported[e] = "first"
            BY <4>2 DEF FirstIsThere
          <5>2. e \in ActiveOwners' /\ e \in Device /\ e # d
            BY <3>1, <3>2, <3>4, <5>1 DEF ActiveOwners
          <5>3. reported'[e] = "first"
            BY <3>3, <5>1, <5>2
          <5> QED BY <5>2, <5>3 DEF FirstIsThere
        <4> QED BY <4>1, <4>2
      <3>7. MasterIsOwned'
        BY <3>1 DEF MasterIsOwned
      <3> QED BY <3>2, <3>3, <3>4, <3>5, <3>6, <3>7
    <2> QED BY <1>2, <2>2, <2>3 DEF ServeRedeem
  <1>3. ASSUME NEW r \in Run, ServeGrant(r), Stepping(r), ~ServeRedeem(r) PROVE Goal
    <2>1. CASE UNCHANGED storeVars
      BY <1>1, <1>3, <2>1, ReportCalls DEF storeVars, deviceVars, scopeVars
    <2>2. CASE Authorized(runs[r].key) /\ UNCHANGED <<deviceVars, reported>>
      <3>1. ActiveOwners' = ActiveOwners /\ status' = status /\ reported' = reported
        BY <2>2 DEF ActiveOwners, deviceVars
      <3>2. ActiveOwners # {}
        BY <2>2 DEF Authorized
      <3> QED BY <3>1, <3>2 DEF OwnersReported, FirstIsThere, MasterIsOwned
    <2> QED BY <1>3, <2>1, <2>2, ReportCalls DEF ServeGrant, GrantScopes
  <1>4. ASSUME NEW r \in Run, Stepping(r), ~ServeRedeem(r), ~ServeGrant(r) PROVE Goal
    BY <1>1, <1>4, StoreCalls, ReportCalls DEF storeVars, deviceVars, scopeVars
  <1>5. ASSUME Elsewhere PROVE Goal
    BY <1>1, <1>5, ElsewhereIsQuiet DEF scopeVars, setupVars
  <1>6. ASSUME UNCHANGED vars PROVE Goal
    BY <1>1, <1>6 DEF vars, storeVars, deviceVars, scopeVars, setupVars
  <1> QED BY <1>2, <1>3, <1>4, <1>5, <1>6, StepCases

\* The list says "first" to nobody but the first owner.
LEMMA InferStep == InferInv /\ [SetupNext]_vars => InferInv'
  <1> SUFFICES ASSUME InferInv, [SetupNext]_vars PROVE InferInv'
    OBVIOUS
  <1>1. /\ BaseInv /\ OwnersReported /\ FirstIsThere /\ MasterIsOwned /\ InferredFirstIsFirst
        /\ SetupTypeOK /\ RunShape
    BY DEF InferInv, BaseInv
  <1>2. /\ BaseInv' /\ OwnersReported' /\ FirstIsThere' /\ MasterIsOwned'
        /\ \A d \in Device : reported[d] = "first" => reported'[d] = "first"
    BY <1>1, BaseStep, ReportsStep
  <1>3. ASSUME NEW q \in Run, runs'[q] = runs[q], runs'[q].at = "listed", runs'[q].mode = "first"
        PROVE  reported'[runs'[q].key] = "first"
    <2>1. runs[q].key \in Device
      BY <1>1, <1>3, KeyedRun DEF Keyed, Waiting
    <2>2. reported[runs[q].key] = "first"
      BY <1>1, <1>3 DEF InferredFirstIsFirst
    <2> QED BY <1>2, <1>3, <2>1, <2>2
  <1>4. ASSUME NEW r \in Run, Stepping(r), runs'[r].at = "listed", runs'[r].mode = "first"
        PROVE  reported'[runs'[r].key] = "first"
    <2>1. CASE ServeList(r)
      <3>1. PICK m \in {"first", "recovery", None} :
               /\ m = "first" => Authorized(runs[r].key) /\ InferRedeemMode(runs[r].key) = "first"
               /\ MovesTo(r, runs[r].life, "listed", runs[r].key, runs[r].tag, runs[r].code, m)
        BY <1>1, <2>1, RedeemMoves
      <3>2. /\ Authorized(runs[r].key) /\ InferRedeemMode(runs[r].key) = "first"
            /\ runs'[r].key = runs[r].key
        BY <1>4, <3>1 DEF MovesTo
      <3>3. ActiveOwners \subseteq {runs[r].key} /\ ActiveOwners # {}
        BY <3>2 DEF InferRedeemMode, Authorized
      <3>4. reported[runs[r].key] = "first"
        BY <1>1, <3>3 DEF FirstIsThere
      <3>5. runs[r].key \in Device
        BY <3>3 DEF ActiveOwners
      <3> QED BY <1>2, <3>2, <3>4, <3>5
    <2>2. CASE Lock(r)
      <3>1. runs[r].at = "listed" /\ runs[r].mode = "first" /\ runs'[r].key = runs[r].key
        BY <1>1, <1>4, <2>2, BackupMoves DEF MovesTo
      <3>2. runs[r].key \in Device /\ reported[runs[r].key] = "first"
        BY <1>1, <3>1, KeyedRun DEF InferredFirstIsFirst, Keyed, Waiting
      <3> QED BY <1>2, <3>1, <3>2
    <2>3. CASE ~ServeList(r) /\ ~Lock(r)
      <3>a. \A s \in Rest : s # "listed"
        BY DEF Rest
      <3>b. ASSUME NEW s \in Rest, SettlesOn(r, s) PROVE FALSE
        BY <1>4, <3>a, <3>b, FreeRun, NoneIsNothing DEF SettlesOn, MovesTo, Waiting
      <3>c. /\ \A s \in {"code", "finish", "backup", "stopped"} : s \in Rest
            /\ \A m : Learns(r, m) => \E s \in Rest : SettlesOn(r, s)
        BY DEF Rest, Learns
      <3>d. ASSUME NEW l, NEW a, NEW k, NEW t, NEW c, NEW m,
                     a # "listed", MovesTo(r, l, a, k, t, c, m)
            PROVE  FALSE
        BY <1>4, <3>d DEF MovesTo
      <3>e. ASSUME NEW a, NEW t, NEW c, NEW m, a # "listed", GoesOn(r, a, t, c, m) PROVE FALSE
        BY <1>4, <3>d, <3>e, FreeRun, NoneIsNothing DEF GoesOn, Waiting
      <3>1. ReadDeviceStatus(r) => FALSE
        BY <1>1, <3>d, OpenMoves
      <3>2. Wipe(r) \/ CreatePasskey(r) => FALSE
        BY <1>1, <3>d, SealMoves
      <3>3. ASSUME NEW d \in Device, SealVault(r, d) PROVE FALSE
        BY <1>1, <3>3, <3>d, SealMoves
      <3>4. Redeem(r) \/ TakeList(r) \/ TakeRedeem(r) => FALSE
        BY <1>1, <3>b, <3>c, <3>d, RedeemMoves
      <3>5. ServeRedeem(r) => FALSE
        BY <1>1, <3>d, RedeemMoves
      <3>6. Finish(r) \/ ServeGrant(r) \/ TakeGrant(r) \/ AddDevice(r) => FALSE
        BY <1>1, <3>b, <3>c, <3>d, <3>e, MintMoves
      <3>7. ASSUME NEW t \in Scope, Mint(r, t) \/ AddStream(r, t) PROVE FALSE
        BY <1>1, <3>7, <3>b, <3>c, <3>d, <3>e, MintMoves
      <3>8. IssueRecoveryCode(r) \/ ServeWrap(r) \/ TakeWrap(r) \/ Ambiguous(r) => FALSE
        BY <1>1, <3>b, <3>c, <3>d, <3>e, BackupMoves
      <3>9. ConfirmRecoveryCode(r) \/ Close(r) => FALSE
        BY <1>1, <1>4, BackupMoves, FreeRun, NoneIsNothing DEF Waiting
      <3> QED BY <1>4, <2>3, <3>1, <3>2, <3>3, <3>4, <3>5, <3>6, <3>7, <3>8, <3>9 DEF Stepping
    <2> QED BY <2>1, <2>2, <2>3
  <1>5. ASSUME NEW r \in Run, Stepping(r) PROVE InferredFirstIsFirst'
    <2>1. \A q \in Run : q # r => runs'[q] = runs[q]
      BY <1>1, <1>5, StepMoves, RunTypes DEF OneMoves
    <2> QED BY <1>3, <1>4, <1>5, <2>1 DEF InferredFirstIsFirst
  <1>6. ASSUME UNCHANGED runs PROVE InferredFirstIsFirst'
    BY <1>3, <1>6 DEF InferredFirstIsFirst
  <1>7. InferredFirstIsFirst'
    BY <1>5, <1>6, StepCases, ElsewhereIsQuiet DEF vars, setupVars
  <1> QED BY <1>2, <1>7 DEF InferInv

\* Nobody is enrolled, and no run waits.
LEMMA InferInit == SetupInit => InferInv
  <1> SUFFICES ASSUME SetupInit PROVE InferInv
    OBVIOUS
  <1>1. \A d \in Device : status[d] = "none" /\ role[d] = "none" /\ reported[d] = None
    BY DEF SetupInit, StoreInit
  <1>2. ActiveOwners = {} /\ Masters = {}
    BY <1>1 DEF ActiveOwners, Masters, SetupInit, StoreInit
  <1>3. \A r \in Run : runs[r].at # "listed"
    BY FreeRun, NoneIsNothing DEF SetupInit, Waiting
  <1> QED BY <1>1, <1>2, <1>3, BaseInit
          DEF InferInv, OwnersReported, FirstIsThere, MasterIsOwned, InferredFirstIsFirst

\* "first" is inferred only by the device the relay took as its first owner.
THEOREM FirstIsTheFirstOwner == SetupSpec => []InferredFirstIsFirst
  <1>1. InferInv => InferredFirstIsFirst
    BY DEF InferInv
  <1> QED BY <1>1, InferInit, InferStep, PTL DEF SetupSpec

-----------------------------------------------------------------------------
(* What a run has made stays *)

\* After a step: no access is taken back, no master, no name, no stream and no wrap.
Grows ==
    /\ \A d \in Device : acl[d] \subseteq acl'[d]
    /\ \A t \in Scope : /\ kind[t] = "master" => kind'[t] = "master"
                        /\ manifest[t].devices \subseteq manifest'[t].devices
                        /\ manifest[t].streams # {} => manifest'[t].streams = manifest[t].streams
    /\ wrap # None => wrap' # None

\* The same, of fixed runs and records, after the step.
GrantedNext(d, t) ==
    /\ t \in acl'[d] /\ kind'[t] = "master"
    /\ d \in manifest'[t].devices
    /\ manifest'[t].streams # {} /\ manifest'[t].streams \subseteq acl'[d]

BackedNext(rec) == rec.grant \in Scope /\ GrantedNext(rec.key, rec.grant)

\* What a run at work needs of its record, but for what the relay granted.
Stands(n, rec) ==
    /\ n.at \in Keyed => rec # None /\ rec.key = n.key
    /\ n.at = "mint" => rec.grant = None

WorkFitsNext(n, rec) ==
    /\ Stands(n, rec)
    /\ n.at \in {"backup", "shown", "wrapping", "wrap_answer"} => BackedNext(rec)

SentFitsNext(n) ==
    /\ n.at \in {"naming", "granting"} => manifest'[n.tag].streams # {}
    /\ n.at = "granting" => n.key \in manifest'[n.tag].devices
    /\ n.at = "grant_answer" => GrantedNext(n.key, n.tag)
    /\ n.at = "wrapping" => kind'[n.tag] = "master"
    /\ n.at \in {"wrap_answer", "shown"} => wrap' # None

RunFitsNext(n, rec) ==
    (AtWork(n) => WorkFitsNext(n, rec)) /\ TagFits(n, rec) /\ SentFitsNext(n)

StageFitsNext(rec) ==
    /\ rec.stage \in {"scopes_granted", "recovery_pending", "done"} => BackedNext(rec)
    /\ rec.stage = "keys_created" => rec.mode = None
    /\ rec.stage = "done" => wrap' # None

AclIsVaultNext(rec) ==
    IF rec.grant = None THEN acl'[rec.key] = {}
    ELSE /\ acl'[rec.key] \subseteq {rec.grant} \cup manifest'[rec.grant].streams
         /\ rec.grant \in acl'[rec.key] => kind'[rec.grant] = "master"

\* What is granted stays granted.
LEMMA GrantedStays ==
    ASSUME Grows, NEW d \in Device, NEW t \in Scope, Granted(d, t)
    PROVE  GrantedNext(d, t)
  <1>1. acl[d] \subseteq acl'[d] /\ kind'[t] = "master" /\ d \in manifest'[t].devices
        /\ manifest'[t].streams = manifest[t].streams
    BY DEF Grows, Granted
  <1> QED BY <1>1 DEF Granted, GrantedNext

LEMMA BackedStays ==
    ASSUME Grows, NEW rec \in Record, Backed(rec)
    PROVE  BackedNext(rec)
  <1>1. rec.key \in Device /\ rec.grant \in Scope /\ Granted(rec.key, rec.grant)
    BY DEF Record, Backed
  <1> QED BY <1>1, GrantedStays DEF BackedNext

\* A run that does not move fits its record as long as that one does not change.
LEMMA StillFits ==
    ASSUME Grows, NEW n \in RunRec, Shape(n), NEW rec \in Record \cup {None}, RunFits(n, rec)
    PROVE  RunFitsNext(n, rec)
  <1>1. TagFits(n, rec)
    BY DEF RunFits
  <1>2. SentFitsNext(n)
    <2>1. n.at \in Tagged => n.tag \in Scope
      BY DEF Shape
    <2>2. n.at \in {"granting", "grant_answer"} => n.key \in Device
      BY DEF Shape, Keyed, Waiting
    <2>3. SentFits(n)
      BY DEF RunFits
    <2>4. ASSUME n.at \in {"naming", "granting"} PROVE manifest'[n.tag].streams # {}
      BY <2>1, <2>3, <2>4 DEF SentFits, Grows, Tagged
    <2>5. ASSUME n.at = "granting" PROVE n.key \in manifest'[n.tag].devices
      BY <2>1, <2>3, <2>5 DEF SentFits, Grows, Tagged
    <2>6. ASSUME n.at = "grant_answer" PROVE GrantedNext(n.key, n.tag)
      BY <2>1, <2>2, <2>3, <2>6, GrantedStays DEF SentFits, Tagged
    <2>7. ASSUME n.at = "wrapping" PROVE kind'[n.tag] = "master"
      BY <2>1, <2>3, <2>7 DEF SentFits, Grows, Tagged
    <2>8. ASSUME n.at \in {"wrap_answer", "shown"} PROVE wrap' # None
      BY <2>3, <2>8 DEF SentFits, Grows
    <2> QED BY <2>4, <2>5, <2>6, <2>7, <2>8 DEF SentFitsNext
  <1>3. ASSUME AtWork(n) PROVE WorkFitsNext(n, rec)
    <2>1. Stands(n, rec) /\ WorkFits(n, rec)
      BY <1>3 DEF RunFits, WorkFits, Stands
    <2>2. ASSUME n.at \in {"backup", "shown", "wrapping", "wrap_answer"} PROVE BackedNext(rec)
      <3>1. n.at \in Keyed
        BY <2>2 DEF Keyed, Waiting
      <3>2. rec \in Record /\ Backed(rec)
        BY <2>1, <2>2, <3>1 DEF WorkFits
      <3> QED BY <3>2, BackedStays
    <2> QED BY <2>1, <2>2 DEF WorkFitsNext
  <1> QED BY <1>1, <1>2, <1>3 DEF RunFitsNext

\* A gone run fits anything.
LEMMA FreeFits ==
    ASSUME NEW rec
    PROVE  RunFitsNext(NoRun, rec) /\ RunFits(NoRun, rec)
  <1>1. ~AtWork(NoRun) /\ NoRun.tag \notin Scope
    BY FreeRun, NoneIsNothing DEF AtWork
  <1>2. \A s \in {"naming", "granting", "grant_answer", "wrapping", "wrap_answer", "shown"} :
           NoRun.at # s
    BY FreeRun, NoneIsNothing DEF Screen, Waiting
  <1> QED BY <1>1, <1>2 DEF RunFitsNext, RunFits, TagFits, SentFitsNext, SentFits

\* A run settles on a screen that its record fits.
LEMMA ScreenFits ==
    ASSUME NEW r, NEW s \in Rest, NEW k, NEW c, NEW m, NEW rec,
           MovesTo(r, "live", s, k, None, c, m),
           s \in Keyed => rec # None /\ rec.key = k,
           s = "backup" => BackedNext(rec)
    PROVE  RunFitsNext(runs'[r], rec)
  <1>1. /\ runs'[r].at = s /\ runs'[r].key = k /\ runs'[r].tag = None /\ runs'[r].tag \notin Scope
    BY NoneIsNothing DEF MovesTo
  <1>2. SentFitsNext(runs'[r]) /\ TagFits(runs'[r], rec)
    BY <1>1 DEF SentFitsNext, TagFits, Rest
  <1>3. Stands(runs'[r], rec)
    BY <1>1 DEF Stands, Rest
  <1>4. WorkFitsNext(runs'[r], rec)
    BY <1>1, <1>3 DEF WorkFitsNext, Rest
  <1> QED BY <1>2, <1>4 DEF RunFitsNext

\* What the granted request writes: the master and its stream, for this device alone.
LEMMA GrantWrites ==
    ASSUME SetupTypeOK, NEW d \in Device, NEW t \in Scope, GrantScopes(d, OwnGrants(t))
    PROVE  /\ kind'[t] = "master"
           /\ acl'[d] = acl[d] \cup {t} \cup manifest[t].streams
           /\ \A e \in Device : e # d => acl'[e] = acl[e]
           /\ \A s \in Scope : /\ kind[s] = "master" => kind'[s] = "master"
                               /\ kind'[s] = "master" => kind[s] = "master" \/ s = t
  <1> DEFINE grants == OwnGrants(t)
  <1>1. kind \in [Scope -> Kind \cup {"none"}] /\ acl \in [Device -> SUBSET Scope]
    BY DEF SetupTypeOK, StoreTypeOK
  <1>2. CheckGrant(role[d], status[d], grants) /\ WriteGrant(d, grants)
    BY DEF GrantScopes
  <1>3. <<t, "master">> \in grants /\ \A s \in Scope : <<s, "master">> \in grants => s = t
    BY DEF OwnGrants
  <1>4. {g[1] : g \in grants} = {t} \cup manifest[t].streams
    <2>1. \A g \in grants : g[1] \in {t} \cup manifest[t].streams
      BY DEF OwnGrants
    <2>2. \A s \in manifest[t].streams : <<s, "period">> \in grants
      BY DEF OwnGrants
    <2>3. ASSUME NEW s \in {t} \cup manifest[t].streams PROVE \E g \in grants : g[1] = s
      <3>1. <<s, "master">>[1] = s /\ <<s, "period">>[1] = s
        OBVIOUS
      <3>2. CASE s = t
        BY <1>3, <3>1, <3>2
      <3>3. CASE s \in manifest[t].streams
        BY <2>2, <3>1, <3>3
      <3> QED BY <3>2, <3>3
    <2> HIDE DEF grants
    <2> QED BY <2>1, <2>3
  <1>5. ScopeAcceptable(role[d], <<t, "master">>)
    BY <1>2, <1>3 DEF CheckGrant
  <1>6. kind[t] \in {"none", "master"}
    BY <1>5 DEF ScopeAcceptable
  <1>p. <<t, "period">> \notin grants
    BY <1>2, <1>3 DEF CheckGrant
  <1> HIDE DEF grants
  <1>7. kind' = [s \in Scope |->
                  CASE kind[s] = "none" /\ <<s, "master">> \in grants -> "master"
                    [] kind[s] = "none" /\ <<s, "period">> \in grants -> "period"
                    [] OTHER -> kind[s]]
    BY <1>2 DEF WriteGrant
  <1>8. acl' = [acl EXCEPT ![d] = acl[d] \cup {g[1] : g \in grants}]
    BY <1>2 DEF WriteGrant
  <1>9. kind'[t] = "master"
    <2>1. CASE kind[t] = "none"
      BY <1>3, <1>p, <1>7, <2>1
    <2>2. CASE kind[t] = "master"
      BY <1>7, <2>2
    <2> QED BY <1>6, <2>1, <2>2
  <1>10. \A s \in Scope : /\ kind[s] = "master" => kind'[s] = "master"
                          /\ kind'[s] = "master" => kind[s] = "master" \/ s = t
    BY <1>3, <1>7
  <1>11. /\ acl'[d] = acl[d] \cup {t} \cup manifest[t].streams
         /\ \A e \in Device : e # d => acl'[e] = acl[e]
    BY <1>1, <1>4, <1>8
  <1> QED BY <1>9, <1>10, <1>11

\* The wrap is put by one request only.
LEMMA WrapCalls ==
    ASSUME NEW r \in Run, Stepping(r)
    PROVE  ServeWrap(r) \/ UNCHANGED wrap
  BY DEF Stepping, ReadDeviceStatus, Wipe, CreatePasskey, SealVault, Redeem, ServeList,
     TakeList, ServeRedeem, TakeRedeem, Finish, ServeGrant, TakeGrant, Mint, AddStream,
     AddDevice, IssueRecoveryCode, TakeWrap, ConfirmRecoveryCode, Ambiguous, Lock, Close

\* What a step does to the relay's rows of access and scopes.
LEMMA AccessStep ==
    ASSUME SetupTypeOK, RunShape, NEW r \in Run, Stepping(r)
    PROVE  \/ UNCHANGED <<kind, acl>>
           \/ /\ runs[r].at = "granting" /\ runs[r].tag \in Scope /\ runs[r].key \in Device
              /\ GrantScopes(runs[r].key, OwnGrants(runs[r].tag))
  <1>1. CASE ServeRedeem(r)
    <2>1. runs[r].key \in Device /\ runs[r].code \in Code
      BY <1>1, KeyedRun DEF ServeRedeem, RunShape, Shape, Keyed, Waiting
    <2>2. RedeemOwnerCode(runs[r].code, runs[r].key) \/ UNCHANGED storeVars
      BY <1>1 DEF ServeRedeem
    <2> QED BY <2>1, <2>2, RedeemRow DEF storeVars, scopeVars
  <1>2. CASE ServeGrant(r)
    <2>1. runs[r].at = "granting" /\ runs[r].tag \in Scope /\ runs[r].key \in Device
      BY <1>2, KeyedRun DEF ServeGrant, RunShape, Shape, Tagged, Keyed, Waiting
    <2>2. GrantScopes(runs[r].key, OwnGrants(runs[r].tag)) \/ UNCHANGED storeVars
      BY <1>2, MintMoves
    <2> QED BY <2>1, <2>2 DEF storeVars, scopeVars
  <1> QED BY <1>1, <1>2, StoreCalls DEF storeVars, scopeVars

\* Nobody's step takes back what a run has made.
LEMMA GrowsStep ==
    ASSUME SetupTypeOK, RunShape, NEW r \in Run, Stepping(r)
    PROVE  Grows
  <1>1. \A d \in Device : acl[d] \subseteq acl'[d]
    BY AccessStep, GrantWrites
  <1>2. \A t \in Scope : kind[t] = "master" => kind'[t] = "master"
    BY AccessStep, GrantWrites
  <1>3. ASSUME NEW t \in Scope
        PROVE  /\ manifest[t].devices \subseteq manifest'[t].devices
               /\ manifest[t].streams # {} => manifest'[t].streams = manifest[t].streams
    <2>1. manifest \in [Scope -> [streams : SUBSET Scope, devices : SUBSET Device]]
      BY DEF SetupTypeOK
    <2>2. CASE UNCHANGED manifest
      BY <2>2
    <2>3. ASSUME runs[r].tag \in Scope, NEW s \in Scope, AddStream(r, s)
          PROVE  /\ manifest[t].devices \subseteq manifest'[t].devices
                 /\ manifest[t].streams # {} => manifest'[t].streams = manifest[t].streams
      <3>1. manifest[runs[r].tag].streams = {}
        BY <2>3 DEF AddStream, ActiveStreams
      <3>2. /\ manifest' = [manifest EXCEPT ![runs[r].tag] = manifest'[runs[r].tag]]
            /\ manifest'[runs[r].tag].devices = manifest[runs[r].tag].devices
        BY <2>3, ManifestWrites
      <3> QED BY <2>1, <3>1, <3>2
    <2>4. ASSUME runs[r].tag \in Scope, AddDevice(r)
          PROVE  /\ manifest[t].devices \subseteq manifest'[t].devices
                 /\ manifest[t].streams # {} => manifest'[t].streams = manifest[t].streams
      <3>1. /\ manifest' = [manifest EXCEPT ![runs[r].tag] = manifest'[runs[r].tag]]
            /\ manifest'[runs[r].tag].streams = manifest[runs[r].tag].streams
            /\ manifest'[runs[r].tag].devices = manifest[runs[r].tag].devices \cup {runs[r].key}
        BY <2>4, ManifestWrites
      <3> QED BY <2>1, <3>1
    <2> QED BY <2>2, <2>3, <2>4, ManifestStep
  <1>4. wrap # None => wrap' # None
    <2>1. ServeWrap(r) => runs[r].tag \in Scope /\ runs[r].code \in Recovery
      BY DEF ServeWrap, RunShape, Shape, Tagged, Coded
    <2>2. ServeWrap(r) => wrap' = wrap \/ wrap' = WrapOf(runs[r])
      BY BackupMoves
    <2> QED BY <2>1, <2>2, WrapCalls, WrapFields
  <1> QED BY <1>1, <1>2, <1>3, <1>4 DEF Grows

-----------------------------------------------------------------------------
(* Keys, tags and windows *)

\* What a run keeps as it moves: nobody unlocks it, its key is its own, and its tag is
\* the record's master or a fresh one.
Keeps(r) ==
    /\ runs'[r].life = "live" => runs[r].life = "live"
    /\ \/ runs'[r].key \in {None, runs[r].key}
       \/ \E d \in Device : SealVault(r, d) /\ runs'[r].key = d
    /\ \/ runs'[r].tag \in {None, runs[r].tag}
       \/ record[r[1]] # None /\ runs'[r].tag = record[r[1]].grant
       \/ \E t \in Scope : Mint(r, t) /\ t \in FreshTags /\ runs'[r].tag = t

LEMMA StepKeeps ==
    ASSUME SetupTypeOK, RunShape, NEW r \in Run, Stepping(r)
    PROVE  ReadDeviceStatus(r) \/ Keeps(r)
  <1> DEFINE n == runs[r]
  <1>a. ASSUME NEW s, SettlesOn(r, s) PROVE Keeps(r)
    BY <1>a, FreeRun DEF SettlesOn, MovesTo, Keeps
  <1>b. ASSUME NEW l, NEW a, NEW t, NEW c, NEW m, MovesTo(r, l, a, n.key, t, c, m),
               l = "live" => n.life = "live", t \in {None, n.tag}
        PROVE  Keeps(r)
    BY <1>b DEF MovesTo, Keeps
  <1>c. ASSUME NEW a, NEW t, NEW c, NEW m, GoesOn(r, a, t, c, m),
               \/ t = n.tag
               \/ \E x \in Scope : Mint(r, x) /\ x \in FreshTags /\ t = x
        PROVE  Keeps(r)
    BY <1>c, FreeRun DEF GoesOn, MovesTo, Keeps
  <1>1. ASSUME Wipe(r) \/ CreatePasskey(r) PROVE Keeps(r)
    <2>1. n.life = "live"
      BY <1>1 DEF Wipe, CreatePasskey, Live
    <2>2. \E a : MovesTo(r, "live", a, n.key, None, None, None)
      BY <1>1, SealMoves
    <2> QED BY <1>b, <2>1, <2>2
  <1>2. ASSUME NEW d \in Device, SealVault(r, d) PROVE Keeps(r)
    <2>1. n.life = "live"
      BY <1>2 DEF SealVault, Live
    <2>2. MovesTo(r, "live", "code", d, n.tag, n.code, n.mode)
      BY <1>2, SealMoves
    <2> QED BY <1>2, <2>1, <2>2 DEF MovesTo, Keeps
  <1>3. ASSUME Redeem(r) PROVE Keeps(r)
    <2>1. \/ SettlesOn(r, "finish") \/ SettlesOn(r, "stopped")
          \/ MovesTo(r, n.life, "listing", n.key, n.tag, n.code, n.mode)
      BY <1>3, RedeemMoves
    <2> QED BY <1>a, <1>b, <2>1
  <1>4. ASSUME ServeList(r) \/ ServeRedeem(r) PROVE Keeps(r)
    <2>1. \E a, c, m : MovesTo(r, n.life, a, n.key, n.tag, c, m)
      <3>1. ServeList(r) => \E m : MovesTo(r, n.life, "listed", n.key, n.tag, n.code, m)
        BY RedeemMoves
      <3>2. ServeRedeem(r) => \E m : MovesTo(r, n.life, "redeem_answer", n.key, n.tag, None, m)
        BY RedeemMoves
      <3> QED BY <1>4, <3>1, <3>2
    <2> QED BY <1>b, <2>1
  <1>5. ASSUME TakeList(r) \/ TakeRedeem(r) PROVE Keeps(r)
    <2>1. ASSUME NEW m, Learns(r, m) PROVE Keeps(r)
      BY <1>a, <2>1 DEF Learns
    <2>2. \/ \E m : Learns(r, m)
          \/ SettlesOn(r, "code")
          \/ \E c \in Code : MovesTo(r, n.life, "redeeming", n.key, n.tag, c, n.mode)
      BY <1>5, RedeemMoves
    <2> QED BY <1>a, <1>b, <2>1, <2>2
  <1>6. ASSUME Finish(r) PROVE Keeps(r)
    <2>1. n.life = "live"
      BY <1>6 DEF Finish, Live
    <2>2. \/ SettlesOn(r, "code") \/ SettlesOn(r, "backup")
          \/ MovesTo(r, "live", "mint", n.key, None, n.code, n.mode)
          \/ /\ record[r[1]] # None
             /\ MovesTo(r, "live", "manifest", n.key, record[r[1]].grant, n.code, n.mode)
      BY <1>6, MintMoves
    <2>3. CASE /\ record[r[1]] # None
               /\ MovesTo(r, "live", "manifest", n.key, record[r[1]].grant, n.code, n.mode)
      BY <2>1, <2>3 DEF MovesTo, Keeps
    <2> QED BY <1>a, <1>b, <2>1, <2>2, <2>3
  <1>7. ASSUME NEW t \in Scope, Mint(r, t) PROVE Keeps(r)
    <2>1. \/ SettlesOn(r, "code")
          \/ t \in FreshTags /\ GoesOn(r, "manifest", t, n.code, n.mode)
      BY <1>7, MintMoves
    <2> QED BY <1>7, <1>a, <1>c, <2>1
  <1>8. ASSUME NEW t \in Scope, AddStream(r, t) PROVE Keeps(r)
    <2>1. \E a : MovesTo(r, n.life, a, n.key, n.tag, n.code, n.mode)
      BY <1>8, MintMoves
    <2> QED BY <1>b, <2>1
  <1>9. ASSUME AddDevice(r) PROVE Keeps(r)
    <2>1. GoesOn(r, "granting", n.tag, n.code, n.mode)
      BY <1>9, MintMoves
    <2> QED BY <1>c, <2>1
  <1>10. ASSUME ServeGrant(r) \/ TakeGrant(r) PROVE Keeps(r)
    <2>1. \/ \E s : SettlesOn(r, s)
          \/ MovesTo(r, n.life, "grant_answer", n.key, n.tag, n.code, n.mode)
      BY <1>10, MintMoves
    <2> QED BY <1>a, <1>b, <2>1
  <1>11. ASSUME IssueRecoveryCode(r) PROVE Keeps(r)
    <2>1. n.life = "live" /\ record[r[1]] # None
      BY <1>11 DEF IssueRecoveryCode, MayWriteStage
    <2>2. \/ SettlesOn(r, "code")
          \/ \E c \in Recovery :
                MovesTo(r, "live", "wrapping", n.key, record[r[1]].grant, c, n.mode)
      BY <1>11, BackupMoves
    <2>3. ASSUME NEW c \in Recovery,
                 MovesTo(r, "live", "wrapping", n.key, record[r[1]].grant, c, n.mode)
          PROVE  Keeps(r)
      BY <2>1, <2>3 DEF MovesTo, Keeps
    <2> QED BY <1>a, <2>2, <2>3
  <1>12. ASSUME ServeWrap(r) PROVE Keeps(r)
    <2>1. \/ SettlesOn(r, "code")
          \/ MovesTo(r, n.life, "wrap_answer", n.key, None, n.code, n.mode)
      BY <1>12, BackupMoves
    <2> QED BY <1>a, <1>b, <2>1
  <1>13. ASSUME TakeWrap(r) \/ Ambiguous(r) PROVE Keeps(r)
    BY <1>13, <1>a, <1>c, BackupMoves
  <1>14. ASSUME Lock(r) PROVE Keeps(r)
    BY <1>14, <1>b, BackupMoves
  <1>15. ASSUME ConfirmRecoveryCode(r) \/ Close(r) PROVE Keeps(r)
    BY <1>15, BackupMoves, FreeRun DEF Keeps
  <1> QED BY <1>1, <1>2, <1>3, <1>4, <1>5, <1>6, <1>7, <1>8, <1>9, <1>10, <1>11, <1>12, <1>13,
             <1>14, <1>15 DEF Stepping

\* Nobody but finish itself leads into finish, and to work come those who open the app, or
\* seal a vault.
LEMMA WorkStep ==
    ASSUME SetupTypeOK, RunShape, NEW r \in Run, Stepping(r)
    PROVE  /\ runs'[r].at \in InFinish => runs[r].at \in InFinish \/ Finish(r)
           /\ AtWork(runs'[r]) => \/ AtWork(runs[r]) \/ ReadDeviceStatus(r)
                                  \/ \E d \in Device : SealVault(r, d)
  <1> DEFINE n == runs[r]
             moved == runs'[r]
             Goal == /\ moved.at \in InFinish => n.at \in InFinish \/ Finish(r)
                     /\ AtWork(moved) => \/ AtWork(n) \/ ReadDeviceStatus(r)
                                         \/ \E d \in Device : SealVault(r, d)
  <1>0. /\ n \in RunRec /\ Shape(n) /\ None \notin InFinish
        /\ Waiting \cap InFinish = {} /\ Waiting \cap {"welcome", "passkey"} = {}
        /\ Keyed \cap {"welcome", "passkey"} = {} /\ Rest \cap InFinish = {}
        /\ Waiting \subseteq Keyed /\ InFinish \subseteq Keyed
        /\ \A s \in {"code", "finish", "backup", "stopped"} : s \in Rest /\ s \notin InFinish
        /\ \A s \in {"code", "finish", "mint", "manifest", "naming", "backup", "shown"} : s \in Keyed
        /\ \A s \in {"listing", "listed", "redeeming", "redeem_answer", "granting",
                     "grant_answer", "wrapping", "wrap_answer"} : s \in Waiting
    BY RunTypes, NoneIsNothing DEF RunShape, Waiting, InFinish, Keyed, Rest, Screen
  <1>1. ASSUME n.at \in Keyed, moved.at \notin InFinish,
               moved.life = "live" => n.life = "live"
        PROVE  Goal
    BY <1>0, <1>1 DEF AtWork
  <1>2. ASSUME NEW s \in Rest, n.at \in Keyed, SettlesOn(r, s) PROVE Goal
    <2>1. CASE n.life = "live"
      BY <1>0, <1>1, <1>2, <2>1 DEF SettlesOn, MovesTo
    <2>2. CASE n.life # "live"
      BY <1>0, <1>1, <1>2, <2>2, FreeRun DEF SettlesOn
    <2> QED BY <2>1, <2>2
  <1>3. ASSUME NEW a, a \notin InFinish, NEW t, NEW c, NEW m, n.at \in Keyed,
               GoesOn(r, a, t, c, m)
        PROVE  Goal
    <2>1. CASE n.life = "live"
      BY <1>0, <1>1, <1>3, <2>1 DEF GoesOn, MovesTo
    <2>2. CASE n.life # "live"
      BY <1>0, <1>1, <1>3, <2>2, FreeRun DEF GoesOn
    <2> QED BY <2>1, <2>2
  <1>4. ASSUME NEW a \in Waiting, NEW k, NEW t, NEW c, NEW m, n.at \in Keyed,
               MovesTo(r, n.life, a, k, t, c, m)
        PROVE  Goal
    BY <1>0, <1>1, <1>4 DEF MovesTo
  <1>5. ASSUME n.at \in InFinish PROVE Goal
    <2>1. n.life \in {"live", "locked"}
      BY <1>0, <1>5, KeyedRun DEF RunRec
    <2> QED BY <1>0, <1>5, <2>1 DEF AtWork
  <1> HIDE DEF Goal
  <1>6. ASSUME ReadDeviceStatus(r) PROVE Goal
    <2>1. \E a \in {"welcome", "wiping", "code", "finish", "backup"} : moved.at = a
      BY <1>6, OpenMoves DEF MovesTo
    <2> QED BY <1>6, <2>1 DEF Goal, InFinish
  <1>7. ASSUME Wipe(r) \/ CreatePasskey(r) PROVE Goal
    <2>1. moved.life = "live" /\ moved.at \in {"welcome", "passkey"}
      BY <1>7, SealMoves DEF MovesTo
    <2> QED BY <2>1 DEF Goal, AtWork, InFinish
  <1>8. ASSUME NEW d \in Device, SealVault(r, d) PROVE Goal
    <2>1. moved.at = "code"
      BY <1>8, SealMoves DEF MovesTo
    <2> QED BY <1>8, <2>1 DEF Goal, InFinish
  <1>9. ASSUME Redeem(r) \/ ServeList(r) \/ TakeList(r) \/ ServeRedeem(r) \/ TakeRedeem(r)
        PROVE  Goal
    <2>1. n.at \in Keyed
      BY <1>0, <1>9 DEF Redeem, Live, ServeList, TakeList, ServeRedeem, TakeRedeem
    <2>2. ASSUME NEW m, Learns(r, m) PROVE \E s \in Rest : SettlesOn(r, s)
      BY <1>0, <2>2 DEF Learns
    <2>3. \/ \E s \in Rest : SettlesOn(r, s)
          \/ \E a \in Waiting : \E k, t, c, m : MovesTo(r, n.life, a, k, t, c, m)
      <3>1. CASE Redeem(r)
        BY <1>0, <3>1, RedeemMoves
      <3>2. CASE ServeList(r) \/ ServeRedeem(r)
        BY <1>0, <3>2, RedeemMoves
      <3>3. CASE TakeList(r) \/ TakeRedeem(r)
        BY <1>0, <2>2, <3>3, RedeemMoves
      <3> QED BY <1>9, <3>1, <3>2, <3>3
    <2> QED BY <1>2, <1>4, <2>1, <2>3
  <1>10. ASSUME Finish(r) PROVE Goal
    <2>1. n.life = "live" /\ n.at = "finish"
      BY <1>10 DEF Finish, Live
    <2> QED BY <1>10, <2>1 DEF Goal, AtWork
  <1>11. ASSUME \/ \E t \in Scope : Mint(r, t) \/ AddStream(r, t)
                \/ AddDevice(r)
         PROVE  Goal
    BY <1>5, <1>11 DEF Mint, AddStream, AddDevice, InFinish
  <1>12. ASSUME ServeGrant(r) \/ TakeGrant(r) PROVE Goal
    <2>1. n.at \in Keyed
      BY <1>0, <1>12 DEF ServeGrant, TakeGrant
    <2>2. \/ \E s \in Rest : SettlesOn(r, s)
          \/ MovesTo(r, n.life, "grant_answer", n.key, n.tag, n.code, n.mode)
      BY <1>0, <1>12, MintMoves
    <2> QED BY <1>0, <1>2, <1>4, <2>1, <2>2
  <1>13. ASSUME IssueRecoveryCode(r) PROVE Goal
    <2>1. n.at \in Keyed /\ n.life = "live"
      BY <1>0, <1>13 DEF IssueRecoveryCode, Live
    <2>2. \/ SettlesOn(r, "code")
          \/ \E k, t, c, m : MovesTo(r, n.life, "wrapping", k, t, c, m)
      BY <1>13, <2>1, BackupMoves
    <2> QED BY <1>0, <1>2, <1>4, <2>1, <2>2
  <1>14. ASSUME ServeWrap(r) PROVE Goal
    <2>1. n.at \in Keyed
      BY <1>0, <1>14 DEF ServeWrap
    <2>2. \/ SettlesOn(r, "code")
          \/ MovesTo(r, n.life, "wrap_answer", n.key, None, n.code, n.mode)
      BY <1>14, BackupMoves
    <2> QED BY <1>0, <1>2, <1>4, <2>1, <2>2
  <1>15. ASSUME TakeWrap(r) PROVE Goal
    <2>1. n.at \in Keyed /\ "shown" \notin InFinish
      BY <1>0, <1>15 DEF TakeWrap, InFinish
    <2> QED BY <1>3, <1>15, <2>1, BackupMoves
  <1>16. ASSUME Ambiguous(r) PROVE Goal
    BY <1>0, <1>2, <1>16, BackupMoves DEF Ambiguous
  <1>17. ASSUME Lock(r) PROVE Goal
    <2>1. moved.at = n.at /\ n.life = "live" /\ n.at \in Waiting \cup InFinish
      BY <1>17, BackupMoves DEF Lock, MovesTo
    <2> QED BY <1>0, <2>1 DEF Goal, AtWork
  <1>18. ASSUME ConfirmRecoveryCode(r) \/ Close(r) PROVE Goal
    BY <1>0, <1>18, BackupMoves, FreeRun DEF Goal, AtWork
  <1>19. Goal
    BY <1>6, <1>7, <1>8, <1>9, <1>10, <1>11, <1>12, <1>13, <1>14, <1>15, <1>16, <1>17, <1>18
       DEF Stepping
  <1> QED BY <1>19 DEF Goal

\* No step forgets that runs came side by side.
LEMMA ApartBefore ==
    ASSUME NEW r \in Run, Stepping(r)
    PROVE  (Apart' => Apart) /\ (Alone' => Alone) /\ (Alone => Apart)
  BY CrossSteps DEF Apart, Alone

\* Inside finish a profile has one run.
LEMMA FinishStep ==
    ASSUME SetupTypeOK, RunShape, FinishAlone, NEW r \in Run, Stepping(r), Apart'
    PROVE  FinishAlone'
  <1>1. \A q \in Run : q # r => runs'[q] = runs[q]
    BY StepMoves, RunTypes DEF OneMoves
  <1>2. ASSUME NEW q \in Run, q # r, q[1] = r[1], runs'[r].at \in InFinish,
               runs'[q].at \in InFinish
        PROVE  FALSE
    <2>1. runs[q].at \in InFinish
      BY <1>1, <1>2
    <2>2. CASE runs[r].at \in InFinish
      BY <1>2, <2>1, <2>2 DEF FinishAlone
    <2>3. CASE Finish(r)
      <3>1. "finish" \notin crossed'
        BY DEF Apart
      <3>2. ~(\E x \in Beside(r) : runs[x].at \in InFinish)
        BY <1>2, <2>3, <3>1 DEF Finish, Cross
      <3> QED BY <1>2, <2>1, <3>2 DEF Beside
    <2> QED BY <1>2, <2>2, <2>3, WorkStep
  <1>3. ASSUME NEW x \in Run, NEW q \in Run, x[1] = q[1], runs'[x].at \in InFinish,
               runs'[q].at \in InFinish, x # q
        PROVE  FALSE
    <2>1. CASE x = r
      BY <1>2, <1>3, <2>1
    <2>2. CASE q = r
      BY <1>2, <1>3, <2>2
    <2>3. CASE x # r /\ q # r
      BY <1>1, <1>3, <2>3 DEF FinishAlone
    <2> QED BY <2>1, <2>2, <2>3
  <1> QED BY <1>3 DEF FinishAlone, InFinish

\* A record that is there was there with its key and its master, or it was sealed just now,
\* or its master was minted.
LEMMA RecordKeeps ==
    ASSUME SetupTypeOK, RunShape, NEW r \in Run, Stepping(r), NEW p \in Profile, record'[p] # None
    PROVE  \/ /\ record[p] # None /\ record'[p].key = record[p].key
              /\ \/ record'[p].grant = record[p].grant
                 \/ /\ p = r[1]
                    /\ \E t \in Scope : /\ Mint(r, t) /\ t \in FreshTags
                                        /\ record'[p].grant = t
           \/ /\ p = r[1]
              /\ \E d \in Device : /\ SealVault(r, d)
                                   /\ record'[p].key = d /\ record'[p].grant = None
                                   /\ record'[p].stage = "keys_created"
                                   /\ record'[p].mode = None
  <1>0. record \in [Profile -> Record \cup {None}] /\ r[1] \in Profile
    BY RunTypes DEF SetupTypeOK
  <1>1. CASE p # r[1]
    BY <1>1, RecordStep
  <1>2. CASE p = r[1]
    <2>1. CASE UNCHANGED record
      BY <2>1
    <2>2. CASE Wipes(r)
      BY <1>0, <1>2, <2>2 DEF Wipes
    <2>3. CASE Seals(r)
      <3>1. PICK d \in Device : SealVault(r, d) /\ record' = [record EXCEPT ![p] =
               [key |-> d, stage |-> "keys_created", mode |-> None, at |-> now, grant |-> None]]
        BY <1>2, <2>3 DEF Seals
      <3>2. record'[p] = [key |-> d, stage |-> "keys_created", mode |-> None, at |-> now,
                          grant |-> None]
        BY <1>0, <3>1
      <3> QED BY <1>2, <3>1, <3>2
    <2>4. CASE Restages(r)
      <3>1. PICK s \in Stage, m \in Mode : RecordStage(p, s, m)
        BY <1>2, <2>4 DEF Restages
      <3> QED BY <1>2, <2>4, <3>1, Restaged DEF Restages
    <2>5. CASE Mints(r)
      <3>1. PICK t \in Scope : /\ Mint(r, t) /\ t \in FreshTags
                               /\ record' = [record EXCEPT ![p].grant = t]
        BY <1>2, <2>5 DEF Mints
      <3> QED BY <1>2, <2>5, <3>1, Regranted DEF Mints
    <2> QED BY <2>1, <2>2, <2>3, <2>4, <2>5, RecordSteps
  <1> QED BY <1>1, <1>2

\* What makes a key and a tag fresh.
LEMMA Fresh ==
    /\ \A d \in FreshKeys : /\ d \in Device /\ status[d] = "none"
                            /\ \A p \in Profile : record[p] # None => record[p].key # d
                            /\ \A r \in Run : runs[r].key # d
    /\ \A s \in FreshTags : /\ s \in Scope /\ kind[s] = "none"
                            /\ \A t \in Scope : s \notin manifest[t].streams
                            /\ \A p \in Profile : record[p] # None => record[p].grant # s
                            /\ \A r \in Run : runs[r].tag # s
  BY DEF FreshKeys, FreshTags

\* A key belongs to one profile, whatever it seals, resumes or wipes.
LEMMA KeysStep ==
    ASSUME SetupTypeOK, RunShape, KeysApart, NEW r \in Run, Stepping(r)
    PROVE  KeysApart'
  <1>0. r[1] \in Profile /\ \A q \in Run : q # r => runs'[q] = runs[q]
    BY StepMoves, RunTypes DEF OneMoves
  <1>f. \A d \in Device : SealVault(r, d) => d \in FreshKeys
    BY DEF SealVault
  <1>1. ASSUME NEW p \in Profile, record'[p] # None
        PROVE  \/ record[p] # None /\ record'[p].key = record[p].key
               \/ p = r[1] /\ record'[p].key \in FreshKeys
    BY <1>1, <1>f, RecordKeeps
  <1>2. ASSUME NEW q \in Run
        PROVE  \/ runs'[q].key \in {None, runs[q].key}
               \/ q = r /\ runs'[q].key \in FreshKeys
               \/ q = r /\ record[r[1]] # None /\ runs'[q].key = record[r[1]].key
    <2>1. CASE q # r
      BY <1>0, <2>1
    <2>2. CASE q = r /\ Keeps(r)
      BY <1>f, <2>2 DEF Keeps
    <2>3. CASE q = r /\ ReadDeviceStatus(r)
      BY <2>3, OpenMoves DEF MovesTo
    <2> QED BY <2>1, <2>2, <2>3, StepKeeps
  <1>3. ASSUME NEW p \in Profile, NEW q \in Run, record'[p] # None, runs'[q].key = record'[p].key
        PROVE  q[1] = p
    <2>1. runs'[q].key # None
      <3>1. record'[p].key \in Device
        BY <1>3, RecordStep DEF Record
      <3> QED BY <1>3, <3>1, NoneIsNothing
    <2>2. CASE record[p] # None /\ record'[p].key = record[p].key
      <3>1. CASE runs'[q].key = runs[q].key
        BY <1>3, <2>2, <3>1 DEF KeysApart
      <3>2. CASE q = r /\ runs'[q].key \in FreshKeys
        BY <1>3, <2>2, <3>2, Fresh
      <3>3. CASE q = r /\ record[r[1]] # None /\ runs'[q].key = record[r[1]].key
        BY <1>0, <1>3, <2>2, <3>3 DEF KeysApart
      <3> QED BY <1>2, <2>1, <3>1, <3>2, <3>3
    <2>3. CASE p = r[1] /\ record'[p].key \in FreshKeys
      <3>1. CASE runs'[q].key = runs[q].key
        BY <1>3, <2>3, <3>1, Fresh
      <3>2. CASE q = r
        BY <2>3, <3>2
      <3> QED BY <1>2, <2>1, <3>1, <3>2
    <2> QED BY <1>1, <1>3, <2>2, <2>3
  <1>4. ASSUME NEW p \in Profile, NEW q \in Profile, record'[p] # None, record'[q] # None,
               record'[p].key = record'[q].key
        PROVE  p = q
    <2>1. CASE record[p] # None /\ record'[p].key = record[p].key
      <3>1. CASE record[q] # None /\ record'[q].key = record[q].key
        BY <1>4, <2>1, <3>1 DEF KeysApart
      <3>2. CASE record'[q].key \in FreshKeys
        BY <1>4, <2>1, <3>2, Fresh
      <3> QED BY <1>1, <1>4, <3>1, <3>2
    <2>2. CASE p = r[1] /\ record'[p].key \in FreshKeys
      <3>1. CASE record[q] # None /\ record'[q].key = record[q].key
        BY <1>4, <2>2, <3>1, Fresh
      <3>2. CASE q = r[1]
        BY <2>2, <3>2
      <3> QED BY <1>1, <1>4, <3>1, <3>2
    <2> QED BY <1>1, <1>4, <2>1, <2>2
  <1> QED BY <1>3, <1>4 DEF KeysApart

\* A stream of a manifest stays apart from every master, minted, stored, carried or granted.
LEMMA StreamsStep ==
    ASSUME SetupTypeOK, RunShape, StreamsApart, NEW r \in Run, Stepping(r)
    PROVE  StreamsApart'
  <1> DEFINE Far(t, s) == /\ manifest'[t].streams = {s}
                          /\ kind'[s] # "master"
                          /\ \A p \in Profile : record'[p] # None => record'[p].grant # s
                          /\ \A q \in Run : runs'[q].tag # s
  <1>0. /\ r[1] \in Profile /\ \A q \in Run : q # r => runs'[q] = runs[q]
        /\ manifest \in [Scope -> [streams : SUBSET Scope, devices : SUBSET Device]]
    BY StepMoves, RunTypes DEF OneMoves, SetupTypeOK
  <1>1. ASSUME NEW t \in Scope, NEW s \in manifest[t].streams PROVE Far(t, s)
    <2>1. /\ manifest[t].streams = {s} /\ kind[s] # "master" /\ s \in Scope /\ s # None
          /\ \A p \in Profile : record[p] # None => record[p].grant # s
          /\ \A q \in Run : runs[q].tag # s
      BY <1>0, <1>1, NoneIsNothing DEF StreamsApart
    <2>2. manifest'[t].streams = {s}
      BY <2>1, GrowsStep DEF Grows
    <2>3. kind'[s] # "master"
      BY <2>1, AccessStep, GrantWrites
    <2>4. ASSUME NEW p \in Profile, record'[p] # None PROVE record'[p].grant # s
      BY <1>1, <2>1, <2>4, RecordKeeps, Fresh
    <2>5. ASSUME NEW q \in Run PROVE runs'[q].tag # s
      <3>1. CASE q # r
        BY <1>0, <2>1, <3>1
      <3>2. CASE q = r /\ Keeps(r)
        BY <1>0, <1>1, <2>1, <3>2, Fresh DEF Keeps
      <3>3. CASE q = r /\ ReadDeviceStatus(r)
        BY <2>1, <3>3, OpenMoves DEF MovesTo
      <3> QED BY <3>1, <3>2, <3>3, StepKeeps
    <2> QED BY <2>2, <2>3, <2>4, <2>5
  <1>2. ASSUME NEW t \in Scope, NEW s \in manifest'[t].streams, s \notin manifest[t].streams
        PROVE  Far(t, s)
    <2>1. PICK x \in Scope : AddStream(r, x)
      <3>1. AddDevice(r) => FALSE
        <4>1. AddDevice(r) => runs[r].tag \in Scope
          BY DEF AddDevice, Live, RunShape, Shape, Tagged
        <4> QED BY <1>0, <1>2, <4>1, ManifestWrites
      <3> QED BY <1>2, <3>1, ManifestStep
    <2>2. /\ runs[r].tag \in Scope /\ manifest[runs[r].tag].streams = {} /\ x \in FreshTags
          /\ UNCHANGED <<kind, record>>
      BY <2>1 DEF AddStream, Live, ActiveStreams, RunShape, Shape, Tagged, storeVars, scopeVars
    <2>3. /\ manifest' = [manifest EXCEPT ![runs[r].tag] = manifest'[runs[r].tag]]
          /\ manifest'[runs[r].tag].streams = manifest[runs[r].tag].streams \cup {x}
      BY <2>1, <2>2, ManifestWrites
    <2>4. t = runs[r].tag /\ s = x
      BY <1>0, <1>2, <2>2, <2>3
    <2>5. \A q \in Run : runs'[q].tag = runs[q].tag
      BY <1>0, <2>1, MintMoves DEF MovesTo
    <2>6. kind'[s] # "master"
      BY <2>2, <2>4, Fresh
    <2>7. \A p \in Profile : record'[p] # None => record'[p].grant # s
      BY <2>2, <2>4, Fresh
    <2>8. \A q \in Run : runs'[q].tag # s
      BY <2>2, <2>4, <2>5, Fresh
    <2>9. manifest'[t].streams = {s}
      BY <2>2, <2>3, <2>4
    <2> QED BY <2>6, <2>7, <2>8, <2>9
  <1> QED BY <1>1, <1>2 DEF StreamsApart

\* The wrap is of a master.
LEMMA WrapStep ==
    ASSUME SetupTypeOK, RunShape, RunsFit, WrapIsMaster, NEW r \in Run, Stepping(r)
    PROVE  WrapIsMaster'
  <1>1. \A t \in Scope : kind[t] = "master" => kind'[t] = "master"
    BY GrowsStep DEF Grows
  <1>2. CASE UNCHANGED wrap
    <2>1. wrap # None => wrap.tag \in Scope /\ kind[wrap.tag] = "master"
      BY DEF WrapIsMaster, Masters
    <2> QED BY <1>1, <1>2, <2>1 DEF WrapIsMaster, Masters
  <1>3. CASE ServeWrap(r)
    <2>1. /\ runs[r].tag \in Scope /\ kind[runs[r].tag] = "master"
          /\ runs[r].code \in Recovery
      BY <1>3 DEF ServeWrap, RunShape, Shape, Tagged, Coded, RunsFit, RunFits, SentFits
    <2>2. wrap' = wrap \/ wrap' = WrapOf(runs[r])
      BY <1>3, BackupMoves
    <2>3. CASE wrap' = WrapOf(runs[r])
      <3>1. wrap'.tag = runs[r].tag
        BY <2>1, <2>3, WrapFields
      <3> QED BY <1>1, <2>1, <3>1 DEF WrapIsMaster, Masters
    <2> QED BY <1>2, <2>2, <2>3
  <1> QED BY <1>2, <1>3, WrapCalls

\* Who mints is at work.
LEMMA MintAtWork ==
    ASSUME SetupTypeOK, RunShape, NEW r \in Run, NEW t, Mint(r, t)
    PROVE  runs[r].at = "mint" /\ AtWork(runs[r])
  <1>1. runs[r].at = "mint" /\ runs[r].at \in Keyed /\ runs[r].at \in InFinish
    BY DEF Mint, Keyed, InFinish
  <1>2. runs[r].life \in {"live", "locked"}
    BY <1>1, KeyedRun, RunTypes DEF RunRec
  <1> QED BY <1>1, <1>2 DEF AtWork

\* The runs that do not move go on fitting their records.
LEMMA OthersFit ==
    ASSUME SetupTypeOK, RunShape, FinishAlone, RunsFit, NEW r \in Run, Stepping(r), Apart',
           NEW q \in Run, q # r
    PROVE  RunFitsNext(runs'[q], record'[q[1]])
  <1>0. /\ r[1] \in Profile /\ q[1] \in Profile /\ runs'[q] = runs[q] /\ runs[q] \in RunRec
        /\ Shape(runs[q]) /\ record[q[1]] \in Record \cup {None}
    BY StepMoves, RunTypes DEF OneMoves, SetupTypeOK, RunShape
  <1>1. RunFits(runs[q], record[q[1]]) /\ Grows
    BY GrowsStep DEF RunsFit
  <1>2. RunFitsNext(runs[q], record[q[1]])
    BY <1>0, <1>1, StillFits
  <1>3. CASE record'[q[1]] = record[q[1]]
    BY <1>0, <1>2, <1>3
  \* A run that is not at work needs of the record no more than its own tag.
  <1>4. ASSUME ~AtWork(runs[q]), TagFits(runs[q], record'[q[1]])
        PROVE  RunFitsNext(runs'[q], record'[q[1]])
    BY <1>0, <1>2, <1>4 DEF RunFitsNext
  <1>5. CASE q[1] = r[1] /\ Wipes(r)
    <2>1. ~AtWork(runs[q])
      <3>1. "wipe" \notin crossed'
        BY DEF Apart
      <3>2. ~(\E x \in Beside(r) : AtWork(runs[x]))
        BY <1>5, <3>1 DEF Wipes, Wipe, Cross
      <3> QED BY <1>5, <3>2 DEF Beside
    <2>2. record'[q[1]] = None
      BY <1>0, <1>5 DEF SetupTypeOK, Wipes
    <2> QED BY <1>4, <2>1, <2>2 DEF TagFits
  <1>6. CASE q[1] = r[1] /\ Seals(r)
    <2>0. PICK d \in Device : SealVault(r, d)
      BY <1>6 DEF Seals
    <2>1. record[q[1]] = None /\ d \in FreshKeys
      BY <1>6, <2>0 DEF SealVault
    <2>2. record'[q[1]].key = d
      <3>1. record'[q[1]] = [key |-> d, stage |-> "keys_created", mode |-> None, at |-> now,
                             grant |-> None]
        BY <1>0, <1>6, <2>0 DEF SealVault, SetupTypeOK
      <3> QED BY <3>1
    <2>3. runs[q].key # d
      BY <2>1, Fresh
    <2>4. TagFits(runs[q], record'[q[1]]) /\ SentFitsNext(runs[q])
      BY <1>2, <2>2, <2>3 DEF TagFits, RunFitsNext
    <2>5. ASSUME AtWork(runs[q]) PROVE WorkFitsNext(runs[q], record'[q[1]])
      <3>1. runs[q].at \notin Keyed
        BY <1>2, <2>1, <2>5 DEF RunFitsNext, WorkFitsNext, Stands
      <3> QED BY <3>1 DEF WorkFitsNext, Stands, Keyed, Waiting
    <2> QED BY <1>0, <2>4, <2>5 DEF RunFitsNext
  <1>7. CASE q[1] = r[1] /\ Restages(r)
    <2> DEFINE rec == record[q[1]]
               new == record'[q[1]]
    <2>0. PICK s \in Stage, m \in Mode : RecordStage(q[1], s, m)
      BY <1>7 DEF Restages
    <2>1. /\ rec # None
          /\ new # None /\ new.key = rec.key /\ new.grant = rec.grant
      BY <1>0, <1>7, <2>0, Restaged DEF Restages
    <2>2. SentFitsNext(runs[q]) /\ TagFits(runs[q], new)
      BY <1>2, <2>1 DEF RunFitsNext, TagFits
    <2>3. ASSUME AtWork(runs[q]) PROVE WorkFitsNext(runs[q], new)
      <3>1. WorkFitsNext(runs[q], rec)
        BY <1>2, <2>3 DEF RunFitsNext
      <3>2. Stands(runs[q], new)
        BY <2>1, <3>1 DEF WorkFitsNext, Stands
      <3>3. BackedNext(rec) => BackedNext(new)
        BY <2>1 DEF BackedNext
      <3> QED BY <3>1, <3>2, <3>3 DEF WorkFitsNext
    <2> QED BY <1>0, <2>2, <2>3 DEF RunFitsNext
  <1>8. CASE q[1] = r[1] /\ Mints(r)
    <2>0. PICK t \in Scope : Mint(r, t) /\ record' = [record EXCEPT ![q[1]].grant = t]
      BY <1>8 DEF Mints
    <2>1. runs[r].at = "mint" /\ AtWork(runs[r]) /\ record[q[1]] # None
      BY <1>8, <2>0, MintAtWork DEF Mint, Mints
    <2>2. record[q[1]].grant = None /\ None \notin Scope
      BY <1>8, <2>1, NoneIsNothing DEF RunsFit, RunFits, WorkFits
    <2>3. /\ record'[q[1]].key = record[q[1]].key /\ record'[q[1]] # None
      BY <1>0, <2>0, <2>1, Regranted
    <2>4. TagFits(runs[q], record[q[1]]) /\ SentFitsNext(runs[q])
      BY <1>2 DEF RunFitsNext
    <2>5. TagFits(runs[q], record'[q[1]])
      BY <2>1, <2>2, <2>3, <2>4 DEF TagFits
    <2>6. ASSUME AtWork(runs[q]) PROVE WorkFitsNext(runs[q], record'[q[1]])
      <3>1. runs[q].at # "mint"
        BY <1>8, <2>1 DEF FinishAlone, InFinish
      <3>2. WorkFits(runs[q], record[q[1]])
        BY <1>1, <2>6 DEF RunFits
      <3>3. runs[q].at \notin {"backup", "shown", "wrapping", "wrap_answer"}
        BY <2>2, <3>2 DEF WorkFits, Backed
      <3> QED BY <2>3, <3>1, <3>2, <3>3 DEF WorkFits, WorkFitsNext, Stands
    <2> QED BY <1>0, <2>4, <2>5, <2>6 DEF RunFitsNext
  <1> QED BY <1>0, <1>3, <1>5, <1>6, <1>7, <1>8, RecordStep, RecordSteps

\* The run that moves fits the record it leaves.
LEMMA OwnFits ==
    ASSUME SetupTypeOK, RunShape, RunsFit, RecordsFit, NEW r \in Run, Stepping(r)
    PROVE  RunFitsNext(runs'[r], record'[r[1]])
  <1> DEFINE n == runs[r]
             rec == record[r[1]]
             new == record'[r[1]]
             moved == runs'[r]
             Goal == RunFitsNext(moved, new)
  <1>0. /\ r[1] \in Profile /\ n \in RunRec /\ Shape(n) /\ rec \in Record \cup {None}
        /\ new \in Record \cup {None}
    BY RunTypes, RecordStep DEF SetupTypeOK, RunShape
  <1>1. Grows
    BY GrowsStep
  <1>2. /\ RunFits(n, rec) /\ TagFits(n, rec) /\ SentFits(n)
        /\ AtWork(n) => WorkFits(n, rec)
        /\ rec # None => StageFits(rec)
    BY <1>0 DEF RunsFit, RunFits, RecordsFit
  <1>3. ASSUME AtWork(n), n.at \in Keyed
        PROVE  rec # None /\ rec \in Record /\ rec.key = n.key
    BY <1>0, <1>2, <1>3 DEF WorkFits
  <1>w. ASSUME n.life = "live", n.at \in Keyed PROVE AtWork(n)
    BY <1>w DEF AtWork, Keyed, Waiting
  <1>4. UNCHANGED record => new = rec
    OBVIOUS
  \* A run that settles to try again, or to go on.
  <1>5. ASSUME NEW s \in {"code", "finish", "stopped"}, SettlesOn(r, s),
               n.life = "live" => new # None /\ new.key = n.key
        PROVE  Goal
    <2>1. CASE n.life = "live"
      <3>1. MovesTo(r, "live", s, n.key, None, None, None)
        BY <1>5, <2>1 DEF SettlesOn
      <3>2. s \in Rest
        BY DEF Rest
      <3> QED BY <1>5, <2>1, <3>1, <3>2, ScreenFits
    <2>2. CASE n.life # "live"
      BY <1>5, <2>2, FreeFits DEF SettlesOn
    <2> QED BY <2>1, <2>2
  \* The same, when the record stays.
  <1>6. ASSUME NEW s \in {"code", "finish", "stopped"}, SettlesOn(r, s), n.at \in Keyed,
               UNCHANGED record
        PROVE  Goal
    BY <1>3, <1>w, <1>4, <1>5, <1>6
  \* Requests and answers of the redeem.
  <1>7. ASSUME NEW a \in {"listing", "listed", "redeeming", "redeem_answer"}, NEW c, NEW m,
               MovesTo(r, n.life, a, n.key, n.tag, c, m), n.at \in Keyed, UNCHANGED record
        PROVE  Goal
    <2>1. moved.life = n.life /\ moved.at = a /\ moved.key = n.key /\ moved.tag = n.tag
      BY <1>7 DEF MovesTo
    <2>2. TagFits(moved, new) /\ SentFitsNext(moved)
      BY <1>2, <1>4, <1>7, <2>1 DEF TagFits, SentFitsNext
    <2>3. ASSUME AtWork(moved) PROVE WorkFitsNext(moved, new)
      <3>1. AtWork(n)
        BY <1>w, <1>7, <2>1, <2>3 DEF AtWork, InFinish
      <3> QED BY <1>3, <1>4, <1>7, <2>1, <3>1 DEF WorkFitsNext, Stands
    <2> QED BY <2>1, <2>2, <2>3 DEF RunFitsNext
  <1>8. /\ Waiting \subseteq Keyed
        /\ {"code", "finish", "mint", "manifest", "naming", "backup", "shown"} \subseteq Keyed
        /\ {"listing", "listed", "redeeming", "redeem_answer", "granting", "grant_answer",
            "wrapping", "wrap_answer"} \subseteq Waiting
    BY DEF Waiting, Keyed
  <1> HIDE DEF Goal
  <1>9. ASSUME ReadDeviceStatus(r) PROVE Goal
    <2>1. new = rec
      BY <1>9 DEF ReadDeviceStatus
    <2>2. CASE rec = None /\ MovesTo(r, "live", "welcome", None, None, None, None)
      <3>1. "welcome" \in Rest /\ "welcome" \notin Keyed
        BY DEF Rest, Keyed, Waiting
      <3> QED BY <2>1, <2>2, <3>1, ScreenFits DEF Goal
    <2>3. CASE MovesTo(r, "live", "wiping", None, None, None, None)
      <3>1. moved.at = "wiping" /\ moved.key = None /\ moved.tag = None /\ moved.tag \notin Scope
        BY <2>3, NoneIsNothing DEF MovesTo
      <3>2. "wiping" \notin Keyed
        BY DEF Keyed, Waiting
      <3> QED BY <3>1, <3>2
              DEF Goal, RunFitsNext, WorkFitsNext, Stands, TagFits, SentFitsNext
    <2>4. CASE /\ rec # None /\ rec.stage # "done"
               /\ \/ MovesTo(r, "live", "code", rec.key, None, None, None)
                  \/ MovesTo(r, "live", "finish", rec.key, None, None, None)
      <3>1. "code" \in Rest /\ "finish" \in Rest
        BY DEF Rest
      <3> QED BY <2>1, <2>4, <3>1, ScreenFits DEF Goal
    <2>5. CASE /\ rec # None /\ rec.stage \in {"scopes_granted", "recovery_pending"}
               /\ MovesTo(r, "live", "backup", rec.key, None, None, None)
      <3>1. BackedNext(rec)
        BY <1>0, <1>1, <1>2, <2>5, BackedStays DEF StageFits
      <3>2. "backup" \in Rest
        BY DEF Rest
      <3> QED BY <2>1, <2>5, <3>1, <3>2, ScreenFits DEF Goal
    <2> QED BY <1>9, <2>2, <2>3, <2>4, <2>5, OpenMoves
  <1>10. ASSUME Wipe(r) PROVE Goal
    <2>1. new = None
      BY <1>0, <1>10 DEF Wipe, SetupTypeOK
    <2>2. "welcome" \in Rest /\ "welcome" \notin Keyed
      BY DEF Rest, Keyed, Waiting
    <2>3. MovesTo(r, "live", "welcome", n.key, None, None, None)
      BY <1>10, SealMoves
    <2> QED BY <2>1, <2>2, <2>3, ScreenFits DEF Goal
  <1>11. ASSUME CreatePasskey(r) PROVE Goal
    <2>2. "passkey" \in Rest /\ "passkey" \notin Keyed
      BY DEF Rest, Keyed, Waiting
    <2>3. MovesTo(r, "live", "passkey", n.key, None, None, None)
      BY <1>11, SealMoves
    <2> QED BY <2>2, <2>3, ScreenFits DEF Goal
  <1>12. ASSUME NEW d \in Device, SealVault(r, d) PROVE Goal
    <2>1. new = [key |-> d, stage |-> "keys_created", mode |-> None, at |-> now, grant |-> None]
      BY <1>0, <1>12 DEF SealVault, SetupTypeOK
    <2>2. new # None /\ new.key = d
      BY <1>0, <2>1, NoneIsNothing DEF Record, Stage, SetupTypeOK, StoreTypeOK
    <2>3. n.tag = None
      BY <1>0, <1>12 DEF SealVault, Live, Shape
    <2>4. MovesTo(r, "live", "code", d, None, n.code, n.mode)
      BY <1>12, <2>3, SealMoves
    <2>5. "code" \in Rest
      BY DEF Rest
    <2> QED BY <2>2, <2>4, <2>5, ScreenFits DEF Goal
  <1>13. ASSUME Redeem(r) PROVE Goal
    <2>1. n.at \in Keyed /\ UNCHANGED record
      BY <1>8, <1>13 DEF Redeem, Live
    <2>2. \/ SettlesOn(r, "finish") \/ SettlesOn(r, "stopped")
          \/ MovesTo(r, n.life, "listing", n.key, n.tag, n.code, n.mode)
      BY <1>13, RedeemMoves
    <2> QED BY <1>6, <1>7, <2>1, <2>2
  <1>14. ASSUME ServeList(r) \/ ServeRedeem(r) PROVE Goal
    <2>1. n.at \in Keyed /\ UNCHANGED record
      BY <1>8, <1>14 DEF ServeList, ServeRedeem
    <2>2. ServeList(r) => \E m : MovesTo(r, n.life, "listed", n.key, n.tag, n.code, m)
      BY RedeemMoves
    <2>3. ServeRedeem(r) => \E m : MovesTo(r, n.life, "redeem_answer", n.key, n.tag, None, m)
      BY RedeemMoves
    <2> QED BY <1>7, <1>14, <2>1, <2>2, <2>3
  <1>15. ASSUME NEW m \in Mode, Learns(r, m), n.at \in Keyed PROVE Goal
    <2>1. CASE SettlesOn(r, "code") /\ UNCHANGED record
      BY <1>6, <1>15, <2>1
    <2>2. CASE /\ rec # None /\ RecordStage(r[1], "redeemed", m)
               /\ SettlesOn(r, "finish") \/ SettlesOn(r, "stopped")
      <3>1. new # None /\ new.key = rec.key
        <4>1. "redeemed" \in Stage
          BY DEF Stage
        <4> QED BY <1>0, <2>2, <4>1, Restaged
      <3> QED BY <1>3, <1>w, <1>5, <1>15, <2>2, <3>1
    <2> QED BY <1>15, <2>1, <2>2 DEF Learns
  <1>16. ASSUME TakeList(r) PROVE Goal
    <2>1. n.at \in Keyed /\ n.mode \in Mode \cup {None}
      BY <1>0, <1>8, <1>16 DEF TakeList, Shape
    <2>2. CASE n.mode # None /\ Learns(r, n.mode)
      BY <1>15, <2>1, <2>2
    <2>3. CASE SettlesOn(r, "code") /\ UNCHANGED record
      BY <1>6, <2>1, <2>3
    <2>4. ASSUME NEW c \in Code, UNCHANGED record,
                 MovesTo(r, n.life, "redeeming", n.key, n.tag, c, n.mode)
          PROVE  Goal
      BY <1>7, <2>1, <2>4
    <2> QED BY <1>16, <2>2, <2>3, <2>4, RedeemMoves
  <1>17. ASSUME TakeRedeem(r) PROVE Goal
    <2>1. n.at \in Keyed /\ n.mode \in Mode \cup {"refused"}
      BY <1>0, <1>8, <1>17 DEF TakeRedeem, Shape
    <2>2. CASE n.mode # "refused" /\ Learns(r, n.mode)
      BY <1>15, <2>1, <2>2
    <2>3. CASE SettlesOn(r, "code") /\ UNCHANGED record
      BY <1>6, <2>1, <2>3
    <2> QED BY <1>17, <2>2, <2>3, RedeemMoves
  <1>18. ASSUME Finish(r) PROVE Goal
    <2>0. n.life = "live" /\ n.at = "finish" /\ n.at \in Keyed /\ UNCHANGED record /\ new = rec
      BY <1>8, <1>18 DEF Finish, Live
    <2>1. rec # None /\ rec \in Record /\ rec.key = n.key
      BY <1>3, <1>w, <2>0
    <2>2. CASE SettlesOn(r, "code")
      BY <1>6, <2>0, <2>2
    <2>3. CASE rec.mode = "first" /\ rec.stage # "redeemed" /\ SettlesOn(r, "backup")
      <3>1. rec.stage \in {"scopes_granted", "recovery_pending", "done"}
        <4>1. rec.stage \in Stage
          BY <2>1 DEF Record
        <4>2. rec.stage # "keys_created"
          BY <1>2, <2>1, <2>3, NoneIsNothing DEF StageFits, Mode
        <4> QED BY <2>1, <2>3, <4>1, <4>2 DEF Stage
      <3>2. BackedNext(rec)
        BY <1>1, <1>2, <2>1, <3>1, BackedStays DEF StageFits
      <3>3. MovesTo(r, "live", "backup", n.key, None, None, None)
        BY <2>0, <2>3 DEF SettlesOn
      <3>4. "backup" \in Rest
        BY DEF Rest
      <3> QED BY <2>0, <2>1, <3>2, <3>3, <3>4, ScreenFits DEF Goal
    <2>4. CASE /\ rec.stage = "redeemed" /\ rec.grant = None
               /\ MovesTo(r, "live", "mint", n.key, None, n.code, n.mode)
      <3>1. moved.at = "mint" /\ moved.key = n.key /\ moved.tag = None /\ moved.tag \notin Scope
        BY <2>4, NoneIsNothing DEF MovesTo
      <3> QED BY <2>0, <2>1, <2>4, <3>1
              DEF Goal, RunFitsNext, WorkFitsNext, Stands, TagFits, SentFitsNext
    <2>5. CASE /\ rec.stage = "redeemed" /\ rec.grant \in Scope
               /\ MovesTo(r, "live", "manifest", n.key, rec.grant, n.code, n.mode)
      <3>1. moved.at = "manifest" /\ moved.key = n.key /\ moved.tag = rec.grant
        BY <2>5 DEF MovesTo
      <3> QED BY <2>0, <2>1, <2>5, <3>1
              DEF Goal, RunFitsNext, WorkFitsNext, Stands, TagFits, SentFitsNext
    <2> QED BY <1>18, <2>2, <2>3, <2>4, <2>5, MintMoves
  <1>19. ASSUME NEW t \in Scope, Mint(r, t) PROVE Goal
    <2>0. AtWork(n) /\ n.at = "mint" /\ n.at \in Keyed
      BY <1>8, <1>19, MintAtWork
    <2>1. rec # None /\ rec \in Record /\ rec.key = n.key
      BY <1>3, <2>0
    <2>2. CASE UNCHANGED record /\ SettlesOn(r, "code")
      BY <1>6, <2>0, <2>2
    <2>3. CASE /\ record' = [record EXCEPT ![r[1]].grant = t]
               /\ MovesTo(r, "live", "manifest", n.key, t, n.code, n.mode)
      <3>1. new # None /\ new.key = rec.key /\ new.grant = t
        BY <1>0, <2>1, <2>3, Regranted
      <3>2. moved.at = "manifest" /\ moved.key = n.key /\ moved.tag = t
        BY <2>3 DEF MovesTo
      <3> QED BY <2>1, <3>1, <3>2
              DEF Goal, RunFitsNext, WorkFitsNext, Stands, TagFits, SentFitsNext
    <2>4. CASE OneMoves(r) /\ moved = NoRun
      BY <2>4, FreeFits DEF Goal
    <2> QED BY <1>19, <2>2, <2>3, <2>4, MintMoves DEF GoesOn
  \* The manifest and the requests that follow it, as long as the record stays.
  <1>20. ASSUME NEW a \in {"naming", "granting", "grant_answer"},
                MovesTo(r, n.life, a, n.key, n.tag, n.code, n.mode), UNCHANGED record,
                n.at \in {"manifest", "naming", "granting"}, SentFitsNext(moved),
                a = "naming" => n.at = "manifest"
         PROVE  Goal
    <2>1. moved.life = n.life /\ moved.at = a /\ moved.key = n.key /\ moved.tag = n.tag
      BY <1>20 DEF MovesTo
    <2>2. n.at \in Keyed
      BY <1>8, <1>20
    <2>3. TagFits(moved, new)
      BY <1>2, <1>4, <1>20, <2>1 DEF TagFits
    <2>4. ASSUME AtWork(moved) PROVE WorkFitsNext(moved, new)
      <3>1. AtWork(n)
        BY <1>w, <1>20, <2>1, <2>2, <2>4 DEF AtWork, InFinish
      <3>2. rec # None /\ rec.key = n.key
        BY <1>3, <2>2, <3>1
      <3> QED BY <1>4, <1>20, <2>1, <3>2 DEF WorkFitsNext, Stands
    <2> QED BY <1>20, <2>1, <2>3, <2>4 DEF Goal, RunFitsNext
  <1>21. ASSUME NEW s \in Scope, AddStream(r, s) PROVE Goal
    <2>1. n.at = "manifest" /\ n.tag \in Scope /\ UNCHANGED record
      BY <1>0, <1>21 DEF AddStream, Shape, Tagged
    <2>2. MovesTo(r, n.life, "naming", n.key, n.tag, n.code, n.mode)
      BY <1>21, <2>1, MintMoves
    <2>3. manifest'[n.tag].streams # {}
      BY <1>21, <2>1, ManifestWrites
    <2>4. SentFitsNext(moved)
      BY <2>2, <2>3 DEF SentFitsNext, MovesTo
    <2> QED BY <1>20, <2>1, <2>2, <2>4
  <1>22. ASSUME AddDevice(r) PROVE Goal
    <2>1. n.at \in {"manifest", "naming"} /\ n.tag \in Scope /\ UNCHANGED record
      BY <1>0, <1>22 DEF AddDevice, Shape, Tagged
    <2>2. \/ MovesTo(r, n.life, "granting", n.key, n.tag, n.code, n.mode)
          \/ moved = NoRun
      BY <1>22, MintMoves DEF GoesOn
    <2>3. manifest[n.tag].streams # {}
      BY <1>2, <1>22, <2>1 DEF AddDevice, ActiveStreams, SentFits
    <2>4. manifest'[n.tag].streams # {} /\ n.key \in manifest'[n.tag].devices
      BY <1>22, <2>1, <2>3, ManifestWrites
    <2>5. CASE MovesTo(r, n.life, "granting", n.key, n.tag, n.code, n.mode)
      <3>1. SentFitsNext(moved)
        BY <2>4, <2>5 DEF SentFitsNext, MovesTo
      <3> QED BY <1>20, <2>1, <2>5, <3>1
    <2> QED BY <2>2, <2>5, FreeFits DEF Goal
  <1>23. ASSUME ServeGrant(r) PROVE Goal
    <2>1. /\ n.at = "granting" /\ n.at \in Keyed /\ n.tag \in Scope /\ n.key \in Device
          /\ UNCHANGED <<record, manifest>>
      BY <1>0, <1>8, <1>23, KeyedRun DEF ServeGrant, Shape, Tagged
    <2>2. CASE SettlesOn(r, "stopped")
      BY <1>6, <2>1, <2>2
    <2>3. CASE /\ GrantScopes(n.key, OwnGrants(n.tag))
               /\ MovesTo(r, n.life, "grant_answer", n.key, n.tag, n.code, n.mode)
      <3>1. kind'[n.tag] = "master"
              /\ acl'[n.key] = acl[n.key] \cup {n.tag} \cup manifest[n.tag].streams
        BY <2>1, <2>3, GrantWrites
      <3>2. manifest[n.tag].streams # {} /\ n.key \in manifest[n.tag].devices
        BY <1>2, <2>1 DEF SentFits
      <3>3. GrantedNext(n.key, n.tag)
        BY <2>1, <3>1, <3>2 DEF GrantedNext
      <3>4. SentFitsNext(moved)
        BY <2>3, <3>3 DEF SentFitsNext, MovesTo
      <3> QED BY <1>20, <2>1, <2>3, <3>4
    <2> QED BY <1>23, <2>2, <2>3, MintMoves
  <1>24. ASSUME TakeGrant(r) PROVE Goal
    <2>1. n.at = "grant_answer" /\ n.at \in Keyed /\ n.tag \in Scope /\ n.key \in Device
      BY <1>0, <1>8, <1>24, KeyedRun DEF TakeGrant, Shape, Tagged
    <2>2. CASE UNCHANGED record /\ SettlesOn(r, "code")
      BY <1>6, <2>1, <2>2
    <2>3. CASE /\ n.life = "live" /\ RecordStage(r[1], "scopes_granted", "first")
               /\ SettlesOn(r, "backup")
      <3>1. rec # None /\ rec \in Record /\ rec.key = n.key
        BY <1>3, <1>w, <2>1, <2>3
      <3>2. "scopes_granted" \in Stage /\ "first" \in Mode /\ "backup" \in Rest
        BY DEF Stage, Mode, Rest
      <3>3. new # None /\ new.key = rec.key /\ new.grant = rec.grant
        BY <1>0, <2>3, <3>1, <3>2, Restaged
      <3>4. rec.grant = n.tag
        BY <1>2, <2>1, <3>1 DEF TagFits
      <3>5. GrantedNext(n.key, n.tag)
        BY <1>1, <1>2, <2>1, GrantedStays DEF SentFits
      <3>6. BackedNext(new)
        BY <2>1, <3>1, <3>3, <3>4, <3>5 DEF BackedNext
      <3>7. MovesTo(r, "live", "backup", n.key, None, None, None)
        BY <2>3 DEF SettlesOn
      <3> QED BY <3>1, <3>2, <3>3, <3>6, <3>7, ScreenFits DEF Goal
    <2> QED BY <1>24, <2>2, <2>3, MintMoves
  <1>25. ASSUME IssueRecoveryCode(r) PROVE Goal
    <2>1. /\ n.life = "live" /\ n.at \in {"backup", "shown"} /\ n.at \in Keyed
          /\ RecordStage(r[1], "recovery_pending", "first")
      BY <1>8, <1>25 DEF IssueRecoveryCode, Live
    <2>2. rec # None /\ rec \in Record /\ rec.key = n.key /\ Backed(rec)
      BY <1>2, <1>3, <1>w, <2>1 DEF WorkFits
    <2>3. new # None /\ new.key = rec.key /\ new.grant = rec.grant
      <3>1. "recovery_pending" \in Stage /\ "first" \in Mode
        BY DEF Stage, Mode
      <3> QED BY <1>0, <2>1, <2>2, <3>1, Restaged
    <2>4. CASE SettlesOn(r, "code")
      BY <1>5, <2>2, <2>3, <2>4
    <2>5. ASSUME NEW c \in Recovery, MovesTo(r, "live", "wrapping", n.key, rec.grant, c, n.mode)
          PROVE  Goal
      <3>1. moved.at = "wrapping" /\ moved.key = n.key /\ moved.tag = rec.grant
        BY <2>5 DEF MovesTo
      <3>2. BackedNext(rec) /\ kind'[rec.grant] = "master"
        BY <1>1, <2>2, BackedStays DEF BackedNext, GrantedNext
      <3>3. BackedNext(new)
        BY <2>3, <3>2 DEF BackedNext
      <3>4. Stands(moved, new)
        BY <2>2, <2>3, <3>1 DEF Stands
      <3>5. SentFitsNext(moved) /\ TagFits(moved, new)
        BY <2>3, <3>1, <3>2 DEF SentFitsNext, TagFits
      <3> QED BY <3>3, <3>4, <3>5 DEF Goal, RunFitsNext, WorkFitsNext
    <2> QED BY <1>25, <2>4, <2>5, BackupMoves
  <1>26. ASSUME ServeWrap(r) PROVE Goal
    <2>1. /\ n.at = "wrapping" /\ n.at \in Keyed /\ n.tag \in Scope /\ n.code \in Recovery
          /\ UNCHANGED record
      BY <1>0, <1>8, <1>26 DEF ServeWrap, Shape, Tagged, Coded
    <2>2. CASE SettlesOn(r, "code")
      BY <1>6, <2>1, <2>2
    <2>3. CASE /\ wrap' = WrapOf(n)
               /\ MovesTo(r, n.life, "wrap_answer", n.key, None, n.code, n.mode)
      <3>1. /\ moved.life = n.life /\ moved.at = "wrap_answer" /\ moved.key = n.key
            /\ moved.tag \notin Scope /\ wrap' # None
        BY <2>1, <2>3, NoneIsNothing, WrapFields DEF MovesTo
      <3>2. SentFitsNext(moved) /\ TagFits(moved, new)
        BY <3>1 DEF SentFitsNext, TagFits
      <3>3. ASSUME AtWork(moved) PROVE WorkFitsNext(moved, new)
        <4>0. AtWork(n)
          BY <1>w, <2>1, <3>1, <3>3 DEF AtWork, InFinish
        <4>1. new = rec /\ rec # None /\ rec.key = n.key /\ rec \in Record
          BY <1>3, <1>4, <2>1, <4>0
        <4>2. BackedNext(rec)
          BY <1>1, <1>2, <2>1, <4>0, <4>1, BackedStays DEF WorkFits
        <4>3. Stands(moved, rec)
          BY <3>1, <4>1 DEF Stands
        <4> QED BY <4>1, <4>2, <4>3 DEF WorkFitsNext
      <3> QED BY <3>1, <3>2, <3>3 DEF Goal, RunFitsNext
    <2> QED BY <1>26, <2>2, <2>3, BackupMoves
  <1>27. ASSUME TakeWrap(r) PROVE Goal
    <2>1. n.at = "wrap_answer" /\ n.at \in Keyed /\ UNCHANGED record /\ new = rec
      BY <1>8, <1>27 DEF TakeWrap
    <2>2. GoesOn(r, "shown", n.tag, n.code, n.mode)
      BY <1>27, BackupMoves
    <2>3. CASE n.life = "live"
      <3>1. rec # None /\ rec.key = n.key /\ rec \in Record
        BY <1>3, <1>w, <2>1, <2>3
      <3>2. BackedNext(rec) /\ wrap' # None
        BY <1>1, <1>2, <1>w, <2>1, <2>3, <3>1, BackedStays DEF WorkFits, SentFits, Grows
      <3>3. moved.at = "shown" /\ moved.key = n.key /\ moved.tag = n.tag
        BY <2>2, <2>3 DEF GoesOn, MovesTo
      <3>4. SentFitsNext(moved) /\ TagFits(moved, new)
        BY <1>2, <2>1, <3>2, <3>3 DEF SentFitsNext, TagFits
      <3>5. WorkFitsNext(moved, new)
        BY <2>1, <3>1, <3>2, <3>3 DEF WorkFitsNext, Stands
      <3> QED BY <3>4, <3>5 DEF Goal, RunFitsNext
    <2>4. CASE n.life # "live"
      BY <2>2, <2>4, FreeFits DEF GoesOn, Goal
    <2> QED BY <2>3, <2>4
  <1>28. ASSUME Ambiguous(r) PROVE Goal
    <2>1. n.at \in Keyed /\ UNCHANGED record
      BY <1>8, <1>28 DEF Ambiguous
    <2> QED BY <1>6, <1>28, <2>1, BackupMoves
  <1>29. ASSUME Lock(r) PROVE Goal
    <2>1. new = rec
      BY <1>29 DEF Lock
    <2>2. RunFitsNext(n, rec)
      BY <1>0, <1>1, <1>2, StillFits
    <2>3. moved.life = "locked" /\ moved.at = n.at /\ moved.key = n.key /\ moved.tag = n.tag
      BY <1>29, BackupMoves DEF MovesTo
    <2>4. TagFits(moved, new) /\ SentFitsNext(moved)
      BY <2>1, <2>2, <2>3 DEF RunFitsNext, TagFits, SentFitsNext
    <2>5. ASSUME AtWork(moved) PROVE WorkFitsNext(moved, new)
      <3>1. AtWork(n)
        BY <1>29, <2>3, <2>5 DEF Lock, AtWork, InFinish
      <3> QED BY <2>1, <2>2, <2>3, <3>1 DEF RunFitsNext, WorkFitsNext, Stands
    <2> QED BY <2>4, <2>5 DEF Goal, RunFitsNext
  <1>30. ASSUME ConfirmRecoveryCode(r) \/ Close(r) PROVE Goal
    BY <1>30, BackupMoves, FreeFits DEF Goal
  <1> QED
    BY <1>9, <1>10, <1>11, <1>12, <1>13, <1>14, <1>16, <1>17, <1>18, <1>19, <1>21, <1>22, <1>23,
       <1>24, <1>25, <1>26, <1>27, <1>28, <1>29, <1>30 DEF Stepping, Goal

\* The steps that write the device record.
LEMMA RestageCalls ==
    ASSUME NEW r \in Run, Stepping(r)
    PROVE  \/ UNCHANGED record
           \/ Wipe(r) \/ TakeList(r) \/ TakeRedeem(r) \/ TakeGrant(r)
           \/ IssueRecoveryCode(r) \/ ConfirmRecoveryCode(r)
           \/ \E d \in Device : SealVault(r, d)
           \/ \E t \in Scope : Mint(r, t)
  BY DEF Stepping, ReadDeviceStatus, CreatePasskey, Redeem, ServeList, ServeRedeem, Finish,
     ServeGrant, AddStream, AddDevice, ServeWrap, TakeWrap, Ambiguous, Lock, Close

\* The stages that are recorded were reached.
LEMMA StagesStep ==
    ASSUME SetupTypeOK, RunShape, RunsFit, RecordsFit, NEW r \in Run, Stepping(r),
           NEW p \in Profile, record'[p] # None
    PROVE  StageFitsNext(record'[p])
  <1> DEFINE n == runs[r]
             rec == record[p]
             new == record'[p]
  <1>0. /\ record \in [Profile -> Record \cup {None}] /\ r[1] \in Profile /\ new \in Record
        /\ n \in RunRec /\ Shape(n)
    BY RunTypes, RecordStep DEF SetupTypeOK, RunShape
  <1>1. Grows
    BY GrowsStep
  <1>2. /\ RunFits(n, record[r[1]]) /\ TagFits(n, record[r[1]]) /\ SentFits(n)
        /\ AtWork(n) => WorkFits(n, record[r[1]])
    BY DEF RunsFit, RunFits
  <1>3. CASE new = rec
    <2>1. rec \in Record /\ StageFits(rec)
      BY <1>0, <1>3 DEF RecordsFit
    <2>2. Backed(rec) => BackedNext(rec)
      BY <1>1, <2>1, BackedStays
    <2>3. wrap # None => wrap' # None
      BY <1>1 DEF Grows
    <2> QED BY <1>3, <2>1, <2>2, <2>3 DEF StageFits, StageFitsNext
  <1>4. CASE p = r[1] /\ Wipes(r)
    BY <1>0, <1>4 DEF Wipes
  <1>5. CASE p = r[1] /\ Seals(r)
    <2>1. PICK d \in Device : record' = [record EXCEPT ![p] =
             [key |-> d, stage |-> "keys_created", mode |-> None, at |-> now, grant |-> None]]
      BY <1>5 DEF Seals
    <2>2. new = [key |-> d, stage |-> "keys_created", mode |-> None, at |-> now, grant |-> None]
      BY <1>0, <2>1
    <2>3. new.stage = "keys_created" /\ new.mode = None
      BY <2>2
    <2> QED BY <2>3 DEF StageFitsNext
  <1>6. CASE p = r[1] /\ Mints(r)
    <2>1. PICK t \in Scope : Mint(r, t) /\ record' = [record EXCEPT ![p].grant = t]
      BY <1>6 DEF Mints
    <2>2. rec # None /\ rec.grant = None
      BY <1>0, <1>2, <1>6, <2>1, MintAtWork DEF WorkFits, Mints
    <2>3. StageFits(rec) /\ ~Backed(rec)
      BY <1>0, <2>2, NoneIsNothing DEF RecordsFit, Backed
    <2>4. new.stage = rec.stage /\ new.mode = rec.mode
      BY <2>1, <2>2, Regranted
    <2> QED BY <2>3, <2>4 DEF StageFits, StageFitsNext
  <1>7. CASE p = r[1] /\ Restages(r)
    <2>0. rec # None /\ rec \in Record
      BY <1>0, <1>7 DEF Restages
    <2>1. ASSUME NEW m \in Mode, RecordStage(p, "redeemed", m) PROVE StageFitsNext(new)
      <3>1. new.stage = "redeemed"
        BY <2>0, <2>1, Restaged DEF Stage
      <3> QED BY <3>1 DEF StageFitsNext
    <2>2. CASE TakeGrant(r)
      <3>1. n.at = "grant_answer"
        BY <2>2 DEF TakeGrant
      <3>2. CASE n.life = "live" /\ RecordStage(r[1], "scopes_granted", "first")
                /\ SettlesOn(r, "backup")
        <4>1. new.stage = "scopes_granted"
          BY <1>7, <2>0, <3>2, Restaged DEF Stage, Mode
        <4>2. runs'[r].life = "live" /\ runs'[r].at = "backup"
          BY <3>2 DEF SettlesOn, MovesTo
        <4>3. BackedNext(new)
          BY <1>7, <4>2, OwnFits DEF RunFitsNext, WorkFitsNext, AtWork
        <4> QED BY <4>1, <4>3 DEF StageFitsNext
      <3>3. CASE UNCHANGED record
        BY <1>3, <3>3
      <3> QED BY <2>2, <3>2, <3>3, MintMoves
    <2>3. CASE IssueRecoveryCode(r) \/ ConfirmRecoveryCode(r)
      <3>1. /\ n.life = "live" /\ n.at \in {"backup", "shown"}
            /\ ConfirmRecoveryCode(r) => n.at = "shown"
        BY <2>3 DEF IssueRecoveryCode, ConfirmRecoveryCode, Live
      <3>2. BackedNext(rec)
        BY <1>1, <1>2, <1>7, <2>0, <3>1, BackedStays DEF AtWork, WorkFits
      <3>3. PICK s \in {"recovery_pending", "done"} :
               /\ RecordStage(p, s, "first")
               /\ s = "done" => ConfirmRecoveryCode(r)
        BY <1>7, <2>3 DEF IssueRecoveryCode, ConfirmRecoveryCode
      <3>4. new.key = rec.key /\ new.grant = rec.grant /\ new.stage = s
        BY <2>0, <3>3, Restaged DEF Stage, Mode
      <3>5. s = "done" => wrap' # None
        BY <1>1, <1>2, <3>1, <3>3 DEF SentFits, Grows
      <3> QED BY <3>2, <3>3, <3>4, <3>5 DEF StageFitsNext, BackedNext
    <2>4. CASE TakeList(r) \/ TakeRedeem(r)
      <3>1. n.mode \in Mode \cup {None, "refused"}
        BY <1>0 DEF RunRec
      <3>2. \/ UNCHANGED record
            \/ n.mode \in Mode /\ RecordStage(p, "redeemed", n.mode)
        <4>1. TakeList(r) => n.mode \in Mode \cup {None}
          BY <1>0 DEF TakeList, Shape
        <4>2. TakeRedeem(r) => n.mode \in Mode \cup {"refused"}
          BY <1>0 DEF TakeRedeem, Shape
        <4>3. \/ UNCHANGED record
              \/ n.mode \in Mode /\ Learns(r, n.mode)
          BY <2>4, <4>1, <4>2, RedeemMoves
        <4> QED BY <1>7, <4>3 DEF Learns
      <3>3. CASE UNCHANGED record
        BY <1>3, <3>3
      <3> QED BY <2>1, <3>2, <3>3
    <2>5. CASE UNCHANGED record
      BY <1>3, <2>5
    <2>6. CASE Wipe(r) \/ \E d \in Device : SealVault(r, d)
      <3>1. Wipe(r) => FALSE
        BY <1>0, <1>7 DEF Wipe
      <3>2. ASSUME NEW d \in Device, SealVault(r, d) PROVE FALSE
        BY <1>7, <3>2 DEF SealVault, Restages
      <3> QED BY <2>6, <3>1, <3>2
    <2>7. ASSUME NEW t \in Scope, Mint(r, t) PROVE StageFitsNext(new)
      <3>1. CASE UNCHANGED record
        BY <1>3, <3>1
      <3>2. CASE Mints(r)
        BY <1>6, <1>7, <3>2
      <3> QED BY <2>7, <3>1, <3>2, MintMoves DEF Mints
    <2> QED BY <2>2, <2>3, <2>4, <2>5, <2>6, <2>7, RestageCalls
  <1> QED BY <1>3, <1>4, <1>5, <1>6, <1>7, RecordStep, RecordSteps

\* The relay grants a device nothing but what its vault holds.
LEMMA AclStep ==
    ASSUME BaseInv, KeysApart, RunsFit, RecordsFit, NEW r \in Run, Stepping(r),
           NEW p \in Profile, record'[p] # None
    PROVE  AclIsVaultNext(record'[p])
  <1> DEFINE n == runs[r]
             rec == record[p]
             new == record'[p]
  <1>0. /\ SetupTypeOK /\ RunShape /\ AccessOnlyForActiveDevices
        /\ record \in [Profile -> Record \cup {None}] /\ r[1] \in Profile /\ new \in Record
        /\ manifest \in [Scope -> [streams : SUBSET Scope, devices : SUBSET Device]]
        /\ acl \in [Device -> SUBSET Scope]
    BY RunTypes, RecordStep DEF BaseInv, StoreInv, SetupTypeOK, StoreTypeOK
  <1>1. Grows
    BY <1>0, GrowsStep
  <1>2. new.key \in Device /\ new.grant \in Scope \cup {None}
    BY <1>0 DEF Record
  <1>3. ASSUME rec # None
        PROVE  /\ rec.key \in Device /\ rec.grant \in Scope \cup {None}
               /\ rec.grant = None => acl[rec.key] = {}
               /\ rec.grant # None =>
                     /\ acl[rec.key] \subseteq {rec.grant} \cup manifest[rec.grant].streams
                     /\ rec.grant \in acl[rec.key] => kind[rec.grant] = "master"
    BY <1>0, <1>3, RecordTypes DEF RecordsFit, AclIsVault
  <1>4. CASE rec # None /\ new.key = rec.key /\ new.grant = rec.grant
              /\ acl'[rec.key] = acl[rec.key]
    <2>1. rec.grant \in Scope =>
             /\ manifest[rec.grant].streams \subseteq manifest'[rec.grant].streams
             /\ kind[rec.grant] = "master" => kind'[rec.grant] = "master"
      BY <1>1 DEF Grows
    <2> QED BY <1>3, <1>4, <2>1 DEF AclIsVaultNext
  <1>5. ASSUME NEW d \in Device, p = r[1], SealVault(r, d), new.key = d, new.grant = None
        PROVE  AclIsVaultNext(new)
    <2>1. d \in FreshKeys /\ acl' = acl
      BY <1>5 DEF SealVault, storeVars, scopeVars
    <2>2. status[d] = "none"
      BY <2>1, Fresh
    <2>3. acl[d] = {}
      BY <1>0, <2>2 DEF AccessOnlyForActiveDevices
    <2> QED BY <1>5, <2>1, <2>3 DEF AclIsVaultNext
  <1>6. ASSUME NEW t \in Scope, p = r[1], rec # None, Mint(r, t), new.key = rec.key, new.grant = t
        PROVE  AclIsVaultNext(new)
    <2>1. rec.grant = None
      BY <1>0, <1>6, MintAtWork DEF RunsFit, RunFits, WorkFits
    <2>2. acl' = acl
      BY <1>6 DEF Mint, storeVars, scopeVars
    <2> QED BY <1>3, <1>6, <2>1, <2>2, NoneIsNothing DEF AclIsVaultNext
  <1>7. CASE /\ rec # None /\ new.key = rec.key /\ new.grant = rec.grant
             /\ n.at = "granting" /\ n.tag \in Scope /\ n.key \in Device
             /\ GrantScopes(n.key, OwnGrants(n.tag))
    <2>1. /\ kind'[n.tag] = "master"
          /\ acl'[n.key] = acl[n.key] \cup {n.tag} \cup manifest[n.tag].streams
          /\ \A e \in Device : e # n.key => acl'[e] = acl[e]
      BY <1>0, <1>7, GrantWrites
    <2>2. CASE rec.key # n.key
      <3>1. acl'[rec.key] = acl[rec.key]
        BY <1>3, <1>7, <2>1, <2>2
      <3> QED BY <1>4, <1>7, <3>1
    <2>3. CASE rec.key = n.key
      <3>1. r[1] = p
        BY <1>7, <2>3 DEF KeysApart
      <3>2. rec.grant = n.tag
        BY <1>7, <2>3, <3>1 DEF RunsFit, RunFits, TagFits
      <3>3. manifest[n.tag].streams \subseteq manifest'[n.tag].streams
        BY <1>1, <1>7 DEF Grows
      <3>4. n.tag # None
        BY <1>7, NoneIsNothing
      <3>5. acl[n.key] \subseteq {n.tag} \cup manifest[n.tag].streams
        BY <1>3, <1>7, <2>3, <3>2, <3>4
      <3>6. acl'[new.key] \subseteq {new.grant} \cup manifest'[new.grant].streams
        BY <1>7, <2>1, <2>3, <3>2, <3>3, <3>5
      <3> QED BY <1>7, <2>1, <3>2, <3>4, <3>6 DEF AclIsVaultNext
    <2> QED BY <2>2, <2>3
  <1>8. CASE UNCHANGED <<kind, acl>>
    <2>1. CASE rec # None /\ new.key = rec.key /\ new.grant = rec.grant
      BY <1>4, <1>8, <2>1
    <2> QED BY <1>0, <1>5, <1>6, <2>1, RecordKeeps
  <1>9. CASE /\ n.at = "granting" /\ n.tag \in Scope /\ n.key \in Device
             /\ GrantScopes(n.key, OwnGrants(n.tag))
    <2>1. CASE rec # None /\ new.key = rec.key /\ new.grant = rec.grant
      BY <1>7, <1>9, <2>1
    <2> QED BY <1>0, <1>5, <1>6, <2>1, RecordKeeps
  <1> QED BY <1>0, <1>8, <1>9, AccessStep

-----------------------------------------------------------------------------
(* One run at work *)

\* Where a run comes from that is to wipe, is on its way to the granted scopes or is about
\* to show a code.
LEMMA StandsStep ==
    ASSUME SetupTypeOK, RunShape, NEW r \in Run, Stepping(r)
    PROVE  LET n == runs[r]
               rec == record[r[1]]
               moved == runs'[r]
           IN  /\ moved.at = "wiping" => rec # None /\ UNCHANGED record
               /\ moved.at \in Finishing =>
                     \/ rec # None /\ rec.stage = "redeemed" /\ UNCHANGED record
                     \/ n.at \in Finishing /\ (UNCHANGED record \/ Mints(r))
               /\ moved.life = "live" /\ moved.at \in {"wrap_answer", "shown"} =>
                     /\ n.life = "live" /\ moved.code = n.code
                     /\ \/ n.at = "wrapping" /\ wrap' = WrapOf(n)
                        \/ n.at \in {"wrap_answer", "shown"} /\ UNCHANGED wrap
  <1> DEFINE n == runs[r]
             rec == record[r[1]]
             moved == runs'[r]
             Goal == /\ moved.at = "wiping" => rec # None /\ UNCHANGED record
                     /\ moved.at \in Finishing =>
                           \/ rec # None /\ rec.stage = "redeemed" /\ UNCHANGED record
                           \/ n.at \in Finishing /\ (UNCHANGED record \/ Mints(r))
                     /\ moved.life = "live" /\ moved.at \in {"wrap_answer", "shown"} =>
                           /\ n.life = "live" /\ moved.code = n.code
                           /\ \/ n.at = "wrapping" /\ wrap' = WrapOf(n)
                              \/ n.at \in {"wrap_answer", "shown"} /\ UNCHANGED wrap
  <1>0. /\ n \in RunRec /\ Shape(n) /\ NoRun.at = None /\ NoRun.life = "free"
        /\ None \notin Finishing \cup {"wiping", "wrap_answer", "shown"}
        /\ Finishing = {"mint", "manifest", "naming", "granting", "grant_answer"}
        /\ \A s \in {"code", "finish", "backup", "stopped"} : s \in Rest
    BY RunTypes, NoneIsNothing, FreeRun
       DEF RunShape, Finishing, InFinish, Rest, Screen, Waiting
  \* Elsewhere a run needs none of it.
  <1>1. ASSUME moved.at \notin Finishing \cup {"wiping", "wrap_answer", "shown"} PROVE Goal
    BY <1>1
  <1>2. ASSUME NEW s \in Rest, SettlesOn(r, s) PROVE Goal
    <2>1. moved.at = s \/ moved.at = None
      BY <1>0, <1>2 DEF SettlesOn, MovesTo
    <2>2. moved.at \notin Finishing \cup {"wiping", "wrap_answer", "shown"}
      BY <1>0, <2>1 DEF Rest
    <2> QED BY <1>1, <2>2
  <1>3. ASSUME NEW a \in {"welcome", "passkey", "code", "finish", "backup", "listing", "listed",
                          "redeeming", "redeem_answer", "wrapping"},
               NEW l, NEW k, NEW t, NEW c, NEW m, MovesTo(r, l, a, k, t, c, m)
        PROVE  Goal
    BY <1>0, <1>1, <1>3 DEF MovesTo
  <1> HIDE DEF Goal
  <1>4. ASSUME ReadDeviceStatus(r) PROVE Goal
    <2>1. UNCHANGED record
      BY <1>4 DEF ReadDeviceStatus
    <2>2. CASE rec # None /\ MovesTo(r, "live", "wiping", None, None, None, None)
      BY <1>0, <2>1, <2>2 DEF Goal, MovesTo
    <2> QED BY <1>3, <1>4, <2>2, OpenMoves
  <1>5. ASSUME Wipe(r) \/ CreatePasskey(r) \/ \E d \in Device : SealVault(r, d) PROVE Goal
    BY <1>3, <1>5, SealMoves
  <1>6. ASSUME Redeem(r) \/ ServeList(r) \/ TakeList(r) \/ ServeRedeem(r) \/ TakeRedeem(r)
        PROVE  Goal
    <2>1. ASSUME NEW m, Learns(r, m) PROVE \E s \in Rest : SettlesOn(r, s)
      BY <1>0, <2>1 DEF Learns
    <2>2. \/ \E s \in Rest : SettlesOn(r, s)
          \/ \E a \in {"listing", "listed", "redeeming", "redeem_answer"} :
                \E k, t, c, m : MovesTo(r, n.life, a, k, t, c, m)
      <3>1. CASE Redeem(r)
        BY <1>0, <3>1, RedeemMoves
      <3>2. CASE ServeList(r) \/ ServeRedeem(r)
        BY <1>0, <3>2, RedeemMoves
      <3>3. CASE TakeList(r) \/ TakeRedeem(r)
        BY <1>0, <2>1, <3>3, RedeemMoves
      <3> QED BY <1>6, <3>1, <3>2, <3>3
    <2> QED BY <1>2, <1>3, <2>2
  <1>7. ASSUME Finish(r) PROVE Goal
    <2>1. UNCHANGED record
      BY <1>7 DEF Finish
    <2>2. ASSUME NEW a \in {"mint", "manifest"}, NEW t, NEW c, NEW m,
                 rec # None, rec.stage = "redeemed", MovesTo(r, "live", a, n.key, t, c, m)
          PROVE  Goal
      BY <1>0, <2>1, <2>2 DEF Goal, MovesTo
    <2> QED BY <1>0, <1>2, <1>7, <2>2, MintMoves
  <1>8. ASSUME NEW t \in Scope, Mint(r, t) PROVE Goal
    <2>1. n.at \in Finishing
      BY <1>0, <1>8 DEF Mint
    <2>2. ASSUME Mints(r), GoesOn(r, "manifest", t, n.code, n.mode) PROVE Goal
      BY <1>0, <2>1, <2>2 DEF Goal, GoesOn, MovesTo
    <2> QED BY <1>0, <1>2, <1>8, <2>2, MintMoves DEF Mints
  <1>9. ASSUME AddDevice(r) \/ \E t \in Scope : AddStream(r, t) PROVE Goal
    <2>1. n.at \in Finishing /\ UNCHANGED record
      BY <1>0, <1>9 DEF AddStream, AddDevice
    <2>2. moved.at \in {"naming", "granting", None}
      BY <1>0, <1>9, MintMoves DEF GoesOn, MovesTo
    <2> QED BY <1>0, <2>1, <2>2 DEF Goal
  <1>10. ASSUME ServeGrant(r) \/ TakeGrant(r) PROVE Goal
    <2>1. CASE MovesTo(r, n.life, "grant_answer", n.key, n.tag, n.code, n.mode) /\ ServeGrant(r)
      <3>1. n.at \in Finishing /\ UNCHANGED record /\ moved.at = "grant_answer"
        BY <1>0, <2>1 DEF ServeGrant, MovesTo
      <3> QED BY <3>1 DEF Goal
    <2> QED BY <1>0, <1>2, <1>10, <2>1, MintMoves
  <1>11. ASSUME IssueRecoveryCode(r) PROVE Goal
    BY <1>0, <1>2, <1>3, <1>11, BackupMoves
  <1>12. ASSUME ServeWrap(r) PROVE Goal
    <2>1. CASE /\ wrap' = WrapOf(n)
               /\ MovesTo(r, n.life, "wrap_answer", n.key, None, n.code, n.mode)
      <3>1. n.at = "wrapping" /\ moved.life = n.life /\ moved.code = n.code
              /\ moved.at = "wrap_answer"
        BY <1>12, <2>1 DEF ServeWrap, MovesTo
      <3> QED BY <1>0, <2>1, <3>1 DEF Goal
    <2> QED BY <1>0, <1>2, <1>12, <2>1, BackupMoves
  <1>13. ASSUME TakeWrap(r) PROVE Goal
    <2>1. n.at = "wrap_answer" /\ UNCHANGED wrap
      BY <1>13 DEF TakeWrap
    <2>2. CASE n.life = "live" /\ MovesTo(r, "live", "shown", n.key, n.tag, n.code, n.mode)
      BY <1>0, <2>1, <2>2 DEF Goal, MovesTo
    <2>3. CASE moved = NoRun
      BY <1>0, <2>3 DEF Goal
    <2> QED BY <1>13, <2>2, <2>3, BackupMoves DEF GoesOn
  <1>14. ASSUME Lock(r) PROVE Goal
    <2>1. /\ moved.at = n.at /\ moved.life = "locked" /\ UNCHANGED record
          /\ n.at \in Waiting \cup InFinish
      BY <1>14, BackupMoves DEF Lock, MovesTo
    <2>2. n.at # "wiping"
      BY <2>1 DEF Waiting, InFinish
    <2> QED BY <1>0, <2>1, <2>2 DEF Goal
  <1>15. ASSUME Ambiguous(r) PROVE Goal
    BY <1>0, <1>2, <1>15, BackupMoves
  <1>16. ASSUME ConfirmRecoveryCode(r) \/ Close(r) PROVE Goal
    BY <1>0, <1>1, <1>16, BackupMoves
  <1>17. Goal
    BY <1>4, <1>5, <1>6, <1>7, <1>8, <1>9, <1>10, <1>11, <1>12, <1>13, <1>14, <1>15, <1>16
       DEF Stepping
  <1> QED BY <1>17 DEF Goal

\* Where there is no record, no run is at work.
LEMMA NobodyAtWork ==
    ASSUME SetupTypeOK, RunShape, RunsFit, RunsStand, NEW q \in Run, record[q[1]] = None
    PROVE  ~AtWork(runs[q])
  <1> SUFFICES ASSUME AtWork(runs[q]) PROVE FALSE
    OBVIOUS
  <1>1. runs[q] \in RunRec /\ Shape(runs[q])
    BY RunTypes DEF RunShape
  <1>2. runs[q].at \notin Keyed
    BY DEF RunsFit, RunFits, WorkFits
  <1>3. runs[q].at # "wiping"
    BY DEF RunsStand, StageStands
  <1> QED BY <1>1, <1>2, <1>3 DEF AtWork, Shape, RunRec, Screen, Keyed, InFinish, Waiting

\* One run of a profile is at work, if none opens beside it.
LEMMA OneStep ==
    ASSUME SetupTypeOK, RunShape, RunsFit, OneAtWork, RunsStand, NEW r \in Run, Stepping(r), Alone'
    PROVE  OneAtWork'
  <1>1. \A q \in Run : q # r => runs'[q] = runs[q]
    BY StepMoves, RunTypes DEF OneMoves
  <1>2. ASSUME NEW q \in Run, q # r, q[1] = r[1], AtWork(runs'[r]), AtWork(runs[q])
        PROVE  FALSE
    <2>1. CASE AtWork(runs[r])
      BY <1>2, <2>1 DEF OneAtWork
    <2>2. CASE ReadDeviceStatus(r)
      BY <1>2, <2>2, OpenMoves DEF Alone, Beside
    <2>3. CASE \E d \in Device : SealVault(r, d)
      <3>1. record[q[1]] = None
        BY <1>2, <2>3 DEF SealVault
      <3> QED BY <1>2, <3>1, NobodyAtWork
    <2> QED BY <1>2, <2>1, <2>2, <2>3, WorkStep
  <1>3. ASSUME NEW x \in Run, NEW q \in Run, x[1] = q[1], AtWork(runs'[x]), AtWork(runs'[q]), x # q
        PROVE  FALSE
    <2>1. CASE x = r
      BY <1>1, <1>2, <1>3, <2>1
    <2>2. CASE q = r
      BY <1>1, <1>2, <1>3, <2>2
    <2>3. CASE x # r /\ q # r
      BY <1>1, <1>3, <2>3 DEF OneAtWork
    <2> QED BY <2>1, <2>2, <2>3
  <1> QED BY <1>3 DEF OneAtWork, AtWork

\* A stage other than `redeemed' is written by a run at work, and `done' once the code is
\* confirmed.
LEMMA Written ==
    ASSUME SetupTypeOK, RunShape, NEW r \in Run, Stepping(r), Restages(r)
    PROVE  LET new == record'[r[1]]
           IN  /\ UNCHANGED record \/ new.stage = "redeemed" \/ AtWork(runs[r])
               /\ UNCHANGED record \/ new.stage # "done" \/ ConfirmRecoveryCode(r)
  <1> DEFINE n == runs[r]
             new == record'[r[1]]
             Goal == /\ UNCHANGED record \/ new.stage = "redeemed" \/ AtWork(runs[r])
                     /\ UNCHANGED record \/ new.stage # "done" \/ ConfirmRecoveryCode(r)
  <1>0. record[r[1]] # None /\ r[1] \in Profile /\ record \in [Profile -> Record \cup {None}]
    BY RunTypes DEF Restages, SetupTypeOK
  <1>1. ASSUME NEW s \in Stage, NEW m \in Mode, RecordStage(r[1], s, m) PROVE new.stage = s
    BY <1>0, <1>1, Restaged
  <1>2. CASE TakeList(r) \/ TakeRedeem(r)
    <2>1. \/ UNCHANGED record
          \/ n.mode \in Mode /\ RecordStage(r[1], "redeemed", n.mode)
      <3>1. TakeList(r) => n.mode \in Mode \cup {None}
        BY DEF TakeList, RunShape, Shape
      <3>2. TakeRedeem(r) => n.mode \in Mode \cup {"refused"}
        BY DEF TakeRedeem, RunShape, Shape
      <3> QED BY <1>2, <3>1, <3>2, RedeemMoves DEF Learns
    <2> QED BY <1>1, <2>1 DEF Stage
  <1>3. CASE TakeGrant(r)
    <2>1. \/ UNCHANGED record
          \/ n.life = "live" /\ RecordStage(r[1], "scopes_granted", "first")
      BY <1>3, MintMoves
    <2>2. n.at = "grant_answer"
      BY <1>3 DEF TakeGrant
    <2> QED BY <1>1, <2>1, <2>2 DEF Stage, Mode, AtWork
  <1>4. CASE IssueRecoveryCode(r) \/ ConfirmRecoveryCode(r)
    <2>1. n.life = "live" /\ n.at \in {"backup", "shown"}
      BY <1>4 DEF IssueRecoveryCode, ConfirmRecoveryCode, Live
    <2>2. \/ RecordStage(r[1], "recovery_pending", "first")
          \/ ConfirmRecoveryCode(r)
      BY <1>4 DEF IssueRecoveryCode
    <2> QED BY <1>1, <2>1, <2>2 DEF Stage, Mode, AtWork
  <1>5. CASE Wipe(r) \/ \E d \in Device : SealVault(r, d)
    <2>1. record'[r[1]] # None
      BY <1>0, Restaged DEF Restages
    <2> QED BY <1>0, <1>5, <2>1 DEF Wipe, SealVault
  <1>6. ASSUME NEW t \in Scope, Mint(r, t) PROVE Goal
    <2>1. AtWork(n)
      BY <1>6, MintAtWork
    <2>2. ASSUME record' = [record EXCEPT ![r[1]].grant = t], new.stage = "done"
          PROVE  UNCHANGED record
      <3>1. PICK s \in Stage, m \in Mode : RecordStage(r[1], s, m)
        BY DEF Restages
      <3>2. new.grant = record[r[1]].grant /\ new.grant = t
        BY <1>0, <2>2, <3>1, Restaged, Regranted
      <3>3. record[r[1]] \in Record
        BY <1>0
      <3> QED BY <1>0, <2>2, <3>2, <3>3 DEF Record
    <2> QED BY <1>6, <2>1, <2>2, MintMoves
  <1> QED BY <1>2, <1>3, <1>4, <1>5, <1>6, RestageCalls

\* A master that is granted is one profile's.
LEMMA OneMaster ==
    ASSUME StoreInv, MastersApart, NEW p \in Profile, NEW q \in Profile,
           record[p] # None, record[q] # None, Backed(record[p]), Backed(record[q])
    PROVE  p = q
  <1>1. record[p].grant \in Masters /\ record[q].grant \in Masters /\ record[p].grant \in Scope
    BY DEF Backed, Granted, Masters
  <1>2. record[q].grant = record[p].grant
    BY <1>1 DEF StoreInv, MasterStaysWithTheOwners
  <1> QED BY <1>1, <1>2 DEF MastersApart

\* A run at work stands where the stage of its record is.
LEMMA StagesStand ==
    ASSUME SetupTypeOK, RunShape, RunsFit, RecordsFit, OneAtWork, RunsStand,
           NEW r \in Run, Stepping(r), Alone', NEW q \in Run, AtWork(runs'[q])
    PROVE  StageStands(runs'[q], record'[q[1]])
  <1> DEFINE n == runs[r]
             rec == record[r[1]]
             new == record'[r[1]]
             moved == runs'[r]
  <1>0. /\ \A x \in Run : x # r => runs'[x] = runs[x]
        /\ r[1] \in Profile /\ record \in [Profile -> Record \cup {None}]
        /\ "finish" \notin Finishing /\ "code" \notin Finishing /\ "backup" \notin Finishing
        /\ "wiping" \notin Keyed /\ Finishing \subseteq Keyed
    BY StepMoves, RunTypes DEF OneMoves, SetupTypeOK, Finishing, InFinish, Keyed, Waiting
  <1>1. CASE q # r
    <2>1. runs'[q] = runs[q] /\ AtWork(runs[q])
      BY <1>0, <1>1
    <2>2. StageStands(runs[q], record[q[1]])
      BY <2>1 DEF RunsStand
    <2>3. CASE record'[q[1]] = record[q[1]]
      BY <2>1, <2>2, <2>3
    <2>4. CASE q[1] = r[1] /\ Wipes(r)
      BY <1>1, <2>1, <2>4 DEF Wipes, Wipe, Cross, Alone, Beside
    <2>5. CASE q[1] = r[1] /\ Seals(r)
      <3>1. record[q[1]] = None
        BY <2>5 DEF Seals, SealVault
      <3> QED BY <2>1, <3>1, NobodyAtWork
    <2>6. CASE q[1] = r[1] /\ Restages(r)
      <3>1. ~AtWork(n)
        BY <1>1, <2>1, <2>6 DEF OneAtWork
      <3>2. CASE new.stage = "redeemed"
        <4>1. new # None
          BY <1>0, <2>6, Restaged DEF Restages
        <4> QED BY <2>1, <2>6, <3>2, <4>1 DEF StageStands
      <3> QED BY <2>3, <2>6, <3>1, <3>2, Written
    <2>7. CASE q[1] = r[1] /\ Mints(r)
      BY <1>1, <2>1, <2>7, MintAtWork DEF Mints, OneAtWork
    <2> QED BY <1>0, <2>3, <2>4, <2>5, <2>6, <2>7, RecordStep, RecordSteps, RunTypes
  <1>2. CASE q = r
    <2>1. /\ moved.at = "wiping" => rec # None /\ UNCHANGED record
          /\ moved.at \in Finishing =>
                \/ rec # None /\ rec.stage = "redeemed" /\ UNCHANGED record
                \/ n.at \in Finishing /\ (UNCHANGED record \/ Mints(r))
      BY StandsStep
    <2>2. CASE ReadDeviceStatus(r)
      <3>1. UNCHANGED record
        BY <2>2 DEF ReadDeviceStatus
      <3>2. \/ moved.at = "welcome"
            \/ moved.at = "wiping" /\ rec # None
            \/ moved.at \in {"code", "finish", "backup"} /\ rec # None /\ rec.stage # "done"
        BY <2>2, OpenMoves DEF MovesTo
      <3> QED BY <1>0, <1>2, <3>1, <3>2 DEF StageStands, Keyed, Waiting
    <2>3. ASSUME NEW d \in Device, SealVault(r, d) PROVE StageStands(moved, new)
      <3>1. moved.at = "code"
        BY <2>3, SealMoves DEF MovesTo
      <3>2. new.stage = "keys_created"
        <4>1. new = [key |-> d, stage |-> "keys_created", mode |-> None, at |-> now,
                     grant |-> None]
          BY <1>0, <2>3 DEF SealVault
        <4> QED BY <4>1
      <3> QED BY <1>0, <3>1, <3>2 DEF StageStands
    <2>4. CASE AtWork(n) /\ ~ReadDeviceStatus(r) /\ ~\E d \in Device : SealVault(r, d)
      <3>1. StageStands(n, rec) /\ WorkFits(n, rec)
        BY <2>4 DEF RunsStand, RunsFit, RunFits
      <3>2. moved.at \in Keyed => n.at \in Keyed
        <4>1. n.at \in Keyed \cup {"wiping"}
          BY <2>4, RunTypes DEF AtWork, RunShape, Shape, RunRec, Screen, Keyed, InFinish, Waiting
        <4>2. n.at = "wiping" => Wipe(r) \/ Close(r)
          BY <2>4 DEF Stepping, CreatePasskey, Live, Redeem, ServeList, TakeList,
             ServeRedeem, TakeRedeem, Finish, ServeGrant, TakeGrant, Mint, AddStream, AddDevice,
             IssueRecoveryCode, ServeWrap, TakeWrap, ConfirmRecoveryCode, Ambiguous, Lock,
             Waiting, InFinish
        <4>3. Wipe(r) \/ Close(r) => moved.at \in {"welcome", None}
          BY SealMoves, BackupMoves, FreeRun DEF MovesTo
        <4>4. "welcome" \notin Keyed /\ None \notin Keyed
          BY NoneIsNothing DEF Keyed, Screen, Waiting
        <4> QED BY <4>1, <4>2, <4>3, <4>4
      <3>3. ASSUME moved.at \in Keyed PROVE rec # None /\ rec.stage # "done" /\ rec \in Record
        BY <1>0, <3>1, <3>2, <3>3 DEF StageStands, WorkFits
      <3>4. CASE UNCHANGED record
        BY <1>0, <1>2, <2>1, <3>1, <3>3, <3>4 DEF StageStands
      <3>5. CASE Wipes(r)
        <4>1. moved.at = "welcome"
          BY <3>5, SealMoves DEF Wipes, MovesTo
        <4> QED BY <1>0, <1>2, <4>1 DEF StageStands, Keyed, Waiting
      <3>6. CASE Restages(r) /\ ~Mints(r)
        <4>1. CASE ~ConfirmRecoveryCode(r) /\ ~UNCHANGED record
          <5>1. new.stage # "done"
            BY <3>6, <4>1, Written
          <5>2. moved.at = "wiping" => FALSE
            BY <2>1, <4>1
          <5>3. moved.at \in Finishing => FALSE
            BY <2>1, <3>6, <4>1
          <5> QED BY <1>2, <5>1, <5>2, <5>3 DEF StageStands
        <4>2. CASE ConfirmRecoveryCode(r)
          BY <1>2, <4>2, BackupMoves, FreeRun DEF AtWork
        <4> QED BY <3>4, <4>1, <4>2
      <3>7. CASE Mints(r)
        <4>1. new # None /\ new.stage = rec.stage /\ rec # None
          BY <1>0, <3>7, Regranted DEF Mints
        <4>2. moved.at \in Finishing => rec.stage = "redeemed"
          BY <2>1, <3>1 DEF StageStands
        <4> QED BY <1>2, <3>3, <4>1, <4>2 DEF StageStands
      <3> QED BY <2>4, <3>4, <3>5, <3>6, <3>7, RecordSteps DEF Seals
    <2> QED BY <1>2, <2>2, <2>3, <2>4, WorkStep
  <1> QED BY <1>1, <1>2

\* A wrap is put for a run that was locked, or for the one at work on a record whose master
\* is granted.
LEMMA WrapPut ==
    ASSUME SetupTypeOK, RunShape, RunsFit, NEW r \in Run, Stepping(r)
    PROVE  \/ UNCHANGED wrap
           \/ wrap'.late
           \/ /\ runs[r].at = "wrapping" /\ AtWork(runs[r])
              /\ record[r[1]] # None /\ Backed(record[r[1]])
  <1>1. CASE ServeWrap(r)
    <2>1. /\ runs[r].at = "wrapping" /\ runs[r].at \in Keyed
          /\ runs[r].tag \in Scope /\ runs[r].code \in Recovery
      BY <1>1 DEF ServeWrap, RunShape, Shape, Tagged, Coded, Keyed, Waiting
    <2>2. runs[r].life \in {"live", "locked"}
      BY <2>1, KeyedRun, RunTypes DEF RunRec
    <2>3. wrap' = wrap \/ wrap' = WrapOf(runs[r])
      BY <1>1, BackupMoves
    <2>4. CASE runs[r].life = "locked"
      BY <2>1, <2>3, <2>4, WrapFields
    <2>5. CASE runs[r].life = "live"
      BY <2>1, <2>5 DEF AtWork, RunsFit, RunFits, WorkFits
    <2> QED BY <2>2, <2>4, <2>5
  <1> QED BY <1>1, WrapCalls

\* The code that a live run is about to show opens the wrap, if that was not put late.
LEMMA CodesStand ==
    ASSUME BaseInv, RunsFit, AloneInv, NEW r \in Run, Stepping(r), NEW q \in Run
    PROVE  CodeStands(runs[q])'
  <1> SUFFICES ASSUME runs'[q].life = "live", runs'[q].at \in {"wrap_answer", "shown"}
               PROVE  wrap'.late \/ wrap'.code = runs'[q].code
    BY DEF CodeStands
  <1>0. /\ SetupTypeOK /\ RunShape /\ StoreInv /\ OneAtWork /\ RunsStand /\ MastersApart
        /\ q[1] \in Profile /\ r[1] \in Profile
        /\ \A x \in Run : x # r => runs'[x] = runs[x]
    BY StepMoves, RunTypes DEF OneMoves, BaseInv, AloneInv
  <1>1. CASE q # r
    <2>1. runs'[q] = runs[q] /\ AtWork(runs[q]) /\ runs[q].at \in Keyed
      BY <1>0, <1>1 DEF AtWork, Keyed, Waiting
    <2>2. record[q[1]] # None /\ Backed(record[q[1]])
      BY <2>1 DEF RunsFit, RunFits, WorkFits
    <2>3. CASE UNCHANGED wrap
      BY <1>0, <2>1, <2>3 DEF RunsStand, CodeStands
    <2>4. CASE AtWork(runs[r]) /\ record[r[1]] # None /\ Backed(record[r[1]])
      <3>1. r[1] = q[1]
        BY <1>0, <2>2, <2>4, OneMaster
      <3> QED BY <1>0, <1>1, <2>1, <2>4, <3>1 DEF OneAtWork
    <2> QED BY <1>0, <2>3, <2>4, WrapPut
  <1>2. CASE q = r
    <2>1. /\ runs[r].life = "live" /\ runs'[r].code = runs[r].code
          /\ \/ runs[r].at = "wrapping" /\ wrap' = WrapOf(runs[r])
             \/ runs[r].at \in {"wrap_answer", "shown"} /\ UNCHANGED wrap
      BY <1>0, <1>2, StandsStep
    <2>2. CASE runs[r].at = "wrapping" /\ wrap' = WrapOf(runs[r])
      <3>1. runs[r].tag \in Scope /\ runs[r].code \in Recovery
        BY <1>0, <2>2 DEF RunShape, Shape, Tagged, Coded
      <3> QED BY <1>2, <2>1, <2>2, <3>1, WrapFields
    <2>3. CASE runs[r].at \in {"wrap_answer", "shown"} /\ UNCHANGED wrap
      BY <1>0, <1>2, <2>1, <2>3 DEF RunsStand, CodeStands
    <2> QED BY <2>1, <2>2, <2>3
  <1> QED BY <1>1, <1>2

\* Setup is done once the code is confirmed, and stays so beside the steps of others.
LEMMA DoneStays ==
    ASSUME SetupTypeOK, RunShape, RunsFit, RecordsFit, NEW r \in Run, Stepping(r),
           NEW p \in Profile, record'[p] # None, record'[p].stage = "done"
    PROVE  \/ p = r[1] /\ ConfirmRecoveryCode(r)
           \/ record[p] # None /\ record[p].stage = "done" /\ paper'[p] = paper[p]
  <1>0. /\ record \in [Profile -> Record \cup {None}] /\ r[1] \in Profile
        /\ paper \in [Profile -> Recovery \cup {None}]
    BY RunTypes DEF SetupTypeOK
  <1>1. CASE ConfirmRecoveryCode(r) /\ p # r[1]
    <2>1. record'[p] = record[p] /\ paper' = [paper EXCEPT ![r[1]] = runs[r].code]
      BY <1>1, RecordStep DEF ConfirmRecoveryCode
    <2> QED BY <1>0, <1>1, <2>1
  <1>2. CASE ~ConfirmRecoveryCode(r)
    <2>1. UNCHANGED paper
      BY <1>2, PaperCalls
    <2>2. CASE record'[p] = record[p]
      BY <2>1, <2>2
    <2>3. CASE p = r[1] /\ Wipes(r)
      BY <1>0, <2>3 DEF Wipes
    <2>4. CASE p = r[1] /\ Seals(r)
      <3>1. PICK d \in Device : record' = [record EXCEPT ![p] =
               [key |-> d, stage |-> "keys_created", mode |-> None, at |-> now, grant |-> None]]
        BY <2>4 DEF Seals
      <3>2. record'[p] = [key |-> d, stage |-> "keys_created", mode |-> None, at |-> now,
                          grant |-> None]
        BY <1>0, <3>1
      <3> QED BY <3>2
    <2>5. CASE p = r[1] /\ Restages(r)
      BY <1>2, <2>2, <2>5, Written
    <2>6. CASE p = r[1] /\ Mints(r)
      BY <1>0, <2>1, <2>6, Regranted DEF Mints
    <2> QED BY <2>2, <2>3, <2>4, <2>5, <2>6, RecordStep, RecordSteps
  <1> QED BY <1>1, <1>2

\* Once setup is done the code she confirmed opens the wrap, if that was not put late.
LEMMA PapersStand ==
    ASSUME BaseInv, RunsFit, RecordsFit, AloneInv, NEW r \in Run, Stepping(r),
           NEW p \in Profile, record'[p] # None, record'[p].stage = "done"
    PROVE  wrap'.late \/ wrap'.code = paper'[p]
  <1>0. /\ SetupTypeOK /\ RunShape /\ StoreInv /\ OneAtWork /\ RunsStand /\ PaperStands
        /\ MastersApart /\ r[1] \in Profile /\ paper \in [Profile -> Recovery \cup {None}]
    BY RunTypes DEF BaseInv, AloneInv, SetupTypeOK
  <1>1. CASE p = r[1] /\ ConfirmRecoveryCode(r)
    <2>1. /\ runs[r].life = "live" /\ runs[r].at = "shown" /\ UNCHANGED wrap
          /\ paper' = [paper EXCEPT ![p] = runs[r].code]
      BY <1>1 DEF ConfirmRecoveryCode, Live
    <2>2. wrap.late \/ wrap.code = runs[r].code
      BY <1>0, <2>1 DEF RunsStand, CodeStands
    <2> QED BY <1>0, <2>1, <2>2
  <1>2. CASE record[p] # None /\ record[p].stage = "done" /\ paper'[p] = paper[p]
    <2>1. CASE UNCHANGED wrap
      BY <1>0, <1>2, <2>1 DEF PaperStands
    <2>2. CASE /\ runs[r].at = "wrapping" /\ AtWork(runs[r])
               /\ record[r[1]] # None /\ Backed(record[r[1]])
      <3>1. Backed(record[p])
        BY <1>2 DEF RecordsFit, StageFits
      <3>2. p = r[1]
        BY <1>0, <1>2, <2>2, <3>1, OneMaster
      <3>3. record[p].stage # "done"
        BY <1>0, <2>2, <3>2 DEF RunsStand, StageStands, Keyed, Waiting
      <3> QED BY <1>2, <3>3
    <2> QED BY <1>0, <2>1, <2>2, WrapPut
  <1> QED BY <1>0, <1>1, <1>2, DoneStays

\* A master is minted fresh.
LEMMA MastersStep ==
    ASSUME SetupTypeOK, RunShape, MastersApart, NEW r \in Run, Stepping(r)
    PROVE  MastersApart'
  <1>1. ASSUME NEW p \in Profile, record'[p] # None, record'[p].grant \in Scope
        PROVE  \/ record[p] # None /\ record'[p].grant = record[p].grant
               \/ p = r[1] /\ record'[p].grant \in FreshTags
    BY <1>1, RecordKeeps, NoneIsNothing
  <1>2. ASSUME NEW p \in Profile, NEW q \in Profile, record'[p] # None, record'[q] # None,
               record'[p].grant \in Scope, record'[q].grant = record'[p].grant
        PROVE  p = q
    <2>1. CASE record[p] # None /\ record'[p].grant = record[p].grant
      <3>1. CASE record[q] # None /\ record'[q].grant = record[q].grant
        BY <1>2, <2>1, <3>1 DEF MastersApart
      <3>2. CASE record'[q].grant \in FreshTags
        BY <1>2, <2>1, <3>2, Fresh
      <3> QED BY <1>1, <1>2, <3>1, <3>2
    <2>2. CASE p = r[1] /\ record'[p].grant \in FreshTags
      <3>1. CASE record[q] # None /\ record'[q].grant = record[q].grant
        BY <1>2, <2>2, <3>1, Fresh
      <3>2. CASE q = r[1]
        BY <2>2, <3>2
      <3> QED BY <1>1, <1>2, <3>1, <3>2
    <2> QED BY <1>1, <1>2, <2>1, <2>2
  <1> QED BY <1>2 DEF MastersApart

\* While runs are apart, every step keeps the vault, the records and the runs at one.
LEMMA FitStep ==
    ASSUME BaseInv, FitInv, NEW r \in Run, Stepping(r), Apart'
    PROVE  FitInv'
  <1>0. /\ SetupTypeOK /\ RunShape /\ FinishAlone /\ KeysApart /\ RunsFit /\ RecordsFit
        /\ StreamsApart /\ WrapIsMaster
    BY DEF FitInv, BaseInv
  <1>1. FinishAlone' /\ KeysApart' /\ StreamsApart' /\ WrapIsMaster'
    BY <1>0, FinishStep, KeysStep, StreamsStep, WrapStep
  <1>2. ASSUME NEW q \in Run PROVE RunFitsNext(runs'[q], record'[q[1]])
    BY <1>0, OthersFit, OwnFits
  <1>3. RunsFit'
    BY <1>2 DEF RunsFit, RunFits, RunFitsNext, AtWork, WorkFits, WorkFitsNext, Stands, TagFits,
       SentFits, SentFitsNext, Backed, BackedNext, Granted, GrantedNext, Keyed, Waiting
  <1>4. ASSUME NEW p \in Profile, record'[p] # None
        PROVE  StageFitsNext(record'[p]) /\ AclIsVaultNext(record'[p])
    BY <1>0, <1>4, StagesStep, AclStep
  <1>5. RecordsFit'
    BY <1>4 DEF RecordsFit, StageFits, StageFitsNext, AclIsVault, AclIsVaultNext, Backed,
       BackedNext, Granted, GrantedNext
  <1> QED BY <1>1, <1>3, <1>5 DEF FitInv

\* While no window opens beside one at work, every step keeps one at work, and the paper at
\* one with the wrap.
LEMMA AloneStep ==
    ASSUME BaseInv, FitInv, AloneInv, NEW r \in Run, Stepping(r), Alone'
    PROVE  AloneInv'
  <1>0. /\ SetupTypeOK /\ RunShape /\ RunsFit /\ RecordsFit /\ OneAtWork /\ RunsStand
        /\ MastersApart
    BY DEF FitInv, BaseInv, AloneInv
  <1>1. OneAtWork' /\ MastersApart'
    BY <1>0, OneStep, MastersStep
  <1>2. ASSUME NEW q \in Run, AtWork(runs'[q]) PROVE StageStands(runs'[q], record'[q[1]])
    BY <1>0, <1>2, StagesStand
  <1>3. ASSUME NEW q \in Run PROVE CodeStands(runs[q])'
    BY <1>0, <1>3, CodesStand
  <1>4. RunsStand'
    BY <1>2, <1>3 DEF RunsStand, AtWork, StageStands
  <1>5. PaperStands'
    BY <1>0, PapersStand DEF PaperStands
  <1> QED BY <1>1, <1>4, <1>5 DEF AloneInv

LEMMA VaultStep ==
    ASSUME VaultInv, [SetupNext]_vars
    PROVE  VaultInv'
  <1>0. BaseInv /\ (Apart => FitInv) /\ (Alone => AloneInv)
    BY DEF VaultInv
  <1>1. BaseInv'
    BY <1>0, BaseStep
  <1>2. ASSUME NEW r \in Run, Stepping(r) PROVE VaultInv'
    <2>1. (Apart' => Apart) /\ (Alone' => Alone) /\ (Alone => Apart)
      BY <1>2, ApartBefore
    <2>2. Apart' => FitInv'
      BY <1>0, <1>2, <2>1, FitStep
    <2>3. Alone' => AloneInv'
      BY <1>0, <1>2, <2>1, AloneStep
    <2> QED BY <1>1, <2>2, <2>3 DEF VaultInv
  <1>3. ASSUME UNCHANGED <<scopeVars, setupVars>> PROVE VaultInv'
    <2>1. UNCHANGED <<kind, acl, record, manifest, runs, wrap, paper, crossed>>
      BY <1>3 DEF scopeVars, setupVars
    <2>2. ASSUME FitInv PROVE FitInv'
      <3>1. FinishAlone' /\ KeysApart' /\ StreamsApart' /\ WrapIsMaster'
        BY <2>1, <2>2 DEF FitInv, FinishAlone, KeysApart, StreamsApart, WrapIsMaster, Masters
      <3>2. RunsFit'
        BY <2>1, <2>2
           DEF FitInv, RunsFit, RunFits, AtWork, WorkFits, TagFits, SentFits, Backed, Granted
      <3>3. RecordsFit'
        BY <2>1, <2>2 DEF FitInv, RecordsFit, StageFits, AclIsVault, Backed, Granted
      <3> QED BY <3>1, <3>2, <3>3 DEF FitInv
    <2>3. ASSUME AloneInv PROVE AloneInv'
      BY <2>1, <2>3 DEF AloneInv, OneAtWork, AtWork, RunsStand, StageStands, CodeStands,
         PaperStands, MastersApart
    <2>4. (Apart' => Apart) /\ (Alone' => Alone)
      BY <2>1 DEF Apart, Alone
    <2> QED BY <1>0, <1>1, <2>2, <2>3, <2>4 DEF VaultInv
  <1>4. CASE Elsewhere
    BY <1>3, <1>4, ElsewhereIsQuiet
  <1>5. CASE UNCHANGED vars
    BY <1>3, <1>5 DEF vars, storeVars, scopeVars, setupVars
  <1> QED BY <1>2, <1>4, <1>5, StepCases

\* No record, no run, nothing granted.
LEMMA VaultInit == SetupInit => VaultInv
  <1> SUFFICES ASSUME SetupInit PROVE VaultInv
    OBVIOUS
  <1>1. \A r \in Run : runs[r] = NoRun /\ runs[r].life = "free" /\ runs[r].at = None
    BY FreeRun DEF SetupInit
  <1>2. \A p \in Profile : record[p] = None
    BY DEF SetupInit
  <1>3. RunsFit
    BY <1>1, FreeFits DEF RunsFit
  <1>4. FinishAlone /\ KeysApart /\ RecordsFit
    BY <1>1, <1>2, NoneIsNothing DEF FinishAlone, KeysApart, RecordsFit, InFinish, Screen
  <1>5. StreamsApart /\ WrapIsMaster
    BY DEF StreamsApart, WrapIsMaster, SetupInit
  <1>6. AloneInv
    BY <1>1, <1>2
       DEF AloneInv, OneAtWork, AtWork, RunsStand, CodeStands, PaperStands, MastersApart
  <1> QED BY <1>3, <1>4, <1>5, <1>6, BaseInit DEF VaultInv, FitInv

-----------------------------------------------------------------------------
(* The theorems *)

\* In any number of windows, as long as no two runs were inside finish and none wiped the
\* record of another at work: the master the relay has for a device is its vault's, and a
\* period it has is one whose key that master's manifest keeps.
THEOREM MintedOnce == SetupSpec => []MasterMatchesVault
  <1>1. VaultInv => MasterMatchesVault
    <2> SUFFICES ASSUME VaultInv, Apart, NEW p \in Profile, record[p] # None
                 PROVE  /\ acl[record[p].key] \cap Masters \subseteq {record[p].grant}
                        /\ \A s \in acl[record[p].key] \ Masters :
                              record[p].grant # None /\ s \in manifest[record[p].grant].streams
      BY DEF MasterMatchesVault, VaultIsGranted
    <2> DEFINE rec == record[p]
    <2>1. /\ SetupTypeOK /\ StreamsApart /\ AclIsVault(rec)
          /\ rec.grant \in Scope \cup {None}
      BY RecordTypes DEF VaultInv, BaseInv, FitInv, RecordsFit
    <2>2. CASE rec.grant = None
      BY <2>1, <2>2 DEF AclIsVault
    <2>3. CASE rec.grant # None
      <3>1. rec.grant \in Scope
              /\ acl[rec.key] \subseteq {rec.grant} \cup manifest[rec.grant].streams
        BY <2>1, <2>3 DEF AclIsVault
      <3>2. \A s \in manifest[rec.grant].streams : kind[s] # "master"
        BY <2>1, <3>1 DEF StreamsApart
      <3>3. acl[rec.key] \cap Masters \subseteq {rec.grant}
        BY <3>1, <3>2 DEF Masters
      <3>4. ASSUME NEW s \in acl[rec.key] \ Masters PROVE s \in manifest[rec.grant].streams
        BY <2>1, <2>3, <3>1, <3>4 DEF AclIsVault, Masters
      <3> QED BY <2>3, <3>3, <3>4
    <2> QED BY <2>2, <2>3
  <1> QED BY <1>1, VaultInit, VaultStep, PTL DEF SetupSpec

\* Likewise a setup that is done has a master that the relay has granted, a wrap of it, and
\* one stream whose period is granted, too; the wrap opens with the code she confirmed, if no
\* window opened beside one at work and it was not put for a run she had locked.
THEOREM DoneCanBeRecovered == SetupSpec => []DoneIsBackedUp
  <1>1. VaultInv => DoneIsBackedUp
    <2> SUFFICES ASSUME VaultInv, Apart, NEW p \in Profile, record[p] # None,
                        record[p].stage = "done"
                 PROVE  LET granted == acl[record[p].key]
                            master == record[p].grant
                        IN /\ master \in granted \cap Masters
                           /\ wrap # None /\ wrap.tag = master
                           /\ Alone /\ ~wrap.late => wrap.code = paper[p]
                           /\ record[p].key \in manifest[master].devices
                           /\ Cardinality(manifest[master].streams) = 1
                           /\ manifest[master].streams \subseteq granted
      BY DEF DoneIsBackedUp
    <2> DEFINE rec == record[p]
    <2>1. /\ SetupTypeOK /\ StreamsApart /\ MasterStaysWithTheOwners /\ WrapIsMaster
          /\ rec.grant \in Scope /\ Granted(rec.key, rec.grant) /\ wrap # None
      BY DEF VaultInv, BaseInv, StoreInv, FitInv, RecordsFit, StageFits, Backed
    <2>2. rec.grant \in acl[rec.key] \cap Masters /\ wrap.tag = rec.grant
      BY <2>1 DEF Granted, Masters, WrapIsMaster, MasterStaysWithTheOwners
    <2>3. Cardinality(manifest[rec.grant].streams) = 1
      <3>1. PICK s \in manifest[rec.grant].streams : manifest[rec.grant].streams = {s}
        BY <2>1 DEF Granted, StreamsApart
      <3> QED BY <3>1, FS_Singleton
    <2>4. Alone /\ ~wrap.late => wrap.code = paper[p]
      BY DEF VaultInv, AloneInv, PaperStands
    <2> QED BY <2>1, <2>2, <2>3, <2>4 DEF Granted
  <1> QED BY <1>1, VaultInit, VaultStep, PTL DEF SetupSpec

\* While no window opens beside one at work, a late step moves no stage back, but to the
\* `redeemed' that recordStage writes at any time.
THEOREM StagesOnlyAdvance == SetupSpec => LateStepsMoveNothing
  <1> DEFINE Advances ==
        \A p \in Profile :
           crossed' = {} /\ record[p] # None /\ record'[p] # None
           /\ record'[p].stage # "redeemed" /\ record'[p].key = record[p].key
           => StageRank(record'[p].stage) >= StageRank(record[p].stage)
  <1>0. \A s \in Stage : StageRank(s) \in Int /\ StageRank(s) >= StageRank(s)
    BY DEF Stage, StageRank
  <1>1. ASSUME VaultInv, NEW r \in Run, Stepping(r), NEW p \in Profile, crossed' = {},
               record[p] # None, record'[p] # None, record'[p].stage # "redeemed",
               record'[p].key = record[p].key
        PROVE  StageRank(record'[p].stage) >= StageRank(record[p].stage)
    <2> DEFINE n == runs[r]
               rec == record[p]
               new == record'[p]
    <2>0. /\ SetupTypeOK /\ RunShape /\ RunsStand /\ rec \in Record /\ new \in Record
          /\ rec.stage \in Stage /\ record \in [Profile -> Record \cup {None}]
      <3>1. Alone
        BY <1>1, ApartBefore DEF Alone
      <3> QED BY <1>1, <3>1, RecordTypes, RecordStep
              DEF VaultInv, BaseInv, AloneInv, SetupTypeOK
    <2>1. CASE new.stage = rec.stage
      BY <1>0, <2>0, <2>1
    <2>2. CASE p = r[1] /\ new.stage # rec.stage
      <3>0. AtWork(n) => StageStands(n, rec)
        BY <2>0, <2>2 DEF RunsStand
      <3>1. CASE UNCHANGED record
        BY <2>2, <3>1
      <3>2. CASE Wipe(r) \/ \E d \in Device : SealVault(r, d)
        <4>1. Wipe(r) => FALSE
          BY <1>1, <2>0, <2>2 DEF Wipe
        <4>2. ASSUME NEW d \in Device, SealVault(r, d) PROVE FALSE
          BY <1>1, <2>2, <4>2 DEF SealVault
        <4> QED BY <3>2, <4>1, <4>2
      <3>3. CASE TakeList(r) \/ TakeRedeem(r)
        <4>1. ASSUME NEW m \in Mode, RecordStage(p, "redeemed", m) PROVE FALSE
          BY <1>1, <2>0, <4>1, Restaged DEF Stage
        <4>2. \/ UNCHANGED record
              \/ n.mode \in Mode /\ RecordStage(r[1], "redeemed", n.mode)
          <5>1. TakeList(r) => n.mode \in Mode \cup {None}
            BY <2>0 DEF TakeList, RunShape, Shape
          <5>2. TakeRedeem(r) => n.mode \in Mode \cup {"refused"}
            BY <2>0 DEF TakeRedeem, RunShape, Shape
          <5> QED BY <2>0, <3>3, <5>1, <5>2, RedeemMoves DEF Learns
        <4> QED BY <2>2, <3>1, <4>1, <4>2
      <3>4. CASE TakeGrant(r)
        <4>1. CASE UNCHANGED record
          BY <3>1, <4>1
        <4>2. CASE n.life = "live" /\ RecordStage(r[1], "scopes_granted", "first")
          <5>1. rec.stage = "redeemed"
            BY <3>0, <3>4, <4>2 DEF TakeGrant, AtWork, StageStands, Finishing
          <5>2. new.stage = "scopes_granted"
            BY <1>1, <2>0, <2>2, <4>2, Restaged DEF Stage, Mode
          <5> QED BY <5>1, <5>2 DEF StageRank
        <4> QED BY <2>0, <3>4, <4>1, <4>2, MintMoves
      <3>5. CASE IssueRecoveryCode(r)
        <4>1. rec.stage # "done"
          BY <3>0, <3>5 DEF IssueRecoveryCode, Live, AtWork, StageStands, Keyed
        <4>2. new.stage = "recovery_pending"
          BY <1>1, <2>0, <2>2, <3>5, Restaged DEF IssueRecoveryCode, Stage, Mode
        <4> QED BY <2>0, <4>1, <4>2 DEF Stage, StageRank
      <3>6. CASE ConfirmRecoveryCode(r)
        <4>1. new.stage = "done"
          BY <1>1, <2>0, <2>2, <3>6, Restaged DEF ConfirmRecoveryCode, Stage, Mode
        <4> QED BY <2>0, <4>1 DEF Stage, StageRank
      <3>7. ASSUME NEW t \in Scope, Mint(r, t) PROVE FALSE
        <4>1. ASSUME record' = [record EXCEPT ![p].grant = t] PROVE FALSE
          BY <1>1, <2>0, <2>2, <4>1, Regranted
        <4> QED BY <2>0, <2>2, <3>1, <3>7, <4>1, MintMoves
      <3> QED BY <1>1, <3>1, <3>2, <3>3, <3>4, <3>5, <3>6, <3>7, RestageCalls
    <2>3. CASE p # r[1]
      BY <1>1, <2>0, <2>1, <2>3, RecordStep
    <2> QED BY <2>1, <2>2, <2>3
  <1>2. VaultInv /\ [SetupNext]_vars => [Advances]_vars
    <2> SUFFICES ASSUME VaultInv, [SetupNext]_vars, vars' # vars PROVE Advances
      OBVIOUS
    <2>1. ASSUME Elsewhere PROVE Advances
      <3>1. UNCHANGED record
        BY <2>1, ElsewhereIsQuiet DEF setupVars
      <3>2. ASSUME NEW p \in Profile, record[p] # None PROVE record[p].stage \in Stage
        BY <3>2, RecordTypes DEF VaultInv, BaseInv
      <3> QED BY <1>0, <3>1, <3>2
    <2> QED BY <1>1, <2>1, StepCases
  <1> QED BY <1>2, VaultInit, VaultStep, PTL DEF SetupSpec, LateStepsMoveNothing
=============================================================================

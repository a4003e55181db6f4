--------------------------- MODULE HilHost_proofs ---------------------------
(***************************************************************************)
(* The relay and the two jobs of the host, for every number of relay       *)
(* boards, serials, workflows, commits and power cycles.                   *)
(*                                                                         *)
(* The two halves are independent: each has an inductive invariant of its  *)
(* own, RelayInv and CiInv.                                                *)
(***************************************************************************)
EXTENDS HilHost, FiniteSetTheorems, TLAPS

----------------------------------------------------------------------------
(* The invariants *)

\* A serial chosen with Ours on the bus is no other board's.
Apart ==
    /\ sawOurs => switched \subseteq {Ours} /\ \A b \in Others : serial[b] # id
    /\ call = "resolve" => switched = {}

\* Once the cut is confirmed the supply has been off, and it is on again only
\* through a command that has reached it.
Darkened ==
    sawOurs =>
        /\ call \in {"restore", "checkRestore"} => dark /\ (on[Ours] => Ours \in switched)
        /\ call = "ok" => dark /\ Ours \in switched

\* As long as nothing moves or fails, the chosen board answers as commanded.
Calmly ==
    calm =>
        /\ call \in {"cut", "checkCut", "restore", "checkRestore"} => Named # {}
        /\ call = "checkCut" => \A b \in Named : ~on[b]
        /\ call = "checkRestore" => \A b \in Named : on[b]

RelayInv == RelayTypeOK /\ Apart /\ Darkened /\ Calmly /\ CorruptSerialIsSurvived

\* One runner: at most one job has started.
Alone == \A v, w \in Workflows : v # w => At(v, "none") \/ At(w, "none")

Early == {"none", "checkout", "fetch", "switch", "hil", "provenance", "hardware"}
Late == {"rundir", "summary", "upload", "verdict", "over"}

\* What job w has made sure of by each of its steps.
Sure(w) ==
    LET j == job[w] IN
    /\ j.step \in Early => j.exit = NoExit /\ j.rundir = "none" /\ j.published = "none"
    /\ j.step = "switch" => j.meant = Resolved(j.ref)
    /\ j.step \in HilSteps => clone.head = j.meant /\ j.meant \in Commits
    /\ j.step = "hardware" => j.recorded = j.meant
    /\ j.step \in Late /\ j.exit = 0 =>
          j.recorded = j.meant /\ j.meant \in Commits /\ dirs[w] = "own"
    /\ j.step \in Late \ {"rundir"} /\ j.exit = 0 => j.rundir = "own"
    /\ j.step \in {"verdict", "over"} /\ j.exit = 0 /\ j.ok => j.published = "own"
    /\ j.step = "over" /\ j.ok => j.exit = 0
    /\ j.clean => dirs[w] # "old" /\ j.rundir # "old" /\ j.published # "old"

CiInv == CiTypeOK /\ Alone /\ \A w \in Workflows : Sure(w)

HostInv == RelayInv /\ CiInv /\ cycles \in 0 .. MaxCycles

----------------------------------------------------------------------------
(* The relay *)

\* One board on the bus shows one serial.
LEMMA OneSeen == ASSUME NEW b, attached = {b} PROVE Cardinality(Seen) = 1
<1>1. Seen = {serial[b]}
  BY DEF Seen
<1> QED
  BY <1>1, FS_Singleton

\* Only so many relay boards exist.
LEMMA BusIsFinite == ASSUME RelayTypeOK PROVE IsFiniteSet(attached)
<1>1. IsFiniteSet(Boards)
  BY RelayAssumption, FS_EmptySet, FS_AddElement, FS_Union DEF Boards
<1> QED
  BY <1>1, FS_Subset DEF RelayTypeOK

\* One serial on the bus is that of every board there.
LEMMA OnlySeen ==
    ASSUME RelayTypeOK, Cardinality(Seen) = 1, NEW a \in attached, NEW s \in Seen
    PROVE s = serial[a]
<1>2. IsFiniteSet(attached)
  BY BusIsFinite
<1>3. IsFiniteSet(Seen)
  <2> DEFINE f == [b \in attached |-> serial[b]]
  <2>1. f \in Surjection(attached, Seen)
    BY DEF Surjection, Seen
  <2> QED
    BY <1>2, <2>1, FS_Surjection
<1>4. PICK x : Seen = {x}
  BY <1>3, FS_Singleton
<1> QED
  BY <1>4 DEF Seen

\* No call is under way.
LEMMA RelayInitHolds == ASSUME RelayInit PROVE RelayInv
<1>1. RelayTypeOK
  <2>1. on \in [Boards -> BOOLEAN] /\ attached \subseteq Boards
    BY DEF RelayInit
  <2>2. sawOurs \in BOOLEAN /\ dark \in BOOLEAN /\ calm \in BOOLEAN
    BY Zenon DEF RelayInit
  <2> QED
    BY <2>1, <2>2, RelayAssumption DEF RelayInit, RelayTypeOK, Calls
<1> QED
  BY <1>1 DEF RelayInit, RelayInv, Apart, Darkened, Calmly, CorruptSerialIsSurvived

\* The history variables stay truth values.
LEMMA WatchTyped == ASSUME Watch PROVE dark' \in BOOLEAN
  BY Zenon DEF Watch

\* A call starts with no command sent.
LEMMA BeginPreserves == ASSUME RelayInv, Begin PROVE RelayInv'
<1>1. RelayTypeOK'
  <2>1. dark' \in BOOLEAN /\ sawOurs' \in BOOLEAN /\ calm' \in BOOLEAN
    BY Zenon DEF Begin
  <2> QED
    BY <2>1 DEF RelayInv, RelayTypeOK, GoodSerials, Begin, busVars, Calls
<1> QED
  BY <1>1 DEF Begin, RelayInv, Apart, Darkened, Calmly, CorruptSerialIsSurvived

\* The end of a call is forgotten.
LEMMA ForgetPreserves == ASSUME RelayInv, Forget PROVE RelayInv'
<1>1. RelayTypeOK'
  <2>1. dark' \in BOOLEAN /\ sawOurs' \in BOOLEAN /\ calm' \in BOOLEAN
    BY Zenon DEF Forget
  <2> QED
    BY <2>1, RelayAssumption DEF RelayInv, RelayTypeOK, GoodSerials, Forget, busVars, Calls
<1> QED
  BY <1>1 DEF Forget, RelayInv, Apart, Darkened, Calmly, CorruptSerialIsSurvived

\* RELAY_SERIAL is nobody else's, and neither is the serial of the one board there.
LEMMA ResolvePreserves == ASSUME RelayInv, Resolve PROVE RelayInv'
<1>1. RelayTypeOK /\ call = "resolve" /\ UNCHANGED <<attached, serial, on, switched>>
  BY DEF RelayInv, Resolve, NoEffect, busVars
<1>2. Seen \subseteq Serials /\ Choose \subseteq Seen
  BY <1>1 DEF Seen, RelayTypeOK, GoodSerials, Choose
<1>3. dark' \in BOOLEAN
  BY WatchTyped DEF Resolve
<1>4. switched = {}
  BY <1>1 DEF RelayInv, Apart
<1>5. CASE UsbrelayFails
  <2>1. calm' \in BOOLEAN /\ ~calm'
    BY <1>5, Zenon DEF UsbrelayFails
  <2>2. RelayTypeOK'
    BY <1>1, <1>3, <1>5, <2>1 DEF UsbrelayFails, RelayTypeOK, GoodSerials, Calls
  <2> QED
    BY <1>1, <1>4, <1>5, <2>1, <2>2 DEF UsbrelayFails, RelayInv, Apart, Darkened, Calmly,
       CorruptSerialIsSurvived
<1>6. CASE Choose = {} /\ call' = "error" /\ UNCHANGED <<id, sawOurs, calm>>
  <2>1. RelayTypeOK'
    BY <1>1, <1>3, <1>6 DEF RelayTypeOK, GoodSerials, Calls
  <2>2. RelaySerial \notin Seen /\ (Cardinality(Seen) = 1 => Seen = {})
    BY <1>6 DEF Choose
  <2>3. Cardinality(attached) # 1
    <3>1. ASSUME Cardinality(attached) = 1 PROVE FALSE
      <4>1. PICK b : attached = {b}
        BY <1>1, <3>1, BusIsFinite, FS_Singleton
      <4>2. Seen # {} /\ Cardinality(Seen) = 1
        BY <4>1, OneSeen DEF Seen
      <4> QED
        BY <2>2, <4>2
    <3> QED
      BY <3>1
  <2>4. Seen' = Seen /\ attached' = attached
    BY <1>1 DEF Seen
  <2> QED
    BY <1>1, <1>4, <1>6, <2>1, <2>2, <2>3, <2>4 DEF RelayInv, Apart, Darkened, Calmly,
       CorruptSerialIsSurvived
<1>7. CASE id' \in Choose /\ call' = "cut" /\ sawOurs' = (Ours \in attached) /\ UNCHANGED calm
  <2>1. sawOurs' \in BOOLEAN
    <3>1. (Ours \in attached) \in BOOLEAN
      OBVIOUS
    <3>2. sawOurs' = (Ours \in attached)
      BY <1>7
    <3> QED
      BY <3>1, <3>2, Zenon
  <2>2. RelayTypeOK'
    BY <1>1, <1>2, <1>3, <1>7, <2>1 DEF RelayTypeOK, GoodSerials, Calls
  <2>3. ASSUME Ours \in attached, NEW b \in Others PROVE serial[b] # id'
    <3>1. CASE id' = RelaySerial
      BY <1>1, <3>1 DEF RelayTypeOK, GoodSerials
    <3>2. CASE id' # RelaySerial
      <4>1. Cardinality(Seen) = 1 /\ id' \in Seen
        BY <1>7, <3>2 DEF Choose
      <4>2. id' = serial[Ours]
        BY <1>1, <2>3, <4>1, OnlySeen
      <4> QED
        BY <1>1, <4>2, RelayAssumption DEF RelayTypeOK, GoodSerials, Boards
    <3> QED
      BY <3>1, <3>2
  <2>4. Apart'
    BY <1>1, <1>4, <1>7, <2>3 DEF Apart
  <2>5. Named' # {}
    BY <1>1, <1>2, <1>7 DEF Named, Seen
  <2> QED
    BY <1>7, <2>2, <2>4, <2>5 DEF RelayInv, Darkened, Calmly, CorruptSerialIsSurvived
<1> QED
  BY <1>5, <1>6, <1>7 DEF Resolve

\* No command changes the bus itself; the boards it names are the chosen serial's.
LEMMA CommandPreserves ==
    ASSUME RelayInv, NEW at, NEW want \in BOOLEAN, NEW next, Command(at, want, next),
           \/ at = "cut" /\ want = FALSE /\ next = "checkCut"
           \/ at = "restore" /\ want = TRUE /\ next = "checkRestore"
    PROVE RelayInv'
<1>1. RelayTypeOK /\ Apart /\ Darkened /\ call = at
  BY DEF RelayInv, Command
<1>2. UNCHANGED <<attached, serial, id, sawOurs>> /\ call' \in {next, "error"}
  BY DEF Command, Set, NoEffect, UsbrelayFails, busVars
<1>3. Named' = Named /\ Named \subseteq Boards
  BY <1>1, <1>2 DEF Named, RelayTypeOK
<1>4. dark' \in BOOLEAN /\ (dark \/ ~on'[Ours] => dark')
  BY WatchTyped, Zenon DEF Command, Watch
<1>5. calm' \in BOOLEAN /\ (calm' => calm /\ Set(want) /\ call' = next)
  <2>1. CASE Set(want) /\ call' = next /\ UNCHANGED <<id, sawOurs, calm>>
    BY <1>1, <2>1 DEF RelayTypeOK
  <2>2. CASE calm' = FALSE
    BY <2>2, Zenon
  <2> QED
    BY <2>1, <2>2 DEF Command, UsbrelayFails
<1>6. Set(want) \/ UNCHANGED <<on, switched>>
  BY DEF Command, NoEffect, busVars
<1>7. on' \in [Boards -> BOOLEAN] /\ switched' \subseteq Boards
  BY <1>1, <1>3, <1>6 DEF Set, RelayTypeOK
<1>8. RelayTypeOK'
  BY <1>1, <1>2, <1>4, <1>5, <1>7 DEF RelayTypeOK, GoodSerials, Calls
<1>9. sawOurs => Named \subseteq {Ours}
  BY <1>1 DEF Apart, Named, RelayTypeOK, Boards
<1>10. Apart'
  BY <1>1, <1>2, <1>6, <1>9 DEF Apart, Set
<1>11. Darkened'
  <2>1. call' = "checkRestore" => at = "restore"
    BY <1>2
  <2>2. ASSUME sawOurs, at = "restore" PROVE dark' /\ (on'[Ours] => Ours \in switched')
    <3>1. dark /\ (on[Ours] => Ours \in switched)
      BY <1>1, <2>2 DEF Darkened
    <3>2. Ours \in Boards
      BY DEF Boards
    <3>3. on'[Ours] => Ours \in switched'
      BY <1>1, <1>6, <3>1, <3>2 DEF Set, RelayTypeOK
    <3> QED
      BY <1>4, <3>1, <3>3
  <2> QED
    BY <1>2, <2>1, <2>2 DEF Darkened
<1>12. Calmly'
  <2> SUFFICES ASSUME calm' PROVE Named' # {} /\ \A b \in Named' : on'[b] = want
    BY <1>2, <1>5 DEF Calmly
  <2>1. Named # {}
    BY <1>1, <1>5 DEF RelayInv, Calmly
  <2>2. \A b \in Named : on'[b] = want
    BY <1>3, <1>5 DEF Set
  <2> QED
    BY <1>3, <2>1, <2>2
<1>13. CorruptSerialIsSurvived'
  BY <1>5 DEF CorruptSerialIsSurvived
<1> QED
  BY <1>8, <1>10, <1>11, <1>12, <1>13 DEF RelayInv

\* A confirmed cut is a real one: the board that reads off is the chosen one.
LEMMA CheckPreserves ==
    ASSUME RelayInv, NEW at, NEW want \in BOOLEAN, NEW next, Check(at, want, next),
           \/ at = "checkCut" /\ want = FALSE /\ next = "restore"
           \/ at = "checkRestore" /\ want = TRUE /\ next = "ok"
    PROVE RelayInv'
<1>1. RelayTypeOK /\ Apart /\ Darkened /\ Calmly /\ call = at
  BY DEF RelayInv, Check
<1>2. UNCHANGED <<attached, serial, on, switched, id, sawOurs>> /\ call' \in {next, "error"}
  BY DEF Check, NoEffect, UsbrelayFails, busVars
<1>3. Named' = Named /\ Seen' = Seen
  BY <1>2 DEF Named, Seen
<1>4. dark' \in BOOLEAN /\ (dark \/ ~on'[Ours] => dark')
  BY WatchTyped, Zenon DEF Check, Watch
<1>5. calm' \in BOOLEAN /\ (calm' => calm) /\ (call' = "error" /\ calm' => \A b \in Named : on[b] # want)
  <2>1. CASE UNCHANGED calm /\ call' = IF \E b \in Named : on[b] = want THEN next ELSE "error"
    BY <1>1, <2>1 DEF RelayTypeOK
  <2>2. CASE UsbrelayFails
    BY <2>2, Zenon DEF UsbrelayFails
  <2> QED
    BY <2>1, <2>2 DEF Check
<1>6. call' = next => \E b \in Named : on[b] = want
  BY DEF Check, UsbrelayFails
<1>7. RelayTypeOK'
  BY <1>1, <1>2, <1>4, <1>5 DEF RelayTypeOK, GoodSerials, Calls
<1>8. Apart'
  BY <1>1, <1>2 DEF Apart
<1>9. sawOurs => Named \subseteq {Ours}
  BY <1>1 DEF Apart, Named, RelayTypeOK, Boards
<1>10. Darkened'
  <2>1. ASSUME sawOurs, call' = "restore" PROVE dark' /\ ~on'[Ours]
    <3>1. want = FALSE /\ \E b \in Named : on[b] = want
      BY <1>2, <1>6, <2>1
    <3>2. on[Ours] = FALSE
      BY <1>9, <2>1, <3>1
    <3> QED
      BY <1>2, <1>4, <3>2
  <2>2. ASSUME sawOurs, call' = "ok" PROVE dark' /\ Ours \in switched'
    <3>1. want = TRUE /\ at = "checkRestore" /\ \E b \in Named : on[b] = want
      BY <1>2, <1>6, <2>2
    <3>2. on[Ours] = TRUE
      BY <1>9, <2>2, <3>1
    <3>3. dark /\ (on[Ours] => Ours \in switched)
      BY <1>1, <2>2, <3>1 DEF Darkened
    <3> QED
      BY <1>2, <1>4, <3>2, <3>3
  <2>3. call' # "checkRestore"
    BY <1>2
  <2> QED
    BY <1>2, <2>1, <2>2, <2>3 DEF Darkened
<1>11. Calmly'
  BY <1>1, <1>2, <1>3, <1>5 DEF Calmly
<1>12. CorruptSerialIsSurvived'
  <2>1. ASSUME calm PROVE Named # {} /\ \A b \in Named : on[b] = want
    <3>1. Named # {} /\ Named \subseteq Boards
      BY <1>1, <2>1 DEF Calmly, Named, RelayTypeOK
    <3>2. CASE at = "checkCut" /\ want = FALSE
      <4>1. \A b \in Named : ~on[b]
        BY <1>1, <2>1, <3>2 DEF Calmly
      <4> QED
        BY <1>1, <3>1, <3>2, <4>1 DEF RelayTypeOK
    <3>3. CASE at = "checkRestore" /\ want = TRUE
      <4>1. \A b \in Named : on[b]
        BY <1>1, <2>1, <3>3 DEF Calmly
      <4> QED
        BY <1>1, <3>1, <3>3, <4>1 DEF RelayTypeOK
    <3> QED
      BY <3>1, <3>2, <3>3
  <2>2. ~(call' = "error" /\ calm')
    BY <1>5, <2>1
  <2> QED
    BY <2>2 DEF CorruptSerialIsSurvived
<1> QED
  BY <1>7, <1>8, <1>10, <1>11, <1>12 DEF RelayInv

\* Whatever moves on the bus gives no other board the chosen serial and no board
\* its supply.
LEMMA BusPreserves == ASSUME RelayInv, BusStep PROVE RelayInv'
<1>1. RelayTypeOK /\ Apart /\ Darkened
  BY DEF RelayInv
<1>2. UNCHANGED <<call, id, switched, sawOurs>>
  BY DEF BusStep, Reenumerate, Attach, Detach, Disturbed, callVars
<1>3. dark' \in BOOLEAN /\ (dark => dark')
  BY WatchTyped, Zenon DEF BusStep, Reenumerate, Attach, Detach, Disturbed, Watch
<1>4. calm' = (call = "none")
  BY DEF BusStep, Reenumerate, Attach, Detach, Disturbed
<1>5. calm' \in BOOLEAN
  <2>1. (call = "none") \in BOOLEAN
    OBVIOUS
  <2> QED
    BY <1>4, <2>1, Zenon
<1>6. on' \in [Boards -> BOOLEAN] /\ \A b \in Boards : on'[b] => on[b]
  BY <1>1 DEF BusStep, Reenumerate, Attach, Detach, RelayTypeOK
<1>7. attached' \subseteq Boards
  BY <1>1 DEF BusStep, Reenumerate, Attach, Detach, RelayTypeOK
<1>8. GoodSerials(serial)' /\ \A b \in Others : serial'[b] = serial[b]
  <2>1. CASE UNCHANGED serial
    BY <1>1, <2>1 DEF RelayTypeOK, GoodSerials
  <2>2. CASE Reenumerate
    BY <1>1, <2>2, RelayAssumption DEF Reenumerate, RelayTypeOK, GoodSerials, Boards
  <2> QED
    BY <2>1, <2>2 DEF BusStep, Attach, Detach
<1>9. RelayTypeOK'
  BY <1>1, <1>2, <1>3, <1>5, <1>6, <1>7, <1>8 DEF RelayTypeOK
<1>10. Ours \in Boards
  BY DEF Boards
<1> QED
  BY <1>1, <1>2, <1>3, <1>4, <1>6, <1>8, <1>9, <1>10
  DEF RelayInv, Apart, Darkened, Calmly, CorruptSerialIsSurvived

\* Nothing happens to call or bus.
LEMMA RelayStillPreserves == ASSUME RelayInv, UNCHANGED relayVars PROVE RelayInv'
<1>1. UNCHANGED <<attached, serial, on, call, id, switched, sawOurs, dark, calm>>
  BY DEF relayVars, busVars, callVars
<1>2. Named' = Named /\ Seen' = Seen
  BY <1>1 DEF Named, Seen
<1> QED
  BY <1>1, <1>2 DEF RelayInv, RelayTypeOK, GoodSerials, Apart, Darkened, Calmly,
     CorruptSerialIsSurvived

\* Every step of a call or of the bus.
LEMMA RelayPreserves == ASSUME RelayInv, [RelayNext]_relayVars PROVE RelayInv'
<1>1. CASE CycleStep
  <2>1. ASSUME Cut \/ Restore PROVE RelayInv'
    BY <2>1, CommandPreserves DEF Cut, Restore
  <2>2. ASSUME CheckCut \/ CheckRestore PROVE RelayInv'
    BY <2>2, CheckPreserves DEF CheckCut, CheckRestore
  <2> QED
    BY <1>1, <2>1, <2>2, ResolvePreserves DEF CycleStep
<1> QED
  BY <1>1, BeginPreserves, ForgetPreserves, BusPreserves, RelayStillPreserves DEF RelayNext

----------------------------------------------------------------------------
(* The jobs *)

\* The one job that has started moves, and leaves the others their directories or
\* none.
LEMMA OneMoves ==
    ASSUME CiInv, NEW w \in Workflows, NEW new \in Jobs, Update(w, new),
           job[w].step # "none" \/ \A v \in Workflows : At(v, "none"),
           main' \in Commits, clone' \in [origin : Commits, head : Commits],
           dirs' \in [Workflows -> Dirs],
           \A v \in Workflows \ {w} : dirs'[v] \in {dirs[v], "none"},
           Sure(w)'
    PROVE CiInv'
<1>1. job' \in [Workflows -> Jobs] /\ job'[w] = new
      /\ \A v \in Workflows \ {w} : job'[v] = job[v]
  BY DEF CiInv, CiTypeOK, Update
<1>2. CiTypeOK'
  BY <1>1 DEF CiTypeOK
<1>3. \A v \in Workflows \ {w} : At(v, "none") /\ At(v, "none")'
  BY <1>1 DEF CiInv, Alone, At
<1>4. Alone'
  BY <1>3 DEF Alone
<1>5. ASSUME NEW v \in Workflows \ {w} PROVE Sure(v)'
  <2>1. job'[v] = job[v] /\ job'[v].step = "none" /\ dirs'[v] \in {dirs[v], "none"}
    BY <1>1, <1>3 DEF At
  <2>2. Sure(v)
    BY DEF CiInv
  <2> QED
    BY <2>1, <2>2 DEF Sure, Early, Late, HilSteps
<1> QED
  BY <1>2, <1>4, <1>5 DEF CiInv

\* No job has run.
LEMMA CiInitHolds == ASSUME CiInit PROVE CiInv
<1>1. NoJob \in Jobs /\ NoJob.step = "none" /\ NoJob.exit = NoExit /\ ~NoJob.clean
      /\ NoJob.rundir = "none" /\ NoJob.published = "none"
  BY DEF NoJob, Jobs, Steps, NoCommit, NoExit, Dirs
<1>2. FirstCommit \in Commits
  BY CiAssumption DEF FirstCommit, Commits
<1>3. \A w \in Workflows : job[w] = NoJob
  BY DEF CiInit
<1>4. CiTypeOK
  BY <1>1, <1>2 DEF CiInit, CiTypeOK, Dirs
<1> QED
  BY <1>1, <1>3, <1>4 DEF CiInv, Alone, At, Sure, Early, Late, HilSteps

\* A push moves a ref, no clone and no record.
LEMMA PushPreserves == ASSUME CiInv, Push PROVE CiInv'
<1>1. main' \in Commits /\ UNCHANGED <<clone, job, dirs>>
  BY CiAssumption DEF CiInv, CiTypeOK, Push, Commits
<1> QED
  BY <1>1 DEF CiInv, CiTypeOK, Alone, At, Sure, Resolved

\* A job starts only on an idle runner, with an empty record.
LEMMA TriggerPreserves == ASSUME CiInv, NEW w \in Workflows, Trigger(w) PROVE CiInv'
<1>1. PICK r \in {"main", "tag"} : Update(w, [NoJob EXCEPT !.step = "checkout", !.ref = r])
  BY DEF Trigger
<1> DEFINE new == [NoJob EXCEPT !.step = "checkout", !.ref = r]
<1>2. new \in Jobs /\ new.step = "checkout" /\ new.exit = NoExit /\ ~new.clean
      /\ new.rundir = "none" /\ new.published = "none"
  BY DEF NoJob, Jobs, Steps, NoCommit, NoExit, Dirs
<1>3. CiTypeOK /\ UNCHANGED <<main, clone>>
      /\ dirs' = [dirs EXCEPT ![w] = IF @ = "none" THEN "none" ELSE "old"]
      /\ \A v \in Workflows : At(v, "none")
  BY DEF CiInv, Trigger
<1> HIDE DEF new
<1>4. job'[w] = new
  BY <1>1, <1>3 DEF Update, CiTypeOK, new
<1>5. Sure(w)'
  BY <1>2, <1>4 DEF Sure, Early, Late, HilSteps
<1>6. dirs' \in [Workflows -> Dirs] /\ \A v \in Workflows \ {w} : dirs'[v] \in {dirs[v], "none"}
  BY <1>3 DEF CiTypeOK, Dirs
<1> QED
  BY <1>1, <1>2, <1>3, <1>5, <1>6, OneMoves DEF CiTypeOK, new

\* A failed step takes the job to where no report of a verdict is its own.
LEMMA FailPreserves ==
    ASSUME CiInv, NEW w \in Workflows, Fail(w), job[w].step \in Early \ {"none"},
           UNCHANGED main, clone' \in [origin : Commits, head : Commits],
           dirs' \in [Workflows -> Dirs],
           \A v \in Workflows \ {w} : dirs'[v] \in {dirs[v], "none"},
           dirs'[w] \in {dirs[w], "none", "own"}
    PROVE CiInv'
<1>1. job[w] \in Jobs /\ Sure(w) /\ main' \in Commits
  BY DEF CiInv, CiTypeOK
<1> DEFINE new == [job[w] EXCEPT !.step = "rundir", !.ok = FALSE]
<1>2. /\ new \in Jobs /\ new.step = "rundir" /\ new.exit = job[w].exit
      /\ new.clean = job[w].clean /\ new.rundir = job[w].rundir /\ new.published = job[w].published
  BY <1>1 DEF Jobs, Steps
<1>3. Update(w, new)
  BY DEF Fail
<1> HIDE DEF new
<1>4. job'[w] = new
  BY <1>3 DEF Update, CiInv, CiTypeOK
<1>5. job[w].exit = NoExit
  BY <1>1 DEF Sure
<1>6. Sure(w)'
  BY <1>1, <1>2, <1>4, <1>5 DEF Sure, Early, Late, HilSteps, NoExit
<1>7. job[w].step # "none"
  BY DEF Early
<1> QED
  BY <1>1, <1>2, <1>3, <1>6, <1>7, OneMoves

\* A checkout empties the run directories, or fails.
LEMMA CheckoutPreserves == ASSUME CiInv, NEW w \in Workflows, Checkout(w) PROVE CiInv'
<1>1. CiTypeOK /\ job[w] \in Jobs /\ Sure(w) /\ job[w].step = "checkout" /\ UNCHANGED <<main, clone>>
  BY DEF CiInv, CiTypeOK, Checkout, At
<1>2. CASE Fail(w)
  <2>1. UNCHANGED dirs \/ dirs' = [v \in Workflows |-> "none"]
    BY DEF Checkout
  <2>2. dirs' \in [Workflows -> Dirs] /\ \A v \in Workflows : dirs'[v] \in {dirs[v], "none"}
    BY <1>1, <2>1 DEF CiTypeOK, Dirs
  <2> QED
    BY <1>1, <1>2, <2>2, FailPreserves DEF Early, CiTypeOK
<1>3. CASE /\ Update(w, [job[w] EXCEPT !.step = "fetch", !.clean = TRUE])
           /\ dirs' = [v \in Workflows |-> "none"]
  <2> DEFINE new == [job[w] EXCEPT !.step = "fetch", !.clean = TRUE]
  <2>1. /\ new \in Jobs /\ new.step = "fetch" /\ new.exit = job[w].exit
        /\ new.rundir = job[w].rundir /\ new.published = job[w].published
    BY <1>1 DEF Jobs, Steps
  <2> HIDE DEF new
  <2>2. job'[w] = new
    BY <1>1, <1>3 DEF Update, CiTypeOK, new
  <2>3. dirs' \in [Workflows -> Dirs] /\ \A v \in Workflows : dirs'[v] = "none"
    BY <1>3 DEF Dirs
  <2>4. Sure(w)'
    BY <1>1, <2>1, <2>2, <2>3 DEF Sure, Early, Late, HilSteps
  <2> QED
    BY <1>1, <1>3, <2>1, <2>3, <2>4, OneMoves DEF CiTypeOK, new
<1> QED
  BY <1>2, <1>3 DEF Checkout

\* A step of the job alone, of which `new' is what comes after it.
LEMMA JobMoves ==
    ASSUME CiInv, NEW w \in Workflows, NEW new \in Jobs, Update(w, new), job[w].step # "none",
           UNCHANGED <<main, clone, dirs>>,
           job'[w] = new => Sure(w)'
    PROVE CiInv'
<1>1. job'[w] = new
  BY DEF Update, CiInv, CiTypeOK
<1> QED
  BY <1>1, OneMoves DEF CiInv, CiTypeOK

\* The ref is resolved from what has just been fetched: main may move on.
LEMMA FetchPreserves == ASSUME CiInv, NEW w \in Workflows, Fetch(w) PROVE CiInv'
<1>1. CiTypeOK /\ job[w] \in Jobs /\ Sure(w) /\ job[w].step = "fetch" /\ UNCHANGED <<main, dirs>>
  BY DEF CiInv, CiTypeOK, Fetch, At
<1>2. CASE Fail(w) /\ UNCHANGED clone
  BY <1>1, <1>2, FailPreserves DEF Early, CiTypeOK
<1> DEFINE meant == IF job[w].ref = "main" THEN main ELSE FirstCommit
           new == [job[w] EXCEPT !.step = "switch", !.meant = meant]
<1>3. CASE Update(w, new) /\ clone' = [clone EXCEPT !.origin = main]
  <2>1. meant \in Commits
    BY <1>1, CiAssumption DEF CiTypeOK, Commits, FirstCommit
  <2> HIDE DEF meant
  <2>2. /\ new \in Jobs /\ new.step = "switch" /\ new.exit = job[w].exit /\ new.ref = job[w].ref
        /\ new.meant = meant /\ new.clean = job[w].clean
        /\ new.rundir = job[w].rundir /\ new.published = job[w].published
    BY <1>1, <2>1 DEF Jobs, Steps
  <2>3. clone' \in [origin : Commits, head : Commits] /\ clone'.origin = main
    BY <1>1, <1>3 DEF CiTypeOK
  <2>4. job'[w] = new
    BY <1>1, <1>3 DEF Update, CiTypeOK
  <2> HIDE DEF new
  <2>5. Sure(w)'
    BY <1>1, <2>2, <2>3, <2>4 DEF Sure, Early, Late, HilSteps, Resolved, meant
  <2> QED
    BY <1>1, <1>3, <2>2, <2>3, <2>5, OneMoves DEF CiTypeOK
<1> QED
  BY <1>2, <1>3 DEF Fetch

\* HEAD of the shared clone is this job's, as no other job is under way.
LEMMA SwitchPreserves == ASSUME CiInv, NEW w \in Workflows, Switch(w) PROVE CiInv'
<1>1. CiTypeOK /\ job[w] \in Jobs /\ Sure(w) /\ job[w].step = "switch" /\ UNCHANGED <<main, dirs>>
  BY DEF CiInv, CiTypeOK, Switch, At
<1>2. CASE Fail(w) /\ UNCHANGED clone
  BY <1>1, <1>2, FailPreserves DEF Early, CiTypeOK
<1> DEFINE r == Resolved(job[w].ref)
           new == [job[w] EXCEPT !.step = "hil", !.resolved = r]
<1>3. CASE Update(w, new) /\ clone' = [clone EXCEPT !.head = r]
  <2>1. r \in Commits /\ job[w].meant = r
    BY <1>1, CiAssumption DEF CiTypeOK, Commits, FirstCommit, Resolved, Sure
  <2> HIDE DEF r
  <2>2. /\ new \in Jobs /\ new.step = "hil" /\ new.exit = job[w].exit
        /\ new.meant = r /\ new.clean = job[w].clean
        /\ new.rundir = job[w].rundir /\ new.published = job[w].published
    BY <1>1, <2>1 DEF Jobs, Steps
  <2>3. clone' \in [origin : Commits, head : Commits] /\ clone'.head = r
    BY <1>1, <1>3, <2>1 DEF CiTypeOK
  <2>4. job'[w] = new
    BY <1>1, <1>3 DEF Update, CiTypeOK
  <2> HIDE DEF new
  <2>5. Sure(w)'
    BY <1>1, <2>1, <2>2, <2>3, <2>4 DEF Sure, Early, Late, HilSteps
  <2> QED
    BY <1>1, <1>3, <2>2, <2>3, <2>5, OneMoves DEF CiTypeOK
<1> QED
  BY <1>2, <1>3 DEF Switch

\* The script has ended: with 0 only from where its report is its own.
LEMMA ExitPreserves ==
    ASSUME CiInv, NEW w \in Workflows, NEW code \in Exits, Exit(w, code), job[w].step \in HilSteps,
           UNCHANGED <<main, clone>>,
           dirs' = dirs \/ dirs' = [dirs EXCEPT ![w] = "own"],
           code = 0 => job[w].step = "hardware" /\ dirs' = [dirs EXCEPT ![w] = "own"]
    PROVE CiInv'
<1>1. CiTypeOK /\ job[w] \in Jobs /\ Sure(w)
  BY DEF CiInv, CiTypeOK
<1> DEFINE new == [job[w] EXCEPT !.step = "rundir", !.exit = code]
<1>2. /\ new \in Jobs /\ new.step = "rundir" /\ new.exit = code /\ new.meant = job[w].meant
      /\ new.recorded = job[w].recorded /\ new.clean = job[w].clean
      /\ new.rundir = job[w].rundir /\ new.published = job[w].published
  BY <1>1 DEF Jobs, Steps
<1>3. Update(w, new)
  BY DEF Exit
<1>4. job'[w] = new
  BY <1>1, <1>3 DEF Update, CiTypeOK
<1> HIDE DEF new
<1>5. dirs' \in [Workflows -> Dirs] /\ (\A v \in Workflows \ {w} : dirs'[v] = dirs[v])
      /\ dirs'[w] \in {dirs[w], "own"} /\ (code = 0 => dirs'[w] = "own")
  BY <1>1 DEF CiTypeOK, Dirs
<1>6. Sure(w)'
  BY <1>1, <1>2, <1>4, <1>5 DEF Sure, Early, Late, HilSteps
<1>7. job[w].step # "none"
  BY DEF HilSteps
<1> QED
  BY <1>1, <1>2, <1>3, <1>5, <1>6, <1>7, OneMoves DEF CiTypeOK

\* The script starts in the clone the job has switched.
LEMMA LaunchPreserves == ASSUME CiInv, NEW w \in Workflows, Launch(w) PROVE CiInv'
<1>1. CiTypeOK /\ job[w] \in Jobs /\ Sure(w) /\ job[w].step = "hil" /\ UNCHANGED <<main, clone>>
  BY DEF CiInv, CiTypeOK, Launch, At
<1>2. CASE Exit(w, 1) /\ UNCHANGED dirs
  BY <1>1, <1>2, ExitPreserves DEF HilSteps, Exits
<1> DEFINE new == [job[w] EXCEPT !.step = "provenance"]
<1>3. CASE Update(w, new) /\ dirs' = [dirs EXCEPT ![w] = "bare"]
  <2>1. /\ new \in Jobs /\ new.step = "provenance" /\ new.exit = job[w].exit
        /\ new.meant = job[w].meant
        /\ new.rundir = job[w].rundir /\ new.published = job[w].published
    BY <1>1 DEF Jobs, Steps
  <2>2. job'[w] = new
    BY <1>1, <1>3 DEF Update, CiTypeOK
  <2> HIDE DEF new
  <2>3. dirs' \in [Workflows -> Dirs] /\ dirs'[w] = "bare"
        /\ \A v \in Workflows \ {w} : dirs'[v] = dirs[v]
    BY <1>1, <1>3 DEF CiTypeOK, Dirs
  <2>4. Sure(w)'
    BY <1>1, <2>1, <2>2, <2>3 DEF Sure, Early, Late, HilSteps
  <2> QED
    BY <1>1, <1>3, <2>1, <2>3, <2>4, OneMoves DEF CiTypeOK
<1> QED
  BY <1>2, <1>3 DEF Launch, Advance

\* The script records the clone's HEAD.
LEMMA ProvenancePreserves == ASSUME CiInv, NEW w \in Workflows, Provenance(w) PROVE CiInv'
<1>1. CiTypeOK /\ job[w] \in Jobs /\ Sure(w) /\ job[w].step = "provenance"
      /\ UNCHANGED <<main, clone>>
  BY DEF CiInv, CiTypeOK, Provenance, At
<1>2. CASE Exit(w, 2) /\ dirs' = [dirs EXCEPT ![w] = "own"]
  <2>1. 2 \in Exits /\ 2 # 0 /\ job[w].step \in HilSteps
    BY <1>1 DEF HilSteps, Exits
  <2> QED
    BY <1>1, <1>2, <2>1, ExitPreserves
<1> DEFINE new == [job[w] EXCEPT !.step = "hardware", !.recorded = clone.head]
<1>3. CASE Update(w, new) /\ UNCHANGED dirs
  <2>1. /\ new \in Jobs /\ new.step = "hardware" /\ new.exit = job[w].exit
        /\ new.meant = job[w].meant /\ new.recorded = clone.head /\ new.clean = job[w].clean
        /\ new.rundir = job[w].rundir /\ new.published = job[w].published
    BY <1>1 DEF CiTypeOK, Jobs, Steps
  <2> HIDE DEF new
  <2>2. job'[w] = new => Sure(w)'
    BY <1>1, <1>3, <2>1 DEF Sure, Early, Late, HilSteps
  <2> QED
    BY <1>1, <1>3, <2>1, <2>2, JobMoves
<1> QED
  BY <1>2, <1>3 DEF Provenance

\* The script ends and has written its result.
LEMMA FinishPreserves ==
    ASSUME CiInv, NEW w \in Workflows, NEW code \in Exits, Finish(w, code) PROVE CiInv'
BY ExitPreserves DEF Finish, At, HilSteps

\* A job cancelled keeps what it has.
LEMMA CancelPreserves == ASSUME CiInv, NEW w \in Workflows, Cancel(w) PROVE CiInv'
<1>1. dirs' \in [Workflows -> Dirs] /\ dirs'[w] \in {dirs[w], "own"}
      /\ \A v \in Workflows \ {w} : dirs'[v] = dirs[v]
  BY DEF CiInv, CiTypeOK, Cancel, Dirs
<1> QED
  BY <1>1, FailPreserves DEF CiInv, CiTypeOK, Cancel, HilSteps, Early

\* The directory found is this job's, if it came to a verdict.
LEMMA LocatePreserves == ASSUME CiInv, NEW w \in Workflows, LocateRunDir(w) PROVE CiInv'
<1> DEFINE new == [job[w] EXCEPT !.step = "summary", !.rundir = dirs[w],
                                 !.ok = job[w].ok /\ dirs[w] # "none"]
<1>1. CiTypeOK /\ job[w] \in Jobs /\ Sure(w) /\ job[w].step = "rundir"
      /\ Update(w, new) /\ UNCHANGED <<main, clone, dirs>>
  BY DEF CiInv, CiTypeOK, LocateRunDir, At
<1>2. (job[w].ok /\ dirs[w] # "none") \in BOOLEAN
  OBVIOUS
<1>3. /\ new \in Jobs /\ new.step = "summary" /\ new.exit = job[w].exit
      /\ new.meant = job[w].meant /\ new.recorded = job[w].recorded /\ new.clean = job[w].clean
      /\ new.rundir = dirs[w] /\ new.published = job[w].published
  BY <1>1, <1>2 DEF CiTypeOK, Jobs, Steps
<1> HIDE DEF new
<1>4. job'[w] = new => Sure(w)'
  BY <1>1, <1>3 DEF Sure, Early, Late, HilSteps
<1> QED
  BY <1>1, <1>3, <1>4, JobMoves

\* The summary reads the directory that was located.
LEMMA SummarizePreserves == ASSUME CiInv, NEW w \in Workflows, Summarize(w) PROVE CiInv'
<1>1. PICK readable \in BOOLEAN :
        Update(w, [job[w] EXCEPT !.step = "upload", !.ok = @ /\ readable])
  BY DEF Summarize
<1> DEFINE new == [job[w] EXCEPT !.step = "upload", !.ok = @ /\ readable]
<1>2. CiTypeOK /\ job[w] \in Jobs /\ Sure(w) /\ job[w].step = "summary"
      /\ Update(w, new) /\ UNCHANGED <<main, clone, dirs>>
  BY <1>1 DEF CiInv, CiTypeOK, Summarize, At
<1>3. /\ new \in Jobs /\ new.step = "upload" /\ new.exit = job[w].exit
      /\ new.meant = job[w].meant /\ new.recorded = job[w].recorded /\ new.clean = job[w].clean
      /\ new.rundir = job[w].rundir /\ new.published = job[w].published
  BY <1>2 DEF CiTypeOK, Jobs, Steps
<1> HIDE DEF new
<1>4. job'[w] = new => Sure(w)'
  BY <1>2, <1>3 DEF Sure, Early, Late, HilSteps
<1> QED
  BY <1>2, <1>3, <1>4, JobMoves

\* What is published is the directory located, or nothing.
LEMMA UploadPreserves == ASSUME CiInv, NEW w \in Workflows, Upload(w) PROVE CiInv'
<1>1. CiTypeOK /\ job[w] \in Jobs /\ Sure(w) /\ job[w].step = "upload"
      /\ UNCHANGED <<main, clone, dirs>>
  BY DEF CiInv, CiTypeOK, Upload, At
<1>2. CASE Update(w, [job[w] EXCEPT !.step = "verdict", !.published = job[w].rundir])
  <2> DEFINE new == [job[w] EXCEPT !.step = "verdict", !.published = job[w].rundir]
  <2>1. /\ new \in Jobs /\ new.step = "verdict" /\ new.exit = job[w].exit
        /\ new.meant = job[w].meant /\ new.recorded = job[w].recorded /\ new.clean = job[w].clean
        /\ new.rundir = job[w].rundir /\ new.published = job[w].rundir
    BY <1>1 DEF CiTypeOK, Jobs, Steps
  <2> HIDE DEF new
  <2>2. job'[w] = new => Sure(w)'
    BY <1>1, <2>1 DEF Sure, Early, Late, HilSteps
  <2> QED
    BY <1>1, <1>2, <2>1, <2>2, JobMoves DEF new
<1>3. CASE Update(w, [job[w] EXCEPT !.step = "verdict", !.ok = FALSE])
  <2> DEFINE new == [job[w] EXCEPT !.step = "verdict", !.ok = FALSE]
  <2>1. /\ new \in Jobs /\ new.step = "verdict" /\ new.exit = job[w].exit /\ ~new.ok
        /\ new.meant = job[w].meant /\ new.recorded = job[w].recorded /\ new.clean = job[w].clean
        /\ new.rundir = job[w].rundir /\ new.published = job[w].published
    BY <1>1 DEF CiTypeOK, Jobs, Steps
  <2> HIDE DEF new
  <2>2. job'[w] = new => Sure(w)'
    BY <1>1, <2>1 DEF Sure, Early, Late, HilSteps
  <2> QED
    BY <1>1, <1>3, <2>1, <2>2, JobMoves DEF new
<1> QED
  BY <1>2, <1>3 DEF Upload

\* A job is green when every step went well and the script exited with 0.
LEMMA VerdictPreserves == ASSUME CiInv, NEW w \in Workflows, Verdict(w) PROVE CiInv'
<1> DEFINE ok == job[w].ok /\ job[w].exit = 0
           new == [job[w] EXCEPT !.step = "over", !.ok = ok]
<1>1. CiTypeOK /\ job[w] \in Jobs /\ Sure(w) /\ job[w].step = "verdict"
      /\ Update(w, new) /\ UNCHANGED <<main, clone, dirs>>
  BY DEF CiInv, CiTypeOK, Verdict, At
<1>2. ok \in BOOLEAN /\ (ok => job[w].ok /\ job[w].exit = 0)
  OBVIOUS
<1> HIDE DEF ok
<1>3. /\ new \in Jobs /\ new.step = "over" /\ new.exit = job[w].exit /\ new.ok = ok
      /\ new.meant = job[w].meant /\ new.recorded = job[w].recorded /\ new.clean = job[w].clean
      /\ new.rundir = job[w].rundir /\ new.published = job[w].published
  BY <1>1, <1>2 DEF CiTypeOK, Jobs, Steps
<1> HIDE DEF new
<1>4. job'[w] = new => Sure(w)'
  BY <1>1, <1>2, <1>3 DEF Sure, Early, Late, HilSteps
<1> QED
  BY <1>1, <1>3, <1>4, JobMoves

\* The runner is idle again.
LEMMA LeavePreserves == ASSUME CiInv, NEW w \in Workflows, Leave(w) PROVE CiInv'
<1>1. NoJob \in Jobs /\ NoJob.step = "none" /\ NoJob.exit = NoExit /\ ~NoJob.clean
      /\ NoJob.rundir = "none" /\ NoJob.published = "none"
  BY DEF NoJob, Jobs, Steps, NoCommit, NoExit, Dirs
<1>2. job[w].step # "none" /\ Update(w, NoJob) /\ UNCHANGED <<main, clone, dirs>>
  BY DEF Leave, At
<1>3. job'[w] = NoJob => Sure(w)'
  BY <1>1 DEF Sure, Early, Late, HilSteps
<1> QED
  BY <1>1, <1>2, <1>3, JobMoves

\* The steps of a job around its script.
LEMMA OrchestrationPreserves ==
    ASSUME CiInv, NEW w \in Workflows, OrchestrationStep(w) PROVE CiInv'
BY CheckoutPreserves, FetchPreserves, SwitchPreserves, LaunchPreserves, ProvenancePreserves,
   LocatePreserves, SummarizePreserves, UploadPreserves, VerdictPreserves DEF OrchestrationStep

\* The script's own steps.
LEMMA CiStillPreserves == ASSUME CiInv, UNCHANGED ciVars PROVE CiInv'
BY DEF ciVars, CiInv, CiTypeOK, Alone, At, Sure, Resolved

----------------------------------------------------------------------------
(* The host *)

\* What each step does to either half.
LEMMA Halves ==
    ASSUME Next
    PROVE /\ [RelayNext]_relayVars
          /\ \/ Push \/ UNCHANGED ciVars
             \/ \E w \in Workflows :
                   \/ OrchestrationStep(w) \/ Trigger(w) \/ Cancel(w) \/ Leave(w)
                   \/ \E code \in Exits : Finish(w, code)
<1>1. FinishVision => \E code \in Exits : Finish(VisionCB, code)
  BY DEF FinishVision, Exits
<1> QED
  BY <1>1, HostAssumption DEF Next, JobStep, PowerCycle, CycleOn, FinishVision, FinishOther,
     Orchestrate, TriggerJob, CancelJob, LeaveJob, RelayNext

\* Each half of the host keeps its invariant, whichever half moves.
LEMMA HalvesPreserve == ASSUME RelayInv, CiInv, [Next]_vars PROVE RelayInv' /\ CiInv'
<1>1. CASE Next
  BY <1>1, Halves, RelayPreserves, PushPreserves, CiStillPreserves, OrchestrationPreserves,
     TriggerPreserves, CancelPreserves, LeavePreserves, FinishPreserves
<1>2. CASE UNCHANGED vars
  BY <1>2, RelayPreserves, CiStillPreserves DEF vars
<1> QED
  BY <1>1, <1>2

\* No script exceeds its cycles.
LEMMA CyclesBounded == ASSUME HostInv, [Next]_vars PROVE cycles' \in 0 .. MaxCycles
<1>1. cycles \in 0 .. MaxCycles /\ MaxCycles \in Nat
  BY HostAssumption DEF HostInv
<1>2. \/ cycles' = cycles \/ cycles' = 0
      \/ cycles < MaxCycles /\ cycles' = cycles + 1
  BY DEF Next, JobStep, PowerCycle, CycleOn, FinishVision, FinishOther, Orchestrate, TriggerJob,
     CancelJob, LeaveJob, vars
<1> QED
  BY <1>1, <1>2

\* So the invariant holds throughout.
LEMMA HostInvariant == Spec => []HostInv
<1>1. Init => HostInv
  <2> SUFFICES ASSUME Init PROVE HostInv
    OBVIOUS
  <2>1. RelayInv /\ CiInv
    BY RelayInitHolds, CiInitHolds DEF Init
  <2> QED
    BY <2>1, HostAssumption DEF Init, HostInv
<1>2. HostInv /\ [Next]_vars => HostInv'
  BY HalvesPreserve, CyclesBounded DEF HostInv
<1> QED
  BY <1>1, <1>2, PTL DEF Spec

----------------------------------------------------------------------------

\* The types of the two jobs and of the relay boards, for every number of them.
THEOREM HostTypes == Spec => []TypeOK
<1>1. HostInv => TypeOK
  BY DEF HostInv, RelayInv, CiInv, TypeOK
<1> QED
  BY HostInvariant, <1>1, PTL

\* With VisionCB's relay board on the bus, power_cycle switches no other, however
\* many there are, come and go, and whatever serial its EEPROM turns to.
THEOREM OthersAreUntouched == Spec => []OtherRelaysUntouched
<1>1. HostInv => OtherRelaysUntouched
  BY DEF HostInv, RelayInv, Apart, OtherRelaysUntouched
<1> QED
  BY HostInvariant, <1>1, PTL

\* When a power_cycle whose serial was chosen with VisionCB's relay board on the bus
\* returns, the supply has been off since it began and its commands have reached that
\* board.
THEOREM CyclesAreReal == Spec => []CycleIsReal
<1>1. HostInv => CycleIsReal
  BY DEF HostInv, RelayInv, Darkened, CycleIsReal
<1> QED
  BY HostInvariant, <1>1, PTL

\* It returns with VisionCB's supply back: the query that confirms the second command
\* has seen the channel of VisionCB's board, and no other board's.
THEOREM CyclesEndPowered == Spec => CycleEndsPowered
<1>1. ASSUME HostInv, [Next]_vars
      PROVE  [call # "ok" /\ call' = "ok" /\ sawOurs => on'[Ours]]_relayVars
  <2> SUFFICES ASSUME call # "ok", call' = "ok", sawOurs PROVE on'[Ours]
    OBVIOUS
  <2>1. CheckRestore
    BY <1>1 DEF Next, JobStep, PowerCycle, Begin, CycleOn, CycleStep, Resolve, Cut, Restore,
       Command, CheckCut, Check, UsbrelayFails, FinishVision, FinishOther, Orchestrate,
       TriggerJob, CancelJob, LeaveJob, Forget, BusStep, Reenumerate, Attach, Detach,
       Disturbed, vars, relayVars, callVars
  <2>2. PICK b \in Named : on[b] = TRUE
    BY <2>1 DEF CheckRestore, Check, UsbrelayFails
  <2>3. RelayTypeOK /\ \A o \in Others : serial[o] # id
    BY <1>1 DEF HostInv, RelayInv, Apart
  <2>4. b = Ours
    BY <2>3 DEF Named, RelayTypeOK, Boards
  <2>5. on' = on
    BY <2>1 DEF CheckRestore, Check, NoEffect, busVars
  <2> QED
    BY <2>2, <2>4, <2>5
<1> QED
  BY HostInvariant, <1>1, PTL DEF Spec, CycleEndsPowered

\* A corrupted serial alone never fails a power cycle.
THEOREM CorruptionIsSurvived == Spec => []CorruptSerialIsSurvived
<1>1. HostInv => CorruptSerialIsSurvived
  BY DEF HostInv, RelayInv
<1> QED
  BY HostInvariant, <1>1, PTL

\* A green job has measured the requested ref and publishes the report of it,
\* whatever number of workflows share the clone.
THEOREM GreenMeansRequested == Spec => []GreenIsTheRequestedRef
<1>1. HostInv => GreenIsTheRequestedRef
  BY DEF HostInv, CiInv, Sure, Late, Green, At, GreenIsTheRequestedRef
<1> QED
  BY HostInvariant, <1>1, PTL

\* No job publishes an earlier job's report after a successful checkout.
THEOREM ReportsAreFresh == Spec => []NoStaleReport
<1>1. HostInv => NoStaleReport
  BY DEF HostInv, CiInv, Sure, NoStaleReport
<1> QED
  BY HostInvariant, <1>1, PTL
=============================================================================

----------------------------- MODULE PowerRelay -----------------------------
(***************************************************************************)
(* infrastructure/core/power_relay.py: one call of power_cycle against the *)
(* relay boards on the host's USB bus.  A relay board keeps its serial in  *)
(* EEPROM, which may be corrupted when it re-enumerates; the call chooses  *)
(* one serial at its first query and uses it to the end, over three more   *)
(* queries and two commands of the usbrelay tool.                          *)
(***************************************************************************)
EXTENDS FiniteSets, Naturals

CONSTANTS
    Ours,         \* the relay board that feeds VisionCB
    Others,       \* any other relay board
    Serials,      \* what an EEPROM can hold
    RelaySerial   \* the serial Ours was delivered with

ASSUME RelayAssumption == IsFiniteSet(Others) /\ Ours \notin Others /\ RelaySerial \in Serials

VARIABLES
    attached,  \* the relay boards on the bus
    serial,    \* what each has in its EEPROM
    on,        \* channel 1 of each
    call,      \* the usbrelay call about to be made
    id,        \* the serial in relay_id
    switched,  \* history: boards this call's commands have reached
    sawOurs,   \* history: was Ours on the bus when the serial was chosen
    dark,      \* history: has VisionCB been without supply since the call began
    calm       \* history: nothing has moved or failed since the call began

busVars == <<attached, serial, on>>
callVars == <<call, id, switched, sawOurs>>
relayVars == <<busVars, callVars, dark, calm>>

Boards == {Ours} \cup Others
Calls == {"none", "resolve", "cut", "checkCut", "restore", "checkRestore", "ok", "error"}

\* RELAY_SERIAL names one board, and no two boards share a serial.
GoodSerials(s) ==
    /\ s \in [Boards -> Serials]
    /\ \A b \in Others : s[b] # RelaySerial
    /\ \A a, b \in Boards : s[a] = s[b] => a = b

RelayTypeOK ==
    /\ attached \subseteq Boards
    /\ GoodSerials(serial)
    /\ on \in [Boards -> BOOLEAN]
    /\ call \in Calls
    /\ id \in Serials
    /\ switched \subseteq Boards
    /\ sawOurs \in BOOLEAN /\ dark \in BOOLEAN /\ calm \in BOOLEAN

RelayInit ==
    /\ attached \in SUBSET Boards
    /\ serial \in {s \in [Boards -> Serials] : GoodSerials(s)}
    /\ on = [b \in Boards |-> b \in attached]
    /\ call = "none"
    /\ id = RelaySerial
    /\ switched = {}
    /\ sawOurs = FALSE /\ dark = FALSE /\ calm = TRUE

\* The supply as the steps of a call leave it.
Watch == dark' = (dark \/ ~on'[Ours])

----------------------------------------------------------------------------
(* usbrelay *)

Seen == {serial[b] : b \in attached}
Named == {b \in attached : serial[b] = id}

Set(want) ==
    /\ on' = [b \in Boards |-> IF b \in Named THEN want ELSE on[b]]
    /\ switched' = switched \cup Named
    /\ UNCHANGED <<attached, serial>>

NoEffect == UNCHANGED <<busVars, switched>>

\* Not installed, timed out, or a non-zero exit.
UsbrelayFails == call' = "error" /\ calm' = FALSE /\ UNCHANGED <<id, sawOurs>>

----------------------------------------------------------------------------
(* power_cycle *)

Begin ==
    /\ call \in {"none", "ok"}
    /\ call' = "resolve"
    /\ switched' = {}
    /\ sawOurs' = FALSE
    /\ dark' = ~on[Ours]
    /\ calm' = TRUE
    /\ UNCHANGED <<busVars, id>>

\* Mutants: any board will do; only RELAY_SERIAL will do.
ChooseAny == IF RelaySerial \in Seen THEN {RelaySerial} ELSE Seen
ChooseExact == Seen \cap {RelaySerial}

\* The serials a query allows: RELAY_SERIAL, or that of the one board there is.
Choose ==
    IF RelaySerial \in Seen THEN {RelaySerial}
    ELSE IF Cardinality(Seen) = 1 THEN Seen ELSE {}

Resolve ==
    /\ call = "resolve"
    /\ \/ /\ Choose # {}
          /\ id' \in Choose
          /\ call' = "cut"
          /\ sawOurs' = (Ours \in attached)
          /\ UNCHANGED calm
       \/ Choose = {} /\ call' = "error" /\ UNCHANGED <<id, sawOurs, calm>>
       \/ UsbrelayFails
    /\ NoEffect
    /\ Watch

\* The tool may fail after it has switched, and may exit 0 without switching.
Command(at, want, next) ==
    /\ call = at
    /\ \/ Set(want) /\ call' = next /\ UNCHANGED <<id, sawOurs, calm>>
       \/ NoEffect /\ call' = next /\ calm' = FALSE /\ UNCHANGED <<id, sawOurs>>
       \/ UsbrelayFails /\ (Set(want) \/ NoEffect)
    /\ Watch

\* Mutant: the command's exit status is enough.
Trust(at, want, next) ==
    /\ call = at
    /\ call' = next
    /\ UNCHANGED <<busVars, id, switched, sawOurs, calm>>
    /\ Watch

\* Mutant: the query is repeated until it shows the state asked for.
CheckAgain(at, want, next) ==
    /\ call = at
    /\ call' = IF \E b \in Named : on[b] = want THEN next ELSE at
    /\ UNCHANGED <<busVars, id, switched, sawOurs, calm>>
    /\ Watch

\* The query that confirms a command: the relay is gone, in the wrong state, or
\* as requested.
Check(at, want, next) ==
    /\ call = at
    /\ \/ /\ call' = IF \E b \in Named : on[b] = want THEN next ELSE "error"
          /\ UNCHANGED <<id, sawOurs, calm>>
       \/ UsbrelayFails
    /\ NoEffect
    /\ Watch

Cut == Command("cut", FALSE, "checkCut")
CheckCut == Check("checkCut", FALSE, "restore")
Restore == Command("restore", TRUE, "checkRestore")

\* Mutant: only the cut is confirmed.
CheckRestoreTrusts == Trust("checkRestore", TRUE, "ok")

CheckRestore == Check("checkRestore", TRUE, "ok")

CycleStep == Resolve \/ Cut \/ CheckCut \/ Restore \/ CheckRestore

\* The caller is gone, at whatever point of the call, and its history with it.
Forget ==
    /\ call' = "none"
    /\ id' = RelaySerial
    /\ switched' = {}
    /\ sawOurs' = FALSE /\ dark' = FALSE /\ calm' = TRUE
    /\ UNCHANGED busVars

----------------------------------------------------------------------------
(* The bus *)

Disturbed == calm' = (call = "none") /\ Watch /\ UNCHANGED callVars

Attach(b) ==
    /\ b \notin attached
    /\ attached' = attached \cup {b}
    /\ UNCHANGED <<serial, on>>
    /\ Disturbed

\* A relay board is fed by its USB port.
Detach(b) ==
    /\ b \in attached
    /\ attached' = attached \ {b}
    /\ on' = [on EXCEPT ![b] = FALSE]
    /\ UNCHANGED serial
    /\ Disturbed

\* "the relay spontaneously re-enumerated with it corrupted": to a serial no
\* other board has.
Reenumerate ==
    /\ Ours \in attached
    /\ \E s \in Serials : /\ \A b \in Others : serial[b] # s
                          /\ serial' = [serial EXCEPT ![Ours] = s]
    /\ UNCHANGED <<attached, on>>
    /\ Disturbed

BusStep == Reenumerate \/ \E b \in Boards : Attach(b) \/ Detach(b)

RelayNext == Begin \/ CycleStep \/ Forget \/ BusStep

----------------------------------------------------------------------------
(* What the call promises *)

\* As long as VisionCB's own relay board was on the bus when the serial was
\* chosen, no other board's channel is ever switched: more boards without the
\* right serial are refused, and a serial chosen for Ours stays Ours' or nobody's
\* through detaching, attaching and re-enumeration.
OtherRelaysUntouched == sawOurs => switched \subseteq {Ours}

\* power_cycle returns without error only after the supply was really off: the
\* tool's exit status and the commands it has accepted are not taken for it.
CycleIsReal == call = "ok" /\ sawOurs => dark /\ Ours \in switched

\* At the moment power_cycle returns, VisionCB has its supply back: neither a command
\* that the tool accepted and did not carry out, nor a board that has left the bus or
\* changed its serial since, nor another board that is on, is taken for it.
CycleEndsPowered == [][call # "ok" /\ call' = "ok" /\ sawOurs => on'[Ours]]_relayVars

\* With the tool working and nothing moving on the bus, power_cycle fails only
\* when there is nothing to identify VisionCB's relay by: a corrupted serial alone
\* does not stop it, the failure of 2026-10-05 that the module's docstring tells of.
CorruptSerialIsSurvived ==
    call = "error" /\ calm => RelaySerial \notin Seen /\ Cardinality(attached) # 1
=============================================================================

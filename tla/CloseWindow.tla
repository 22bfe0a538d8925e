---------------------------- MODULE CloseWindow ----------------------------
(***************************************************************************)
(* Ending a live window: the operator declares windows and sets the flags  *)
(* of fly.toml in a working tree, close_live_window.py takes them back in  *)
(* two writes and may be interrupted between them, and a commit passes the *)
(* gate, while time passes and decision records are revoked.               *)
(***************************************************************************)
EXTENDS DeclaredWindows

CONSTANTS
    Declarations,       \* what the operator may declare: sequences of entries
    Flags,              \* and set beside it: pairs of the live and the peer flag
    Adrs,               \* the decision records that authorise a standing window
    MaxClock, MaxEdits

CloseAssumption == Cadence \in Nat /\ \A ws \in Declarations : AreEntries(ws)

VARIABLES
    clock,
    authorised,         \* the records that still authorise one
    tree,               \* the working tree: [windows, live, peer]
    main,               \* the branch that is deployed
    script,             \* the closing script: [pc, now, payload, exit, was]
    edits

closeVars == <<clock, authorised, tree, main, script, edits>>

NoScript == [pc |-> "idle", now |-> 0, payload |-> <<>>, exit |-> None, was |-> <<>>]

Edit ==
    /\ edits < MaxEdits /\ script.pc = "idle"
    /\ \E ws \in Declarations, f \in Flags :
           tree' = [windows |-> ws, live |-> f[1], peer |-> f[2]]
    /\ edits' = edits + 1 /\ script' = NoScript
    /\ UNCHANGED <<clock, authorised, main>>

Commit ==
    /\ tree # main /\ Gate(tree, authorised, clock) /\ main' = tree
    /\ UNCHANGED <<clock, authorised, tree, script, edits>>

Revoke ==
    /\ \E a \in authorised : authorised' = authorised \ {a}
    /\ UNCHANGED <<clock, tree, main, script, edits>>

Tick ==
    /\ clock < MaxClock /\ clock' = clock + 1
    /\ UNCHANGED <<authorised, tree, main, script, edits>>
-----------------------------------------------------------------------------
(* Closing a window (close_live_window.py).                                 *)

\* Mutant: only the first open window is closed.
FindFirstOpenWindow(ws, now) ==
    {i \in DOMAIN ws : /\ ws[i].mode = "time_boxed" /\ ws[i].expires # None /\ Covers(ws[i], now)
                       /\ \A j \in 1 .. (i - 1) : ~Covers(ws[j], now)}

FindOpenWindows(ws, now) ==
    {i \in DOMAIN ws : ws[i].mode = "time_boxed" /\ ws[i].expires # None /\ Covers(ws[i], now)}

CloseWindows(ws, now) ==
    [i \in DOMAIN ws |->
        IF i \in FindOpenWindows(ws, now) THEN [ws[i] EXCEPT !.expires = now] ELSE ws[i]]

Editable(t) == t.live # "odd"               \* set_flag_false: each flag stands there once
FlagsOff(t) == [t EXCEPT !.live = "off", !.peer = "off"]
Ended(exit) == [NoScript EXCEPT !.now = clock, !.exit = exit, !.was = tree.windows]

\* Mutant: the declaration is closed before the flags are.
FirstWriteDeclares(t, payload) == [t EXCEPT !.windows = payload]

\* The flags go first: what an interrupted run leaves is off.
FirstWrite(t, payload) == FlagsOff(t)

\* main, where a window is open: it refuses before it writes anything.
CloseOpen ==
    /\ script.pc = "idle" /\ FindOpenWindows(tree.windows, clock) # {}
    /\ LET payload == CloseWindows(tree.windows, clock) IN
       IF Editable(tree)
       THEN /\ script' = [Ended(None) EXCEPT !.pc = "windows", !.payload = payload]
            /\ tree' = FirstWrite(tree, payload)
       ELSE script' = Ended(2) /\ UNCHANGED tree
    /\ UNCHANGED <<clock, authorised, main, edits>>

\* The second write: the windows, as they were read.
CloseDeclaration ==
    /\ script.pc = "windows"
    /\ tree' = [FlagsOff(tree) EXCEPT !.windows = script.payload]
    /\ script' = [script EXCEPT !.pc = "idle", !.exit = 0]
    /\ UNCHANGED <<clock, authorised, main, edits>>

Interrupt ==
    /\ script.pc = "windows" /\ script' = [script EXCEPT !.pc = "idle"]
    /\ UNCHANGED <<clock, authorised, tree, main, edits>>

HasStandingWindow(windows) == \E i \in DOMAIN windows : Standing(windows[i])

\* main, where none is: flags that are on have nothing behind them, unless a
\* standing window or a file that cannot be trusted says so.
CloseStranded ==
    /\ script.pc = "idle" /\ FindOpenWindows(tree.windows, clock) = {}
    /\ IF HasStandingWindow(tree.windows)
       THEN script' = Ended(1) /\ UNCHANGED tree
       ELSE IF ~Trusted(tree.windows, {}) \/ ~Editable(tree)
       THEN script' = Ended(2) /\ UNCHANGED tree
       ELSE tree' = FlagsOff(tree) /\ script' = Ended(IF tree' = tree THEN 1 ELSE 0)
    /\ UNCHANGED <<clock, authorised, main, edits>>
-----------------------------------------------------------------------------
CloseInit ==
    /\ clock = 0 /\ authorised = Adrs
    /\ tree = [windows |-> <<>>, live |-> "off", peer |-> "off"] /\ main = tree
    /\ script = NoScript /\ edits = 0

CloseNext ==
    Edit \/ Commit \/ Revoke \/ Tick \/ CloseOpen \/ CloseDeclaration \/ Interrupt \/ CloseStranded

CloseSpec == CloseInit /\ [][CloseNext]_closeVars
-----------------------------------------------------------------------------
(* Properties.                                                              *)

\* What the script leaves is never worse than what it found: no run of it, finished or
\* interrupted, leaves the flag on over a window it has closed.
CloseNeverStrands ==
    \A i \in DOMAIN script.payload :
        tree.live = "on" => tree.windows = script.was

\* The commit that ends a window is let through: after a run that closed one of a declaration
\* that was in order, the gate accepts the tree as it stands.
CloseMayMerge ==
    script.exit = 0 /\ script.now = clock /\ Trusted(script.was, authorised)
        /\ (\A i \in DOMAIN script.was : script.was[i].opened # script.now)
        => Gate(tree, authorised, clock)
=============================================================================

-------------------------- MODULE DeclaredWindows --------------------------
(***************************************************************************)
(* The windows declared for the switch that lets visitors spend money, as  *)
(* the watchdog and the script that closes one read them, and the gate a   *)
(* commit of them passes.                                                  *)
(***************************************************************************)
EXTENDS Integers, Sequences, FiniteSets

CONSTANT Cadence                \* REAFFIRMATION_CADENCE_HOURS

None == -1
NoIssue == "none"
NoAdr == "none"

\* What a file may declare: a list of entries, whose moments are told in hours.
IsEntry(w) ==
    /\ DOMAIN w = {"sound", "mode", "opened", "expires", "judge", "issue", "adr"}
    /\ w.sound \in BOOLEAN /\ w.judge \in BOOLEAN /\ w.opened \in Int /\ w.expires \in Int
AreEntries(ws) ==
    Len(ws) \in Nat /\ DOMAIN ws = 1 .. Len(ws) /\ \A i \in 1 .. Len(ws) : IsEntry(ws[i])

Standing(w) == w.mode = "standing"

\* _parse_window; w.sound stands for its owner, reason and judge fields.
Declares(w, adrs) ==
    /\ w.sound /\ w.opened # None
    /\ \/ /\ Standing(w) /\ w.expires = None
          /\ w.adr \in adrs /\ w.issue # NoIssue
       \/ /\ w.mode = "time_boxed" /\ w.adr = NoAdr
          /\ w.expires # None /\ w.expires > w.opened
          /\ w.issue # NoIssue \/ w.expires - w.opened <= Cadence

\* parse_windows: one entry that does not parse, and the file says nothing.
Trusted(ws, adrs) == \A i \in DOMAIN ws : Declares(ws[i], adrs)

Covers(w, now) == w.opened <= now /\ (w.expires = None \/ now < w.expires)

\* The end of its cover (_cover_ends): a standing window has none.
Outlasts(w, v) == v.expires # None /\ (w.expires = None \/ w.expires > v.expires)

Active(ws, now) == {i \in DOMAIN ws : Covers(ws[i], now)}

\* What the tests of the blocking lane ask of the committed files.
Gate(t, adrs, now) ==
    LET covered == \E i \in DOMAIN t.windows : Covers(t.windows[i], now) IN
    /\ Trusted(t.windows, adrs) /\ t.live # "odd"
    /\ t.live = "on" => covered
    /\ t.peer = "on" => t.live = "on"
    /\ \/ t.live = "on"
       \/ ~\E i \in DOMAIN t.windows : Covers(t.windows[i], now) /\ ~Standing(t.windows[i])
=============================================================================

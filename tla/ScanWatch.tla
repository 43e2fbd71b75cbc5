------------------------------ MODULE ScanWatch ------------------------------
(***************************************************************************)
(* The two detectors of anti_recon.py, each a sliding window over what     *)
(* arrives: live_scan_watch, which looks for a source that touches many    *)
(* ports of this machine, and watch_http_access_log, which looks for many  *)
(* lines of an access log.  The window of a source, or of the log, is a    *)
(* deque: here the entries since it was last cleared, and its front.  The  *)
(* other alert of the access log, for the name of a scanner in a line      *)
(* (anti_recon.py:252), depends on nothing but that line and is left out.  *)
(***************************************************************************)
EXTENDS Integers, Sequences, FiniteSets

CONSTANTS
    Sources,          \* addresses packets come from
    Log,              \* the access log, watched as if it were one more source
    Ports,
    Window,           \* window_seconds
    PortThreshold, BurstThreshold,
    Jumps,            \* by how much the clock may change at once
    MaxSteps          \* bound: packets, lines and changes of the clock

Watched == Sources \cup {Log}

ASSUME ScanAssumption ==
    /\ Log \notin Sources /\ Window \in Nat /\ Jumps \subseteq Int /\ MaxSteps \in Nat
    /\ PortThreshold \in Nat \ {0} /\ BurstThreshold \in Nat \ {0}

VARIABLES
    now,      \* time.time(), in seconds
    entries,  \* for each: what was appended since the deque was cleared
    front,    \* for each: the entry at the left end of the deque
    alerted,  \* for each: has its last entry raised an alert, which clears the deque?
    blocked,  \* the sources live_scan_watch remembers to have blocked
    dropped,  \* the sources of the DROP rules it inserted, those that are in force
    steps     \* how many of MaxSteps were taken

windows == <<entries, front, alerted>>
vars == <<now, windows, blocked, dropped, steps>>

Fresh(S) ==
    /\ entries' = [w \in Watched |-> IF w \in S THEN <<>> ELSE entries[w]]
    /\ front' = [w \in Watched |-> IF w \in S THEN 1 ELSE front[w]]
    /\ alerted' = [w \in Watched |-> IF w \in S THEN FALSE ELSE alerted[w]]

Init ==
    /\ now = 0 /\ steps = 0
    /\ entries = [w \in Watched |-> <<>>]
    /\ front = [w \in Watched |-> 1]
    /\ alerted = [w \in Watched |-> FALSE]
    /\ blocked = {} /\ dropped = {}

Another == steps < MaxSteps /\ steps' = steps + 1

(* What the entries at the indices of I amount to: ports, or lines.        *)
Weight(w, s, I) ==
    IF w = Log THEN Cardinality(I) ELSE Cardinality({s[i].port : i \in I})
Threshold(w) == IF w = Log THEN BurstThreshold ELSE PortThreshold
Reached(w, s, I) == Weight(w, s, I) >= Threshold(w)

(* append, and popleft while the left end is too old: the entry at which   *)
(* that stops.  The one just appended never is too old.                    *)
TooOld(s, i) == s[Len(s)].at - s[i].at > Window
TrimmedOne(s, first) ==   \* mutant: one popleft at most
    {IF TooOld(s, first) THEN first + 1 ELSE first}
TrimmedLate(s, first) ==   \* mutant: >= for >
    LET Out(i) == i # Len(s) /\ s[Len(s)].at - s[i].at >= Window
    IN  {i \in first .. Len(s) : ~Out(i) /\ \A j \in first .. i - 1 : Out(j)}
Trimmed(s, first) ==
    {i \in first .. Len(s) : ~TooOld(s, i) /\ \A j \in first .. i - 1 : TooOld(s, j)}

(* An entry of w at the present time: is it one too many?                  *)
Arrives(w, entry) ==
    LET s == Append(IF alerted[w] THEN <<>> ELSE entries[w], entry) IN
    \E left \in Trimmed(s, IF alerted[w] THEN 1 ELSE front[w]) :
        /\ entries' = [entries EXCEPT ![w] = s]
        /\ front' = [front EXCEPT ![w] = left]
        /\ alerted' = [alerted EXCEPT ![w] = Reached(w, s, left .. Len(s))]

(* block inserts one rule for each source and forgets whether it went in.  *)
Packet(src, port, autoBlock) ==
    /\ Another
    /\ Arrives(src, [at |-> now, port |-> port])
    /\ IF autoBlock /\ alerted'[src] /\ src \notin blocked
       THEN blocked' = blocked \cup {src} /\ dropped' \in {dropped, dropped \cup {src}}
       ELSE UNCHANGED <<blocked, dropped>>
    /\ UNCHANGED now

Line ==
    /\ Another
    /\ Arrives(Log, [at |-> now, port |-> 0])
    /\ UNCHANGED <<now, blocked, dropped>>

(* The clock goes on; or is set, when Jumps has a negative number.         *)
Tick ==
    /\ Another
    /\ \E j \in Jumps : now' = now + j
    /\ UNCHANGED <<windows, blocked, dropped>>

(* A watch ends, or is stopped, and another begins with nothing in mind;   *)
(* the rules of the one before stay.                                       *)
NewWatch ==
    /\ \/ Fresh(Sources) /\ blocked' = {}
       \/ Fresh({Log}) /\ UNCHANGED blocked
    /\ UNCHANGED <<now, dropped, steps>>

(* A kill switch flushes the filter table, the rules of the watch with it. *)
FlushInput ==
    /\ dropped' = {}
    /\ UNCHANGED <<now, windows, blocked, steps>>

Next ==
    \/ \E src \in Sources, port \in Ports, autoBlock \in BOOLEAN : Packet(src, port, autoBlock)
    \/ Line \/ Tick \/ NewWatch \/ FlushInput

Spec == Init /\ [][Next]_vars

-----------------------------------------------------------------------------
(* The definition: of all that came since the last alert, what came within *)
(* the window before the latest.                                           *)
Recent(w) ==
    LET s == entries[w] IN {i \in 1 .. Len(s) : ~TooOld(s, i)}

(* An alert is never raised for less than a threshold of distinct ports,   *)
(* or of lines, within the window: entries that are too old are all gone   *)
(* from the deque when it is counted (anti_recon.py handle,                *)
(* watch_http_access_log).                                                 *)
AlertIsScan == \A w \in Watched : alerted[w] => Reached(w, entries[w], Recent(w))

(* No scan is missed: short of an alert, what came within the window since *)
(* the last alert never reaches the threshold; nothing that counts was     *)
(* dropped from the deque.                                                 *)
ScanIsSeen == \A w \in Watched : ~alerted[w] => ~Reached(w, entries[w], Recent(w))
=============================================================================

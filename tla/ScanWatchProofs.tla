--------------------------- MODULE ScanWatchProofs ---------------------------
(***************************************************************************)
(* The two detectors against their definition, for any sources, ports,     *)
(* thresholds and window, and any number of packets, while the clock does  *)
(* not go back.                                                            *)
(***************************************************************************)
EXTENDS ScanWatch, FiniteSetTheorems, SequenceTheorems, TLAPS

ClockGoesOn == Jumps \subseteq Nat

Entry == [at : Int, port : Ports \cup {0}]

(* A deque whose left end is at index first of s, the entries since it was *)
(* cleared: they are in the order of time, and what is left of first is    *)
(* what is too old for the last of them.                                   *)
Ordered(s) ==
    \A i, j \in 1 .. Len(s) : i <= j => s[i].at <= s[j].at
Exact(s, first) ==
    /\ s = <<>> => first = 1
    /\ s # <<>> => first \in 1 .. Len(s)
    /\ \A i \in 1 .. Len(s) : i < first <=> TooOld(s, i)

Sound(w) ==
    LET s == entries[w] IN
    /\ Ordered(s) /\ Exact(s, front[w])
    /\ \A i \in 1 .. Len(s) : s[i].at <= now
    /\ s = <<>> => ~alerted[w]
    /\ s # <<>> => (alerted[w] <=> Reached(w, s, front[w] .. Len(s)))

Inv ==
    /\ now \in Int
    /\ entries \in [Watched -> Seq(Entry)] /\ front \in [Watched -> Int]
    /\ alerted \in [Watched -> BOOLEAN]
    /\ \A w \in Watched : Sound(w)
-----------------------------------------------------------------------------
(* The loop that drops entries from the left stops at the boundary.        *)
LEMMA TrimmedIsExact ==
    ASSUME NEW s \in Seq(Entry), NEW e \in Entry, Ordered(s), NEW first \in Int, Exact(s, first),
           \A i \in 1 .. Len(s) : s[i].at <= e.at,
           NEW left \in Trimmed(Append(s, e), first)
    PROVE  Ordered(Append(s, e)) /\ Exact(Append(s, e), left)
  <1> DEFINE n == Len(s)  q == Append(s, e)
  <1>1. n \in Nat /\ q \in Seq(Entry) /\ Len(q) = n + 1 /\ q[n + 1] = e /\ \A i \in 1 .. n : q[i] = s[i]
    BY AppendProperties
  <1>2. \A i \in 1 .. n + 1 : q[i].at \in Int /\ q[i].at <= e.at
    <2> SUFFICES ASSUME NEW i \in 1 .. n + 1 PROVE q[i].at \in Int /\ q[i].at <= e.at
      OBVIOUS
    <2>1. q[i] \in Entry /\ e \in Entry
      BY <1>1
    <2>2. q[i].at \in Int /\ e.at \in Int
      BY <2>1 DEF Entry
    <2>3. CASE i = n + 1
      BY <1>1, <2>2, <2>3
    <2>4. CASE i # n + 1
      BY <1>1, <2>2, <2>4
    <2> QED BY <2>3, <2>4
  <1>3. Ordered(q)
    BY <1>1, <1>2 DEF Ordered
  <1>4. left \in first .. n + 1 /\ ~TooOld(q, left) /\ \A j \in first .. left - 1 : TooOld(q, j)
    BY <1>1 DEF Trimmed
  <1>5. first \in 1 .. n + 1
    BY <1>1, EmptySeq DEF Exact
  <1>6. ASSUME NEW i \in 1 .. n + 1, i < left PROVE TooOld(q, i)
    <2>1. CASE i < first
      <3>1. n > 0 /\ i \in 1 .. n /\ TooOld(s, i)
        BY <2>1, <1>1, <1>5 DEF Exact
      <3>2. s[n].at <= e.at /\ s[n].at \in Int /\ q[i] = s[i] /\ q[i].at \in Int
        BY <3>1, <1>1, <1>2
      <3> QED BY <1>1, <3>1, <3>2, ScanAssumption DEF TooOld, Entry
    <2>2. CASE i >= first
      BY <1>4, <1>5, <1>6, <2>2
    <2> QED BY <2>1, <2>2, <1>5
  <1>7. ASSUME NEW i \in 1 .. n + 1, left <= i PROVE ~TooOld(q, i)
    <2>1. q[left].at <= q[i].at
      BY <1>1, <1>3, <1>4, <1>5, <1>7 DEF Ordered
    <2> QED BY <1>1, <1>2, <1>4, <1>5, <2>1, ScanAssumption DEF TooOld, Entry
  <1> QED BY <1>1, <1>3, <1>4, <1>5, <1>6, <1>7, EmptySeq DEF Exact

(* An entry at the present time keeps the deque of its source sound. *)
LEMMA ArrivesKept ==
    ASSUME Inv, NEW w \in Watched, NEW p \in Ports \cup {0}, Arrives(w, [at |-> now, port |-> p]),
           now' = now
    PROVE  Inv'
  <1> DEFINE e == [at |-> now, port |-> p]
             old == IF alerted[w] THEN <<>> ELSE entries[w]
             first == IF alerted[w] THEN 1 ELSE front[w]
             q == Append(old, e)
  <1>1. e \in Entry /\ e.at = now
    BY DEF Inv, Entry
  <1>2. old \in Seq(Entry) /\ first \in Int /\ Ordered(old) /\ Exact(old, first)
          /\ \A i \in 1 .. Len(old) : old[i].at <= e.at
    <2>1. CASE alerted[w]
      BY <2>1, EmptySeq DEF Ordered, Exact
    <2>2. CASE ~alerted[w]
      BY <2>2, <1>1 DEF Inv, Sound
    <2> QED BY <2>1, <2>2
  <1>4. PICK left \in Trimmed(q, first) :
            /\ entries' = [entries EXCEPT ![w] = q]
            /\ front' = [front EXCEPT ![w] = left]
            /\ alerted' = [alerted EXCEPT ![w] = Reached(w, q, left .. Len(q))]
    BY DEF Arrives
  <1>5. Ordered(q) /\ Exact(q, left)
    BY <1>1, <1>2, TrimmedIsExact
  <1>6. q \in Seq(Entry) /\ q # <<>> /\ \A i \in 1 .. Len(q) : q[i].at <= now
    <2>1. q \in Seq(Entry) /\ Len(q) = Len(old) + 1 /\ Len(old) \in Nat /\ q[Len(q)] = e
            /\ \A i \in 1 .. Len(old) : q[i] = old[i]
      BY <1>1, <1>2, AppendProperties, LenProperties
    <2>2. q # <<>>
      BY <2>1, EmptySeq
    <2>3. ASSUME NEW i \in 1 .. Len(q) PROVE q[i].at <= now
      <3>1. CASE i = Len(q)
        BY <1>1, <2>1, <3>1 DEF Inv
      <3>2. CASE i # Len(q)
        BY <1>1, <1>2, <2>1, <3>2
      <3> QED BY <3>1, <3>2
    <2> QED BY <2>1, <2>2, <2>3
  <1>7. left \in Int
    BY <1>5, <1>6, LenProperties DEF Exact
  <1>8. Reached(w, q, left .. Len(q)) \in BOOLEAN
    BY DEF Reached
  <1>9. /\ entries' \in [Watched -> Seq(Entry)] /\ front' \in [Watched -> Int]
        /\ alerted' \in [Watched -> BOOLEAN]
    BY <1>4, <1>6, <1>7, <1>8 DEF Inv
  <1>10. ASSUME NEW v \in Watched PROVE Sound(v)'
    <2>1. CASE v = w
      BY <1>4, <1>5, <1>6, <2>1 DEF Inv, Sound
    <2>2. CASE v # w
      BY <1>4, <2>2 DEF Inv, Sound
    <2> QED BY <2>1, <2>2
  <1> QED BY <1>9, <1>10 DEF Inv

LEMMA InvKept ==
    ASSUME ClockGoesOn, Inv, [Next]_vars
    PROVE  Inv'
  <1>1. ASSUME NEW src \in Sources, NEW port \in Ports, NEW autoBlock \in BOOLEAN,
               Packet(src, port, autoBlock)
        PROVE  Inv'
    BY <1>1, ArrivesKept DEF Packet, Watched
  <1>2. CASE Line
    BY <1>2, ArrivesKept DEF Line, Watched
  <1>3. CASE Tick
    <2>1. PICK j \in Jumps : now' = now + j
      BY <1>3 DEF Tick
    <2>2. now' \in Int /\ now <= now'
      BY <2>1 DEF ClockGoesOn, Inv
    <2>3. ASSUME NEW w \in Watched PROVE Sound(w)'
      <3>1. ASSUME NEW i \in 1 .. Len(entries[w]) PROVE entries[w][i].at \in Int
        <4>1. entries[w] \in Seq(Entry)
          BY DEF Inv
        <4>2. entries[w][i] \in Entry
          BY <4>1, ElementOfSeq
        <4> QED BY <4>2 DEF Entry
      <3> QED BY <1>3, <2>2, <3>1 DEF Tick, windows, Inv, Sound
    <2> QED BY <1>3, <2>2, <2>3 DEF Tick, windows, Inv
  <1>4. CASE NewWatch
    <2>1. PICK S \in SUBSET Watched : Fresh(S)
      BY <1>4 DEF NewWatch, Watched
    <2>2. /\ entries' \in [Watched -> Seq(Entry)] /\ front' \in [Watched -> Int]
          /\ alerted' \in [Watched -> BOOLEAN]
      <3>1. ASSUME NEW w \in Watched
            PROVE  (IF w \in S THEN <<>> ELSE entries[w]) \in Seq(Entry)
        <4>1. entries[w] \in Seq(Entry) /\ <<>> \in Seq(Entry)
          BY EmptySeq DEF Inv
        <4> QED BY <4>1
      <3>2. entries' \in [Watched -> Seq(Entry)]
        BY <2>1, <3>1 DEF Fresh
      <3>3. front' \in [Watched -> Int]
        BY <2>1 DEF Fresh, Inv
      <3>4. ASSUME NEW w \in Watched
            PROVE  (IF w \in S THEN FALSE ELSE alerted[w]) \in BOOLEAN
        BY Zenon DEF Inv
      <3>5. alerted' \in [Watched -> BOOLEAN]
        BY <2>1, <3>4 DEF Fresh
      <3> QED BY <3>2, <3>3, <3>5
    <2>3. ASSUME NEW w \in Watched PROVE Sound(w)'
      <3>1. CASE w \in S
        BY <2>1, <3>1, EmptySeq DEF Fresh, Sound, Ordered, Exact
      <3>2. CASE w \notin S
        BY <1>4, <2>1, <3>2 DEF NewWatch, Fresh, Inv, Sound
      <3> QED BY <3>1, <3>2
    <2> QED BY <1>4, <2>2, <2>3 DEF NewWatch, Inv
  <1>5. CASE FlushInput \/ UNCHANGED vars
    BY <1>5 DEF FlushInput, vars, windows, Inv, Sound
  <1> QED BY <1>1, <1>2, <1>3, <1>4, <1>5 DEF Next

LEMMA InvInit == Init => Inv
  BY EmptySeq, ScanAssumption DEF Init, Inv, Sound, Ordered, Exact

(* Between its front and its end a deque holds what is recent, and that    *)
(* decides on the alert.                                                   *)
LEMMA AlertedIffReached ==
    ASSUME Inv, NEW w \in Watched
    PROVE  alerted[w] <=> Reached(w, entries[w], Recent(w))
  <1> DEFINE s == entries[w]
  <1>1. s \in Seq(Entry) /\ Len(s) \in Nat /\ front[w] \in Int /\ Sound(w)
    BY LenProperties DEF Inv
  <1>2. CASE s = <<>>
    <2>1. Recent(w) = {}
      BY <1>2 DEF Recent
    <2>2. {s[i].port : i \in Recent(w)} = {}
      BY <2>1
    <2>3. Weight(w, s, Recent(w)) = 0
      BY <2>1, <2>2, FS_EmptySet DEF Weight
    <2>4. ~Reached(w, s, Recent(w))
      BY <2>3, ScanAssumption DEF Reached, Threshold
    <2> QED BY <1>1, <1>2, <2>4 DEF Sound
  <1>3. CASE s # <<>>
    <2>1. Recent(w) = front[w] .. Len(s)
      BY <1>1, <1>3 DEF Recent, Sound, Exact
    <2> QED BY <1>1, <1>3, <2>1 DEF Sound
  <1> QED BY <1>2, <1>3

LEMMA InvHolds == ClockGoesOn => (Spec => []Inv)
  <1> SUFFICES ASSUME ClockGoesOn PROVE Spec => []Inv
    OBVIOUS
  <1>1. Inv /\ [Next]_vars => Inv'
    BY InvKept
  <1> QED BY InvInit, <1>1, PTL DEF Spec

(* An alert is a scan, or a burst, within the window. *)
THEOREM AlertsAreScans == ClockGoesOn => (Spec => []AlertIsScan)
  <1> SUFFICES ASSUME ClockGoesOn PROVE Spec => []AlertIsScan
    OBVIOUS
  <1>1. Inv => AlertIsScan
    BY AlertedIffReached DEF AlertIsScan
  <1> QED BY <1>1, InvHolds, PTL

(* And a scan within the window raises an alert. *)
THEOREM ScansAreSeen == ClockGoesOn => (Spec => []ScanIsSeen)
  <1> SUFFICES ASSUME ClockGoesOn PROVE Spec => []ScanIsSeen
    OBVIOUS
  <1>1. Inv => ScanIsSeen
    BY AlertedIffReached DEF ScanIsSeen
  <1> QED BY <1>1, InvHolds, PTL
=============================================================================

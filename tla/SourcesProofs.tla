---------------------------- MODULE SourcesProofs -----------------------------
(***************************************************************************)
(* Proofs about the sources of a flow that is not fed by a broker, for      *)
(* every schedule, every set of files, nodes and connections.               *)
(***************************************************************************)
EXTENDS Sources, ListLemmas

sVarsAll == <<source, wVars, sVars, pVars, aVars>>

-----------------------------------------------------------------------------
(* Schedule. *)

(* The times are numbers, and what NotTwice says of the next gather. *)
SchedInv ==
    /\ sopt \in ScheduleOptions /\ clock \in Nat /\ last_gather_time \in Nat
    /\ next_gather_time \in Nat /\ appointments \in SUBSET Nat
    /\ spc # "idle" => last_gather_time = 0
    /\ NotTwice

(* DayOf and Midnight: tomorrow begins after any time of today, and its first minute is 0. *)
LEMMA DayFacts ==
    ASSUME NEW t \in Nat
    PROVE  /\ S!Midnight(S!Tomorrow(t)) \in Nat /\ S!Midnight(S!Tomorrow(t)) > t
           /\ S!DayOf(S!Midnight(S!Tomorrow(t))) = S!Tomorrow(t)
           /\ S!MinuteOf(S!Midnight(S!Tomorrow(t))) = 0
<1> DEFINE D == 2 * MinutesADay
           d == t \div D
<1>1. D \in Nat \ {0}
  BY ScheduleAssumption
<1>2. d \in Nat /\ t % D \in 0 .. D - 1 /\ t = D * d + (t % D)
  <2> HIDE DEF D
  <2> QED BY <1>1, SMT
<1>3. (d + 1) * D \in Nat /\ (d + 1) * D > t
  <2> HIDE DEF D, d
  <2> QED BY <1>1, <1>2, SMT
<1>4. ((d + 1) * D) \div D = d + 1 /\ ((d + 1) * D) % D = 0
  <2>1. d + 1 \in Nat
    BY <1>2
  <2> HIDE DEF D, d
  <2> QED BY <1>1, <2>1, SMT
<1> QED BY <1>3, <1>4 DEF S!Midnight, S!Tomorrow, S!DayOf, S!MinuteOf, S!Day

(* What Min, of a set of numbers, needs: the least of them. *)
LEMMA LeastNumber ==
    ASSUME NEW T \in SUBSET Nat, T # {}
    PROVE  \E x \in T : \A y \in T : x <= y
<1>1. PICK n \in T : TRUE
  OBVIOUS
<1>2. n \in Nat
  BY <1>1
<1> DEFINE U == {i \in 1 .. n + 1 : \A k \in T : i - 1 <= k}
<1>3. CASE U = {}
  <2>1. 1 \notin U
    BY <1>3
  <2> QED BY <1>2, <2>1
<1>4. CASE U # {}
  <2>1. U \in SUBSET (1 .. n + 1) /\ n + 1 \in Nat
    BY <1>2
  <2>2. PICK m \in U : \A j \in U : j <= m
    <3> HIDE DEF U
    <3> QED BY <1>4, <2>1, LastPosition
  <2>3. m \in 1 .. n + 1 /\ \A k \in T : m - 1 <= k
    OBVIOUS
  <2>4. m - 1 \in T
    <3> SUFFICES ASSUME m - 1 \notin T PROVE FALSE
      OBVIOUS
    <3>1. \A k \in T : k \in Nat /\ m <= k
      BY <2>3
    <3>2. m + 1 \in U
      BY <1>1, <1>2, <2>3, <3>1
    <3> QED BY <2>2, <2>3, <3>2
  <2> QED BY <2>3, <2>4
<1> QED BY <1>3, <1>4

(* calc_next_gather_time: the next gather is after the one it is computed from, and an interval
   away. *)
LEMMA NextIsLater ==
    ASSUME NEW appts \in SUBSET Nat, NEW next, NEW last \in Nat, NEW later \in Nat, later >= last,
           sopt \in ScheduleOptions
    PROVE  LET calc == S!CalcNext(appts, next, last, later) IN
           /\ calc.appts \in SUBSET Nat /\ calc.next \in Nat /\ calc.next > last
           /\ sopt.interval > 0 => calc.next >= last + sopt.interval
<1> DEFINE left == {t \in appts \ {next} : ~S!Missed(t, last)}
           tomorrow == S!UpdateAppointments(S!Midnight(S!Tomorrow(later)))
           calc == S!CalcNext(appts, next, last, later)
<1>0. sopt.interval \in Nat /\ sopt.times \in SUBSET (0 .. MinutesADay - 1) /\ default_wait \in Nat \ {0}
  BY ScheduleAssumption
<1>1. CASE sopt.interval > 0
  <2>1. calc = [appts |-> appts \ {next}, next |-> last + sopt.interval]
    BY <1>1 DEF S!CalcNext
  <2>2. /\ appts \ {next} \in SUBSET Nat
        /\ last + sopt.interval \in Nat /\ last + sopt.interval > last
    <3>1. appts \ {next} \in SUBSET Nat
      OBVIOUS
    <3>2. last + sopt.interval \in Nat /\ last + sopt.interval > last
      BY <1>0, <1>1
    <3> QED BY <3>1, <3>2
  <2>3. calc.appts = appts \ {next} /\ calc.next = last + sopt.interval
    BY <2>1
  <2> HIDE DEF calc
  <2>4. calc.appts \in SUBSET Nat /\ calc.next \in Nat /\ calc.next > last /\ calc.next >= last + sopt.interval
    BY <2>2, <2>3
  <2> QED BY <2>4 DEF calc
<1>2. CASE sopt.interval = 0 /\ sopt.times = {}
  <2>1. ~(sopt.interval > 0) /\ ~S!HasTimes
    BY <1>2 DEF S!HasTimes
  <2>2. calc = [appts |-> appts \ {next}, next |-> last + default_wait]
    BY <2>1 DEF S!CalcNext
  <2>3. calc.appts = appts \ {next} /\ calc.next = last + default_wait
    BY <2>2
  <2>4. appts \ {next} \in SUBSET Nat
    OBVIOUS
  <2>5. last + default_wait \in Nat /\ last + default_wait > last
    BY <1>0
  <2> HIDE DEF calc
  <2>6. calc.appts \in SUBSET Nat /\ calc.next \in Nat /\ calc.next > last
    BY <2>3, <2>4, <2>5
  <2> QED BY <1>2, <2>6 DEF calc
<1>3. CASE sopt.interval = 0 /\ sopt.times # {} /\ left # {}
  <2>1. ~(sopt.interval > 0) /\ S!HasTimes
    BY <1>3 DEF S!HasTimes
  <2>2. calc = [appts |-> left, next |-> S!Min(left)]
    BY <1>3, <2>1 DEF S!CalcNext
  <2>3. left \in SUBSET Nat /\ S!Min(left) \in left
    BY <1>3, LeastNumber DEF S!Min
  <2>4. \A t \in left : t \in Nat /\ t > last
    BY DEF S!Missed
  <2>5. S!Min(left) \in Nat /\ S!Min(left) > last
    <3> HIDE DEF left
    <3> QED BY <2>3, <2>4
  <2> QED BY <1>3, <2>2, <2>3, <2>5
<1>4. CASE sopt.interval = 0 /\ sopt.times # {} /\ left = {}
  <2>1. ~(sopt.interval > 0) /\ S!HasTimes
    BY <1>4 DEF S!HasTimes
  <2>2. calc = [appts |-> tomorrow, next |-> S!Min(tomorrow)]
    BY <1>4, <2>1 DEF S!CalcNext
  <2> DEFINE M == S!Midnight(S!Tomorrow(later))
  <2>3. M \in Nat /\ M > later /\ S!DayOf(M) = S!Tomorrow(later) /\ S!MinuteOf(M) = 0
    BY DayFacts
  <2>4. tomorrow = {M + 2 * m : m \in {k \in sopt.times : k >= 0}}
    BY <2>3 DEF S!UpdateAppointments
  <2>5. \A m \in sopt.times : m \in Nat
    BY <1>0
  <2>6. tomorrow \in SUBSET Nat /\ tomorrow # {} /\ \A t \in tomorrow : t > later
    <3> HIDE DEF M, tomorrow
    <3>1. \A m \in sopt.times : M + 2 * m \in Nat /\ M + 2 * m > later
      BY <2>3, <2>5
    <3>2. PICK m \in sopt.times : TRUE
      BY <1>4
    <3>3. M + 2 * m \in tomorrow
      BY <2>4, <2>5
    <3>4. \A t \in tomorrow : \E k \in sopt.times : t = M + 2 * k
      BY <2>4
    <3> QED BY <3>1, <3>3, <3>4
  <2>7. S!Min(tomorrow) \in tomorrow
    BY <2>6, LeastNumber DEF S!Min
  <2>8. S!Min(tomorrow) \in Nat /\ S!Min(tomorrow) > last
    <3>1. \A t \in tomorrow : t \in Nat /\ t > later
      BY <2>6
    <3>2. S!Min(tomorrow) \in Nat /\ S!Min(tomorrow) > later
      <4> HIDE DEF tomorrow
      <4> QED BY <2>7, <3>1
    <3> HIDE DEF tomorrow
    <3> QED BY <3>2
  <2> QED BY <1>4, <2>2, <2>6, <2>8
<1> HIDE DEF calc
<1> QED BY <1>0, <1>1, <1>2, <1>3, <1>4 DEF calc

(* Each step of a schedule. *)
LEMMA ScheduleStep == ASSUME SchedInv, S!Next PROVE SchedInv'
<1> USE DEF SchedInv, NotTwice, S!NotTwice
<1>0. sopt' = sopt
  BY DEF S!Next, S!Start, S!ReadyToGather, S!Tick
<1>1. CASE S!Start
  <2>1. PICK later \in S!Later(clock) :
           /\ clock' = later
           /\ LET appts == IF S!HasTimes THEN S!UpdateAppointments(clock) ELSE {}
                  calc == S!CalcNext(appts, 0, clock, later) IN
              IF sopt.interval > 0
              THEN appointments' = appts /\ next_gather_time' = clock
              ELSE appointments' = calc.appts /\ next_gather_time' = calc.next
    BY <1>1 DEF S!Start
  <2> DEFINE appts == IF S!HasTimes THEN S!UpdateAppointments(clock) ELSE {}
  <2>2. later \in Nat /\ later >= clock
    BY DEF S!Later
  <2>3. appts \in SUBSET Nat
    <3>1. CASE S!HasTimes
      <4>1. sopt.times \in SUBSET Nat /\ clock \in Nat
        BY ScheduleAssumption
      <4>2. S!Midnight(S!DayOf(clock)) \in Nat
        <5>1. S!Day \in Nat \ {0}
          BY ScheduleAssumption DEF S!Day
        <5>2. S!DayOf(clock) \in Nat
          BY <4>1, <5>1, SMT DEF S!DayOf
        <5> QED BY <5>1, <5>2, SMT DEF S!Midnight
      <4>3. \A m \in sopt.times : S!Midnight(S!DayOf(clock)) + 2 * m \in Nat
        BY <4>1, <4>2
      <4> QED BY <4>3, <3>1 DEF S!UpdateAppointments
    <3>2. CASE ~S!HasTimes
      BY <3>2
    <3> QED BY <3>1, <3>2
  <2>4. S!CalcNext(appts, 0, clock, later).appts \in SUBSET Nat /\ S!CalcNext(appts, 0, clock, later).next \in Nat
    <3> HIDE DEF appts
    <3> QED BY <2>2, <2>3, NextIsLater
  <2>5. appointments' \in SUBSET Nat /\ next_gather_time' \in Nat
    <3>1. CASE sopt.interval > 0
      BY <2>1, <2>3, <3>1
    <3>2. CASE ~(sopt.interval > 0)
      BY <2>1, <2>4, <3>2
    <3> QED BY <3>1, <3>2
  <2>6. last_gather_time' = last_gather_time /\ spc = "start"
    BY <1>1 DEF S!Start
  <2> QED BY <1>0, <2>1, <2>2, <2>5, <2>6
<1>2. CASE S!ReadyToGather
  <2>1. PICK later \in S!Later(clock) :
           LET calc == S!CalcNext(appointments, next_gather_time, clock, later) IN
           /\ appointments' = calc.appts /\ next_gather_time' = calc.next /\ clock' = later
    BY <1>2 DEF S!ReadyToGather
  <2>2. later \in Nat /\ later >= clock
    BY DEF S!Later
  <2>3. last_gather_time' = clock
    BY <1>2 DEF S!ReadyToGather
  <2> DEFINE calc == S!CalcNext(appointments, next_gather_time, clock, later)
  <2>4. /\ calc.appts \in SUBSET Nat /\ calc.next \in Nat /\ calc.next > clock
        /\ sopt.interval > 0 => calc.next >= clock + sopt.interval
    BY <2>2, NextIsLater
  <2>5. appointments' = calc.appts /\ next_gather_time' = calc.next /\ clock' = later
    BY <2>1
  <2>6. spc = "idle" /\ spc' = spc
    BY <1>2 DEF S!ReadyToGather
  <2> HIDE DEF calc
  <2> QED BY <1>0, <2>2, <2>3, <2>4, <2>5, <2>6
<1>3. CASE S!Tick
  BY <1>3 DEF S!Tick
<1> QED BY <1>1, <1>2, <1>3 DEF S!Next

-----------------------------------------------------------------------------
(* AmServer. *)

(* A child that there is, seen or not yet. *)
Live(c) == child[c].pc \in A!Serving \cup {"forked", "started", "stuck"}

(* The children, as records. *)
Shape(children) ==
    /\ DOMAIN children = AmConn
    /\ \A c \in AmConn : DOMAIN children[c] = {"pc", "inst", "inBuffer", "at", "newmsg"}

(* Two children that there are and have one number were accepted while it was not to be seen,
   and so was the one that is about to be forked. *)
AmInv ==
    /\ Shape(child) /\ DOMAIN apast = {"hasty", "killed", "swept"}
    /\ \A c, d \in AmConn : c # d /\ Live(c) /\ Live(d) /\ child[c].inst = child[d].inst => c \in apast.hasty
    /\ parent.pc = "fork" =>
           /\ parent.conn \in AmConn /\ child[parent.conn].pc = "none"
           /\ \A d \in AmConn : Live(d) /\ child[d].inst = parent.inst =>
                  d \in apast.hasty /\ parent.conn \in apast.hasty

(* get_lowest_instance: there are more numbers than connections, and a child that can be seen
   keeps its number to itself. *)
LEMMA LowestIsFree == A!LowestInstance \in A!Instances \ A!Seen
<1> DEFINE C == {d \in AmConn : child[d].pc \in A!Serving \cup {"started", "stuck"}}
           n == Cardinality(AmConn)
<1>1. n \in Nat /\ A!Cardinality(AmConn) = n
  <2>1. \A T : A!Cardinality(T) = Cardinality(T)
    BY DEF A!Cardinality, Cardinality
  <2> QED BY <2>1, AmAssumption, FS_CardinalityType
<1>2. A!Instances = 2 .. n + 2 /\ IsFiniteSet(2 .. n + 2) /\ Cardinality(2 .. n + 2) = n + 1
  <2>1. A!Instances = 2 .. n + 2
    BY <1>1 DEF A!Instances
  <2> HIDE DEF n
  <2> QED BY <1>1, <2>1, FS_Interval
<1>3. IsFiniteSet(A!Seen) /\ Cardinality(A!Seen) <= n
  <2>1. IsFiniteSet(C) /\ Cardinality(C) <= n
    BY AmAssumption, FS_Subset
  <2> DEFINE f == [d \in C |-> child[d].inst]
  <2>2. f \in Surjection(C, A!Seen)
    BY DEF Surjection, A!Seen
  <2>3. IsFiniteSet(A!Seen) /\ Cardinality(A!Seen) <= Cardinality(C)
    <3> HIDE DEF f, C
    <3> QED BY <2>1, <2>2, FS_Surjection
  <2>4. Cardinality(C) \in Nat /\ Cardinality(A!Seen) \in Nat
    BY <2>1, <2>3, FS_CardinalityType
  <2> HIDE DEF C, n
  <2> QED BY <1>1, <2>1, <2>3, <2>4
<1>4. A!Instances \ A!Seen # {}
  <2> SUFFICES ASSUME A!Instances \subseteq A!Seen PROVE FALSE
    OBVIOUS
  <2>1. Cardinality(A!Instances) <= Cardinality(A!Seen)
    BY <1>3, FS_Subset
  <2>2. Cardinality(A!Seen) \in Nat
    BY <1>3, FS_CardinalityType
  <2> HIDE DEF n
  <2> QED BY <1>1, <1>2, <1>3, <2>1, <2>2
<1>5. A!Instances \ A!Seen \in SUBSET Nat
  <2> HIDE DEF n
  <2>1. 2 .. n + 2 \in SUBSET Nat
    BY <1>1
  <2> QED BY <1>2, <2>1
<1> QED BY <1>4, <1>5, LeastNumber DEF A!Min, A!LowestInstance

(* What does not accept nor fork leaves the numbers alone. *)
LEMMA AmQuiet ==
    ASSUME AmInv, parent' = parent, apast'.hasty = apast.hasty, DOMAIN apast' = DOMAIN apast,
           NEW c \in AmConn, child[c].pc # "none", Shape(child'), child'[c].inst = child[c].inst,
           child'[c].pc # "none", Live(c)' => Live(c), \A d \in AmConn \ {c} : child'[d] = child[d]
    PROVE  AmInv'
<1>1. \A d \in AmConn : child'[d].inst = child[d].inst /\ (child[d].pc = "none" => child'[d].pc = "none")
  OBVIOUS
<1>2. \A d \in AmConn : Live(d)' => Live(d)
  BY DEF Live
<1>3. \A x, d \in AmConn : x # d /\ Live(x)' /\ Live(d)' /\ child'[x].inst = child'[d].inst => x \in apast'.hasty
  BY <1>1, <1>2 DEF AmInv
<1>4. parent'.pc = "fork" =>
           /\ parent'.conn \in AmConn /\ child'[parent'.conn].pc = "none"
           /\ \A d \in AmConn : Live(d)' /\ child'[d].inst = parent'.inst =>
                  d \in apast'.hasty /\ parent'.conn \in apast'.hasty
  BY <1>1, <1>2 DEF AmInv
<1> QED BY <1>3, <1>4 DEF AmInv

(* The children after an assignment to some fields of one of them. *)
Assigned(children, c, pc) ==
    \E buffer, at, newmsg :
       \/ children = [child EXCEPT ![c].pc = pc]
       \/ children = [child EXCEPT ![c].inBuffer = buffer, ![c].pc = pc]
       \/ children = [child EXCEPT ![c].pc = pc, ![c].newmsg = newmsg]
       \/ children = [child EXCEPT ![c].at = at, ![c].inBuffer = buffer, ![c].newmsg = newmsg, ![c].pc = pc]

(* It leaves its number and the other children alone. *)
LEMMA ChildFields ==
    ASSUME Shape(child), NEW c \in AmConn, NEW pc, NEW children, Assigned(children, c, pc)
    PROVE  /\ Shape(children) /\ children[c].pc = pc /\ children[c].inst = child[c].inst
           /\ \A d \in AmConn \ {c} : children[d] = child[d]
<1>0. PICK buffer, at, newmsg :
         \/ children = [child EXCEPT ![c].pc = pc]
         \/ children = [child EXCEPT ![c].inBuffer = buffer, ![c].pc = pc]
         \/ children = [child EXCEPT ![c].pc = pc, ![c].newmsg = newmsg]
         \/ children = [child EXCEPT ![c].at = at, ![c].inBuffer = buffer, ![c].newmsg = newmsg, ![c].pc = pc]
  BY DEF Assigned
<1>1. CASE children = [child EXCEPT ![c].pc = pc]
  BY <1>1 DEF Shape
<1>2. CASE children = [child EXCEPT ![c].inBuffer = buffer, ![c].pc = pc]
  BY <1>2 DEF Shape
<1>3. CASE children = [child EXCEPT ![c].pc = pc, ![c].newmsg = newmsg]
  BY <1>3 DEF Shape
<1>4. CASE children = [child EXCEPT ![c].at = at, ![c].inBuffer = buffer, ![c].newmsg = newmsg, ![c].pc = pc]
  BY <1>4 DEF Shape
<1> QED BY <1>0, <1>1, <1>2, <1>3, <1>4, Zenon

(* Each step of an AM server and its children. *)
LEMMA AmStep == ASSUME AmInv, A!Next PROVE AmInv'
<1>0. Shape(child) /\ DOMAIN apast = {"hasty", "killed", "swept"}
  BY DEF AmInv
<1>1. ASSUME NEW c \in AmConn, A!Accept(c) PROVE AmInv'
  <2>0. child' = child /\ parent.pc = "accept" /\ child[c].pc = "none"
    BY <1>1 DEF A!Accept
  <2>1. CASE c \notin AllowIPs
    <3>1. parent' = parent /\ apast' = apast
      BY <1>1, <2>1 DEF A!Accept
    <3> QED BY <2>0, <3>1 DEF AmInv, Live
  <2>2. CASE c \in AllowIPs
    <3> DEFINE L == A!LowestInstance
               H == {d \in AmConn : child[d].pc = "forked" /\ child[d].inst = L}
               G == apast.hasty \cup (H \cup IF H # {} THEN {c} ELSE {})
    <3>1. parent' = [pc |-> "fork", conn |-> c, inst |-> L]
      BY <1>1, <2>2 DEF A!Accept
    <3>2. apast' = [apast EXCEPT !.hasty = apast.hasty \cup H \cup
                             IF \E d \in AmConn : child[d].pc = "forked" /\ child[d].inst = L THEN {c} ELSE {}]
      BY <1>1, <2>2 DEF A!Accept
    <3>3. (IF \E d \in AmConn : child[d].pc = "forked" /\ child[d].inst = L THEN {c} ELSE {})
             = IF H # {} THEN {c} ELSE {}
      OBVIOUS
    <3>4. apast'.hasty = G /\ DOMAIN apast' = DOMAIN apast
      <4>1. apast' = [apast EXCEPT !.hasty = G]
        BY <3>2, <3>3
      <4> HIDE DEF G
      <4> QED BY <1>0, <4>1
    <3>5. ASSUME NEW d \in AmConn, Live(d), child[d].inst = L PROVE d \in H
      <4>1. L \notin A!Seen
        BY LowestIsFree
      <4>2. child[d].pc \notin A!Serving \cup {"started", "stuck"}
        BY <3>5, <4>1 DEF A!Seen
      <4> QED BY <3>5, <4>2 DEF Live
    <3>6. \A d \in AmConn : Live(d)' <=> Live(d)
      BY <2>0 DEF Live
    <3>7. \A d \in AmConn : Live(d) /\ child[d].inst = L => d \in G /\ c \in G
      BY <3>5
    <3>8. apast.hasty \subseteq G
      OBVIOUS
    <3> HIDE DEF L, H, G
    <3> QED BY <2>0, <3>1, <3>4, <3>6, <3>7, <3>8 DEF AmInv
  <2> QED BY <2>1, <2>2
<1>2. CASE A!Fork
  <2> DEFINE p == parent.conn
  <2>1. /\ parent.pc = "fork" /\ p \in AmConn /\ child[p].pc = "none"
        /\ parent'.pc = "accept" /\ apast' = apast
        /\ child' = [child EXCEPT ![p] = [A!NoChild EXCEPT !.pc = "forked", !.inst = parent.inst]]
    BY <1>2 DEF A!Fork, AmInv
  <2>2. /\ Shape(child') /\ child'[p].pc = "forked" /\ child'[p].inst = parent.inst
        /\ \A d \in AmConn \ {p} : child'[d] = child[d]
    BY <1>0, <2>1 DEF Shape, A!NoChild
  <2>3. \A d \in AmConn \ {p} : Live(d)' <=> Live(d)
    BY <2>2 DEF Live
  <2>4. \A x, d \in AmConn : x # d /\ Live(x)' /\ Live(d)' /\ child'[x].inst = child'[d].inst
                             => x \in apast.hasty
    BY <2>1, <2>2, <2>3 DEF AmInv
  <2> QED BY <1>0, <2>1, <2>2, <2>4 DEF AmInv
<1>3. ASSUME NEW c \in AmConn, A!Serve(c) \/ A!Send(c) \/ A!KillChild(c) PROVE AmInv'
  <2>1. CASE A!Send(c)
    <3>1. child' = child /\ apast' = apast /\ parent' = parent
      BY <2>1 DEF A!Send
    <3> QED BY <3>1 DEF AmInv, Live
  <2>2. CASE A!Serve(c) \/ A!KillChild(c)
    <3>1. CASE A!Exec(c)
      <4>1. /\ parent' = parent /\ child[c].pc # "none"
            /\ apast'.hasty = apast.hasty /\ DOMAIN apast' = DOMAIN apast
            /\ Live(c)
        BY <1>0, <3>1 DEF A!Exec, Live, A!Serving
      <4>2. \E pc \in {"started"} : Assigned(child', c, pc)
        BY <3>1 DEF A!Exec, Assigned
      <4> QED BY <1>0, <4>1, <4>2, ChildFields, AmQuiet
    <3>2. CASE A!OnStartChild(c)
      <4>1. /\ parent' = parent /\ child[c].pc # "none"
            /\ apast'.hasty = apast.hasty /\ DOMAIN apast' = DOMAIN apast
            /\ Live(c)
        BY <1>0, <3>2, Zenon DEF A!OnStartChild, Live, A!Serving
      <4>2. \E pc \in {"recv", "stuck"} : Assigned(child', c, pc)
        BY <3>2 DEF A!OnStartChild, Assigned
      <4> QED BY <1>0, <4>1, <4>2, ChildFields, AmQuiet
    <3>3. CASE A!AddBuffer(c)
      <4>1. /\ parent' = parent /\ child[c].pc # "none"
            /\ apast'.hasty = apast.hasty /\ DOMAIN apast' = DOMAIN apast
            /\ Live(c)
        <5>a. child[c].pc = "recv" /\ parent' = parent
          BY <3>3 DEF A!AddBuffer
        <5>1. parent' = parent /\ child[c].pc # "none" /\ Live(c)
          BY <5>a DEF Live, A!Serving
        <5> DEFINE swept == apast.swept \cup
                              (IF \E i \in 1 .. child[c].at - 1 : Bulletins[c][i].form = "badHeader"
                               THEN {<<c, i>> : i \in child[c].at .. Len(Bulletins[c])} ELSE {})
        <5>2. apast' = apast \/ apast' = [apast EXCEPT !.swept = swept]
          BY <3>3, Zenon DEF A!AddBuffer
        <5> HIDE DEF swept
        <5>3. apast'.hasty = apast.hasty /\ DOMAIN apast' = DOMAIN apast
          <6>1. ASSUME apast' = [apast EXCEPT !.swept = swept]
                PROVE  apast'.hasty = apast.hasty /\ DOMAIN apast' = DOMAIN apast
            BY <6>1
          <6> QED BY <5>2, <6>1, Zenon
        <5> QED BY <5>1, <5>3, Zenon
      <4>2. \E pc \in {"unwrap", "gone"} : Assigned(child', c, pc)
        BY <3>3 DEF A!AddBuffer, Assigned
      <4> QED BY <1>0, <4>1, <4>2, ChildFields, AmQuiet
    <3>4. CASE A!Unwrap(c)
      <4>1. /\ parent' = parent /\ child[c].pc # "none"
            /\ apast'.hasty = apast.hasty /\ DOMAIN apast' = DOMAIN apast
            /\ Live(c)
        <5>a. child[c].pc = "unwrap" /\ parent' = parent
          BY <3>4 DEF A!Unwrap
        <5>1. parent' = parent /\ child[c].pc # "none" /\ Live(c)
          BY <5>a DEF Live, A!Serving
        <5>2. apast' = apast \/ \E x : apast' = [apast EXCEPT !.swept = x]
          BY <3>4 DEF A!Unwrap
        <5>3. apast'.hasty = apast.hasty /\ DOMAIN apast' = DOMAIN apast
          <6>1. ASSUME NEW x, apast' = [apast EXCEPT !.swept = x]
                PROVE  apast'.hasty = apast.hasty /\ DOMAIN apast' = DOMAIN apast
            BY <6>1
          <6> QED BY <5>2, <6>1, Zenon
        <5> QED BY <5>1, <5>3, Zenon
      <4>2. \E pc \in {"post", "unwrap"} : Assigned(child', c, pc)
        BY <3>4 DEF A!Unwrap, Assigned
      <4> QED BY <1>0, <4>1, <4>2, ChildFields, AmQuiet
    <3>5. CASE A!Unwrapped(c)
      <4>1. /\ parent' = parent /\ child[c].pc # "none"
            /\ apast'.hasty = apast.hasty /\ DOMAIN apast' = DOMAIN apast
            /\ Live(c)
        BY <1>0, <3>5 DEF A!Unwrapped, Live, A!Serving
      <4>2. \E pc \in {"post"} : Assigned(child', c, pc)
        BY <3>5 DEF A!Unwrapped, Assigned
      <4> QED BY <1>0, <4>1, <4>2, ChildFields, AmQuiet
    <3>6. CASE A!PostBulletins(c)
      <4>1. /\ parent' = parent /\ child[c].pc # "none"
            /\ apast'.hasty = apast.hasty /\ DOMAIN apast' = DOMAIN apast
            /\ Live(c)
        BY <1>0, <3>6 DEF A!PostBulletins, Live, A!Serving
      <4>2. \E pc \in {"recv"} : Assigned(child', c, pc)
        BY <3>6 DEF A!PostBulletins, Assigned
      <4> QED BY <1>0, <4>1, <4>2, ChildFields, AmQuiet
    <3>7. CASE A!KillChild(c)
      <4>1. /\ parent' = parent /\ child[c].pc # "none"
            /\ apast'.hasty = apast.hasty /\ DOMAIN apast' = DOMAIN apast
        BY <1>0, <3>7 DEF A!KillChild, A!Serving
      <4>2. \E pc \in {"gone"} : Assigned(child', c, pc)
        BY <3>7 DEF A!KillChild, Assigned
      <4>3. /\ Shape(child') /\ child'[c].pc = "gone" /\ child'[c].inst = child[c].inst
            /\ \A d \in AmConn \ {c} : child'[d] = child[d]
        BY <1>0, <4>2, ChildFields
      <4>4. ~Live(c)'
        BY <4>3 DEF Live, A!Serving
      <4> QED BY <4>1, <4>3, <4>4, AmQuiet
    <3> QED BY <2>2, <3>1, <3>2, <3>3, <3>4, <3>5, <3>6, <3>7 DEF A!Serve
  <2> QED BY <1>3, <2>1, <2>2
<1>4. CASE A!StopsAccepting
  <2>1. child' = child /\ apast' = apast /\ parent'.pc = "ended"
    BY <1>4 DEF A!StopsAccepting
  <2> QED BY <1>0, <2>1 DEF AmInv, Live, Shape
<1> QED BY <1>1, <1>2, <1>3, <1>4 DEF A!Next

-----------------------------------------------------------------------------
(* Poll. *)

(* A list that has no element twice. *)
Apart(q) == \A j, k \in 1 .. Len(q) : q[j] = q[k] => j = k

(* A list goes on having no element twice with one it did not have. *)
LEMMA ApartAppend ==
    ASSUME NEW Elem, NEW q \in Seq(Elem), NEW x \in Elem, x \notin Range(q), Apart(q)
    PROVE  Apart(Append(q, x))
<1> DEFINE r == Append(q, x)
<1>1. Len(r) = Len(q) + 1 /\ Len(q) \in Nat /\ r[Len(q) + 1] = x /\ \A j \in 1 .. Len(q) : r[j] = q[j]
  OBVIOUS
<1>2. \A j \in 1 .. Len(q) : q[j] # x
  BY DEF Range
<1> HIDE DEF r
<1>3. ASSUME NEW j \in 1 .. Len(r), NEW k \in 1 .. Len(r), r[j] = r[k] PROVE j = k
  <2>1. CASE j \in 1 .. Len(q) /\ k \in 1 .. Len(q)
    BY <1>1, <1>3, <2>1 DEF Apart
  <2>2. CASE j = Len(q) + 1 /\ k \in 1 .. Len(q)
    BY <1>1, <1>2, <1>3, <2>2
  <2>3. CASE j \in 1 .. Len(q) /\ k = Len(q) + 1
    BY <1>1, <1>2, <1>3, <2>3
  <2> QED BY <1>1, <2>1, <2>2, <2>3
<1>4. Apart(r)
  BY <1>3 DEF Apart
<1> QED BY <1>4 DEF r

(* Without: what is left of a list has the elements that were asked for, each as often as
   before.  The recursive definition is unfolded from the first element on. *)
LEMMA WithoutFacts ==
    ASSUME NEW Elem, NEW s \in Seq(Elem), NEW K
    PROVE  /\ P!Without(s, K) \in Seq(Elem) /\ Range(P!Without(s, K)) = Range(s) \ K
           /\ Apart(s) => Apart(P!Without(s, K))
<1> DEFINE n == Len(s)
           Then(q, k) == IF s[k] \in K THEN q ELSE Append(q, s[k])
           Is(G, m) == G[0] = <<>> /\ \A k \in 1 .. m : G[k] = Then(G[k - 1], k)
           Body(G) == [k \in 0 .. n |-> IF k = 0 THEN <<>> ELSE IF s[k] \in K THEN G[k - 1] ELSE Append(G[k - 1], s[k])]
           F == CHOOSE G : G = Body(G)
<1>0. n \in Nat /\ \A q \in Seq(Elem), k \in 1 .. n : Then(q, k) \in Seq(Elem)
  OBVIOUS
<1>1. \E G \in [0 .. n -> Seq(Elem)] : Is(G, n)
  <2> DEFINE T == {m \in 0 .. n : \E G \in [0 .. m -> Seq(Elem)] : Is(G, m)}
  <2>1. 0 \in T
    <3> DEFINE G == [k \in 0 .. 0 |-> <<>>]
    <3>1. <<>> \in Seq(Elem) /\ 0 \in 0 .. 0 /\ 1 .. 0 = {} /\ 0 \in 0 .. n
      BY <1>0
    <3>2. G \in [0 .. 0 -> Seq(Elem)]
      BY <3>1
    <3>3. G[0] = <<>>
      BY <3>1
    <3> HIDE DEF G
    <3>4. Is(G, 0)
      BY <3>1, <3>3
    <3> HIDE DEF Is
    <3> QED BY <3>1, <3>2, <3>4
  <2>2. ASSUME NEW m \in 0 .. n - 1, m \in T PROVE m + 1 \in T
    <3>1. PICK G \in [0 .. m -> Seq(Elem)] : Is(G, m)
      BY <2>2
    <3> DEFINE H == [k \in 0 .. m + 1 |-> IF k <= m THEN G[k] ELSE Then(G[m], m + 1)]
    <3>2. m \in Nat /\ m + 1 \in 1 .. n /\ m \in 0 .. m
      BY <1>0
    <3>3. Then(G[m], m + 1) \in Seq(Elem)
      <4> HIDE DEF Then
      <4> QED BY <1>0, <3>2
    <3>4. H \in [0 .. m + 1 -> Seq(Elem)]
      <4> HIDE DEF Then
      <4> QED BY <3>2, <3>3
    <3>5. Is(H, m + 1)
      <4> HIDE DEF Then
      <4>1. H[0] = <<>>
        BY <3>1, <3>2
      <4>2. ASSUME NEW k \in 1 .. m + 1 PROVE H[k] = Then(H[k - 1], k)
        <5>1. CASE k <= m
          <6>1. k \in 1 .. m /\ k - 1 \in 0 .. m /\ k - 1 <= m /\ k \in 0 .. m + 1 /\ k - 1 \in 0 .. m + 1
            BY <3>2, <5>1
          <6>2. H[k] = G[k] /\ H[k - 1] = G[k - 1]
            BY <5>1, <6>1
          <6> QED BY <3>1, <6>1, <6>2
        <5>2. CASE k = m + 1
          <6>1. H[k] = Then(G[m], m + 1) /\ H[k - 1] = G[m] /\ k - 1 = m
            BY <3>2, <5>2
          <6> QED BY <5>2, <6>1
        <5> QED BY <3>2, <5>1, <5>2
      <4> QED BY <4>1, <4>2
    <3> HIDE DEF H, Is
    <3> QED BY <3>2, <3>4, <3>5
  <2>3. 0 .. n \subseteq T
    <3> HIDE DEF T
    <3> QED BY <1>0, <2>1, <2>2, UpTo
  <2>4. n \in T
    <3> HIDE DEF T
    <3> QED BY <1>0, <2>3
  <2> HIDE DEF Is
  <2> QED BY <2>4
<1>2. PICK G0 \in [0 .. n -> Seq(Elem)] : Is(G0, n)
  BY <1>1
<1>3. G0 = Body(G0)
  <2>1. ASSUME NEW k \in 0 .. n PROVE G0[k] = Body(G0)[k]
    <3>1. CASE k = 0
      BY <1>0, <1>2, <3>1
    <3>2. CASE k # 0
      <4>1. k \in 1 .. n
        BY <1>0, <3>2
      <4>2. G0[k] = Then(G0[k - 1], k)
        BY <1>2, <4>1
      <4> QED BY <3>2, <4>2
    <3> QED BY <3>1, <3>2
  <2> QED BY <1>2, <2>1
<1>4. F = Body(F)
  <2> HIDE DEF Body
  <2> QED BY <1>3
<1>5. P!Without(s, K) = F[n]
  BY DEF P!Without
<1>6. F[0] = <<>> /\ \A k \in 0 .. n - 1 : F[k + 1] = Then(F[k], k + 1)
  <2> HIDE DEF F
  <2>1. \A k \in 0 .. n : F[k] = IF k = 0 THEN <<>> ELSE Then(F[k - 1], k)
    BY <1>4
  <2>2. ASSUME NEW k \in 0 .. n - 1 PROVE F[k + 1] = Then(F[k], k + 1)
    <3> HIDE DEF Then
    <3>1. k + 1 \in 0 .. n /\ k + 1 # 0 /\ (k + 1) - 1 = k
      BY <1>0
    <3> QED BY <2>1, <3>1
  <2> QED BY <1>0, <2>1, <2>2
<1> HIDE DEF F
<1> DEFINE Q(k) == /\ F[k] \in Seq(Elem) /\ \A x : x \in Range(F[k]) <=> x \notin K /\ \E j \in 1 .. k : s[j] = x
                   /\ Apart(s) => Apart(F[k])
           T == {k \in 0 .. n : Q(k)}
<1>7. 0 \in T
  <2>1. F[0] = <<>> /\ <<>> \in Seq(Elem) /\ Len(<<>>) = 0 /\ Range(<<>>) = {}
    BY <1>6, RangeFacts
  <2>2. Apart(<<>>)
    BY <2>1 DEF Apart
  <2>3. Q(0)
    BY <2>1, <2>2
  <2> QED
    <3> HIDE DEF Q
    <3> QED BY <1>0, <2>3
<1>8. ASSUME NEW k \in 0 .. n - 1, k \in T PROVE k + 1 \in T
  <2>1. k \in Nat /\ k + 1 \in 1 .. n /\ s[k + 1] \in Elem /\ Q(k) /\ F[k + 1] = Then(F[k], k + 1)
    BY <1>0, <1>6, <1>8
  <2>2. CASE s[k + 1] \in K
    <3>1. F[k + 1] = F[k]
      BY <2>1, <2>2
    <3>2. \A x : x \notin K /\ (\E j \in 1 .. k + 1 : s[j] = x) <=> x \notin K /\ \E j \in 1 .. k : s[j] = x
      BY <2>1, <2>2
    <3> QED BY <2>1, <3>1, <3>2
  <2>3. CASE s[k + 1] \notin K
    <3>1. F[k + 1] = Append(F[k], s[k + 1]) /\ F[k + 1] \in Seq(Elem)
          /\ Range(F[k + 1]) = Range(F[k]) \cup {s[k + 1]}
      BY <2>1, <2>3, RangeFacts
    <3>2. \A x : (\E j \in 1 .. k + 1 : s[j] = x) <=> x = s[k + 1] \/ \E j \in 1 .. k : s[j] = x
      BY <2>1
    <3>3. \A x : x \in Range(F[k + 1]) <=> x \notin K /\ \E j \in 1 .. k + 1 : s[j] = x
      BY <2>1, <2>3, <3>1, <3>2
    <3>4. ASSUME Apart(s) PROVE Apart(F[k + 1])
      <4>1. s[k + 1] \notin Range(F[k])
        <5>1. \A j \in 1 .. k : s[j] # s[k + 1]
          <6>1. \A j \in 1 .. k : j \in 1 .. n /\ j # k + 1
            BY <1>0, <2>1
          <6> QED BY <2>1, <3>4, <6>1 DEF Apart
        <5> QED BY <2>1, <5>1
      <4>2. Apart(F[k])
        BY <2>1, <3>4
      <4> QED BY <2>1, <3>1, <4>1, <4>2, ApartAppend
    <3>5. Q(k + 1)
      BY <3>1, <3>3, <3>4
    <3> HIDE DEF Q
    <3> QED BY <2>1, <3>5
  <2> QED BY <2>2, <2>3
<1>9. 0 .. n \subseteq T
  <2> HIDE DEF T
  <2> QED BY <1>0, <1>7, <1>8, UpTo
<1>10. Q(n)
  <2>1. n \in T
    <3> HIDE DEF T
    <3> QED BY <1>0, <1>9
  <2> QED BY <2>1
<1>11. \A x : x \in Range(s) <=> \E j \in 1 .. n : s[j] = x
  BY DEF Range
<1> QED BY <1>5, <1>10, <1>11

(* Two lists without an element in common, joined. *)
LEMMA ApartJoin ==
    ASSUME NEW Elem, NEW s \in Seq(Elem), NEW t \in Seq(Elem), Apart(s), Apart(t), Range(s) \cap Range(t) = {}
    PROVE  Apart(s \o t)
<1> DEFINE u == s \o t
<1>1. /\ Len(u) = Len(s) + Len(t) /\ Len(s) \in Nat /\ Len(t) \in Nat
      /\ \A i \in 1 .. Len(s) : u[i] = s[i]
      /\ \A i \in 1 .. Len(s) + Len(t) : i > Len(s) => i - Len(s) \in 1 .. Len(t) /\ u[i] = t[i - Len(s)]
  BY JoinFacts
<1>2. /\ \A i \in 1 .. Len(s) : s[i] \in Range(s)
      /\ \A i \in 1 .. Len(t) : t[i] \in Range(t)
  BY DEF Range
<1> HIDE DEF u
<1>3. ASSUME NEW j \in 1 .. Len(u), NEW k \in 1 .. Len(u), u[j] = u[k] PROVE j = k
  <2>1. CASE j <= Len(s) /\ k <= Len(s)
    <3>1. j \in 1 .. Len(s) /\ k \in 1 .. Len(s)
      BY <1>1, <2>1
    <3> QED BY <1>1, <1>3, <3>1 DEF Apart
  <2>2. CASE j > Len(s) /\ k > Len(s)
    <3>1. /\ j - Len(s) \in 1 .. Len(t) /\ k - Len(s) \in 1 .. Len(t)
          /\ t[j - Len(s)] = t[k - Len(s)]
      BY <1>1, <1>3, <2>2
    <3>2. j - Len(s) = k - Len(s)
      BY <3>1 DEF Apart
    <3> QED BY <1>1, <3>2
  <2>3. CASE j <= Len(s) /\ k > Len(s)
    <3>1. j \in 1 .. Len(s) /\ k - Len(s) \in 1 .. Len(t) /\ s[j] = t[k - Len(s)]
      BY <1>1, <1>3, <2>3
    <3> QED BY <1>2, <3>1
  <2>4. CASE j > Len(s) /\ k <= Len(s)
    <3>1. k \in 1 .. Len(s) /\ j - Len(s) \in 1 .. Len(t) /\ s[k] = t[j - Len(s)]
      BY <1>1, <1>3, <2>4
    <3> QED BY <1>2, <3>1
  <2> QED BY <1>1, <2>1, <2>2, <2>3, <2>4
<1>4. Apart(u)
  BY <1>3 DEF Apart
<1> QED BY <1>4 DEF u

(* The operators of the community modules are those that Poll uses. *)
LEMMA SameInPoll ==
    /\ \A f : P!Range(f) = Range(f)
    /\ \A T : P!SetToSeq(T) = SetToSeq(T)
    /\ \A T : P!Cardinality(T) = Cardinality(T)
<1>1. \A f : P!Range(f) = Range(f)
  BY DEF P!Range, Range
<1>2. \A T : P!Cardinality(T) = Cardinality(T)
  BY DEF P!Cardinality, Cardinality
<1>3. \A T : P!SetToSeq(T) = SetToSeq(T)
  BY DEF P!SetToSeq, SetToSeq, P!IsInjective, IsInjective, P!Cardinality, Cardinality
<1> QED BY <1>1, <1>2, <1>3

(* What a node has to announce: what it could not post, and what it has just polled and
   entered in its duplicate suppression. *)
Holds(n, i) ==
    \/ i \in Range(retry[n])
    \/ node[n].pc = "post" /\ node[n].polled /\ i \in Range(node[n].incoming)

(* It has it once. *)
HoldsOnce(n, i) ==
    /\ \A j, k \in 1 .. Len(retry[n]) : retry[n][j] = i /\ retry[n][k] = i => j = k
    /\ ~(i \in Range(retry[n]) /\ node[n].pc = "post" /\ node[n].polled /\ i \in Range(node[n].incoming))

(* A version is still to be announced, by one node, or was announced, and then some node has it
   in its duplicate suppression. *)
Counted(i) ==
    \/ i \in ppast.unseen
    \/ /\ announced[i] \in {0, 1}
       /\ \A n \in Node : Holds(n, i) => announced[i] = 0 /\ i \in nodupe[n] /\ HoldsOnce(n, i)
       /\ \A n, m \in Node : Holds(n, i) /\ Holds(m, i) => n = m
       /\ announced[i] = 1 => \E m \in Node : i \in nodupe[m]

(* What is polled is listed once, as each directory is. *)
Round(n) ==
    /\ DOMAIN node[n] = {"pc", "haveVip", "due", "incoming", "polled", "todo"}
    /\ node[n].incoming \in Seq(P!Item) /\ node[n].polled \in BOOLEAN
    /\ node[n].pc \in {"gather", "scheduled"} => ~node[n].polled
    /\ node[n].pc = "poll" =>
          /\ Apart(node[n].incoming)
          /\ \A k \in 1 .. Len(node[n].incoming) : RemoteFile[node[n].incoming[k][1]].dir \notin node[n].todo
    /\ node[n].pc \in {"filter", "post"} /\ node[n].polled => Apart(node[n].incoming)

(* The lists and sets are of versions of files. *)
PollType ==
    /\ popt \in PollOptions /\ DOMAIN node = Node
    /\ nodupe \in [Node -> SUBSET P!Item] /\ retry \in [Node -> Seq(P!Item)] /\ inq \in [Node -> Seq(P!Item)]
    /\ announced \in [P!Item -> Nat] /\ server \in [P!FileName -> 0 .. NVersions]
    /\ DOMAIN ppast = {"unseen", "dropped"}

PollInv == PollType /\ (\A n \in Node : Round(n)) /\ \A i \in P!Item : Counted(i)

(* What neither filters nor posts leaves the count alone. *)
LEMMA Inert ==
    ASSUME PollInv, retry' = retry, announced' = announced, nodupe' = nodupe, ppast'.unseen = ppast.unseen,
           \A n \in Node : node'[n].pc = "post" => node'[n] = node[n]
    PROVE  \A i \in P!Item : Counted(i)'
<1>1. ASSUME NEW i \in P!Item PROVE Counted(i)'
  <2>1. CASE i \in ppast.unseen
    BY <2>1 DEF Counted
  <2>2. CASE i \notin ppast.unseen
    <3>1. \A n \in Node : Holds(n, i)' => Holds(n, i)
      BY DEF Holds
    <3>2. \A n \in Node : HoldsOnce(n, i) => HoldsOnce(n, i)'
      BY DEF HoldsOnce
    <3> QED BY <2>2, <3>1, <3>2 DEF Counted, PollInv
  <2> QED BY <2>1, <2>2
<1> QED BY <1>1

(* poll_list_post: a listing has each of its files once, and they are of the directory. *)
LEMMA ListingFacts ==
    ASSUME PollType, NEW d
    PROVE  LET q == P!PollListPost(d) IN
           /\ q \in Seq(P!Item) /\ Apart(q)
           /\ \A i \in Range(q) : RemoteFile[i[1]].dir = d
<1> DEFINE F == {g \in P!LsDir(d) : P!PollFilePost(g)}
           T == {<<f, server[f]>> : f \in F}
<1>1. F \subseteq P!FileName /\ \A f \in F : RemoteFile[f].dir = d /\ server[f] > 0
  BY DEF P!LsDir
<1>2. IsFiniteSet(F)
  BY <1>1, PollAssumption, FS_Subset DEF P!FileName
<1>3. T \subseteq P!Item
  <2>1. \A f \in F : server[f] \in 1 .. NVersions
    BY <1>1, PollAssumption DEF PollType
  <2> HIDE DEF F
  <2> QED BY <1>1, <2>1 DEF P!Item
<1>4. IsFiniteSet(T)
  <2> DEFINE h == [f \in F |-> <<f, server[f]>>]
  <2>1. h \in Surjection(F, T)
    BY DEF Surjection
  <2> HIDE DEF h, F, T
  <2> QED BY <1>2, <2>1, FS_Surjection
<1>5. P!PollListPost(d) = SetToSeq(T)
  BY SameInPoll DEF P!PollListPost
<1>6. \A i \in T : RemoteFile[i[1]].dir = d
  BY <1>1
<1>7. SetToSeq(T) \in Seq(T) /\ Range(SetToSeq(T)) = T /\ Apart(SetToSeq(T))
  <2> HIDE DEF T
  <2> QED BY <1>4, SetToSeqFacts DEF Apart
<1>8. SetToSeq(T) \in Seq(P!Item)
  <2> HIDE DEF T
  <2> QED BY <1>3, <1>7
<1> HIDE DEF T
<1> QED BY <1>5, <1>6, <1>7, <1>8

(* What one node does to its own pass before it filters leaves PollInv, if it leaves Round. *)
LEMMA PassOn ==
    ASSUME PollInv, NEW n \in Node, DOMAIN node' = Node, \A m \in Node \ {n} : node'[m] = node[m],
           Round(n)', node'[n].pc # "post", inq' \in [Node -> Seq(P!Item)],
           retry' = retry, announced' = announced, nodupe' = nodupe, server' = server,
           ppast'.unseen = ppast.unseen, DOMAIN ppast' = DOMAIN ppast, popt' = popt
    PROVE  PollInv'
<1>1. PollType'
  BY DEF PollInv, PollType
<1>2. \A m \in Node : Round(m)'
  <2>1. \A m \in Node \ {n} : Round(m)'
    BY DEF PollInv, Round
  <2> QED BY <2>1
<1>3. \A i \in P!Item : Counted(i)'
  <2>1. \A m \in Node : node'[m].pc = "post" => node'[m] = node[m]
    OBVIOUS
  <2> QED BY <2>1, Inert
<1> QED BY <1>1, <1>2, <1>3 DEF PollInv

(* The steps of a pass that gather. *)
LEMMA GatherStep ==
    ASSUME PollInv, NEW n \in Node,
           \/ P!RunVipUpdate(n) \/ P!GatherMessages(n) \/ P!GatherScheduled(n) \/ P!PollDirectory(n)
           \/ P!PollDone(n) \/ P!PollKill(n) \/ P!TimeToPoll(n)
    PROVE  PollInv'
<1>0. /\ PollType /\ Round(n) /\ DOMAIN node = Node
      /\ DOMAIN node[n] = {"pc", "haveVip", "due", "incoming", "polled", "todo"}
      /\ DOMAIN ppast = {"unseen", "dropped"} /\ inq \in [Node -> Seq(P!Item)]
  BY DEF PollInv, PollType, Round
<1>1. CASE P!RunVipUpdate(n)
  <2>1. <<>> \in Seq(P!Item)
    OBVIOUS
  <2>2. /\ DOMAIN node' = Node /\ \A m \in Node \ {n} : node'[m] = node[m]
        /\ DOMAIN node'[n] = DOMAIN node[n]
        /\ node'[n].pc = "gather" /\ node'[n].incoming = <<>> /\ node'[n].polled = FALSE
    BY <1>0, <1>1 DEF P!RunVipUpdate
  <2>3. Round(n)'
    BY <1>0, <2>1, <2>2 DEF Round
  <2>4. /\ inq' = inq /\ popt' = popt /\ retry' = retry /\ announced' = announced /\ nodupe' = nodupe
        /\ server' = server /\ ppast' = ppast
    BY <1>1 DEF P!RunVipUpdate
  <2> QED BY <1>0, <2>2, <2>3, <2>4, PassOn
<1>2. CASE P!GatherMessages(n)
  <2>1. PICK k \in Int : /\ node' = [node EXCEPT ![n].incoming = SubSeq(inq[n], 1, k),
                                                ![n].pc = IF k = popt.batch THEN "filter" ELSE "scheduled"]
                         /\ inq' = [inq EXCEPT ![n] = SubSeq(inq[n], k + 1, Len(inq[n]))]
                         /\ k \in 0 .. Len(inq[n])
    <3> DEFINE k == IF ~popt.vip THEN 0 ELSE IF Len(inq[n]) > popt.batch THEN popt.batch ELSE Len(inq[n])
    <3>1. k \in 0 .. Len(inq[n])
      BY <1>0, PollAssumption DEF PollType
    <3>2. /\ node' = [node EXCEPT ![n].incoming = SubSeq(inq[n], 1, k),
                                  ![n].pc = IF k = popt.batch THEN "filter" ELSE "scheduled"]
          /\ inq' = [inq EXCEPT ![n] = SubSeq(inq[n], k + 1, Len(inq[n]))]
      BY <1>0, <1>2 DEF P!GatherMessages
    <3> HIDE DEF k
    <3>3. k \in Int
      BY <3>1
    <3> QED BY <3>1, <3>2, <3>3
  <2>2. SubSeq(inq[n], 1, k) \in Seq(P!Item) /\ SubSeq(inq[n], k + 1, Len(inq[n])) \in Seq(P!Item)
    BY <1>0, <2>1
  <2>3. /\ DOMAIN node' = Node /\ \A m \in Node \ {n} : node'[m] = node[m]
        /\ DOMAIN node'[n] = DOMAIN node[n]
        /\ node'[n].pc \in {"filter", "scheduled"} /\ node'[n].incoming = SubSeq(inq[n], 1, k)
        /\ node'[n].polled = node[n].polled
    BY <1>0, <2>1
  <2>4. ~node[n].polled /\ node[n].polled \in BOOLEAN
    BY <1>0, <1>2 DEF P!GatherMessages, Round
  <2>5. Round(n)'
    BY <1>0, <2>2, <2>3, <2>4 DEF Round
  <2>6. inq' \in [Node -> Seq(P!Item)]
    BY <1>0, <2>1, <2>2
  <2>7. /\ popt' = popt /\ retry' = retry /\ announced' = announced /\ nodupe' = nodupe /\ server' = server /\ ppast' = ppast
    BY <1>2 DEF P!GatherMessages
  <2> QED BY <1>0, <2>3, <2>5, <2>6, <2>7, PassOn
<1>3. CASE P!GatherScheduled(n)
  <2>1. /\ DOMAIN node' = Node /\ \A m \in Node \ {n} : node'[m] = node[m]
        /\ DOMAIN node'[n] = DOMAIN node[n] /\ node'[n].incoming = node[n].incoming
        /\ node'[n].polled = (node[n].due /\ P!PollNow(n))
        /\ node'[n].pc = IF node[n].due /\ P!PollNow(n) THEN "poll" ELSE "filter"
    BY <1>0, <1>3 DEF P!GatherScheduled
  <2>2. node[n].incoming \in Seq(P!Item)
    BY <1>0 DEF Round
  <2>3. Round(n)'
    <3>1. CASE node[n].due /\ P!PollNow(n)
      <4>1. node[n].incoming = <<>>
        BY <3>1 DEF P!PollNow
      <4>2. node'[n].polled = TRUE /\ node'[n].pc = "poll"
        BY <2>1, <3>1
      <4> QED BY <1>0, <2>1, <2>2, <4>1, <4>2 DEF Round, Apart
    <3>2. CASE ~(node[n].due /\ P!PollNow(n))
      <4>1. node'[n].polled = FALSE /\ node'[n].pc = "filter"
        BY <2>1, <3>2
      <4> QED BY <1>0, <2>1, <2>2, <4>1 DEF Round
    <3> QED BY <3>1, <3>2
  <2>4. node'[n].pc # "post"
    BY <2>1
  <2>5. /\ inq' = inq /\ popt' = popt /\ retry' = retry /\ announced' = announced /\ nodupe' = nodupe
        /\ server' = server /\ ppast' = ppast
    BY <1>3 DEF P!GatherScheduled
  <2> QED BY <1>0, <2>1, <2>3, <2>4, <2>5, PassOn
<1>4. CASE P!PollDirectory(n)
  <2>0. /\ inq' = inq /\ popt' = popt /\ retry' = retry /\ announced' = announced /\ nodupe' = nodupe
        /\ server' = server /\ ppast' = ppast /\ node[n].pc = "poll"
    BY <1>4 DEF P!PollDirectory
  <2>1. PICK d \in node[n].todo :
           \/ node' = [node EXCEPT ![n].todo = node[n].todo \ {d},
                                   ![n].incoming = node[n].incoming \o P!PollListPost(d)]
           \/ node' = [node EXCEPT ![n].todo = node[n].todo \ {d}]
    BY <1>0, <1>4 DEF P!PollDirectory
  <2>2. /\ node[n].incoming \in Seq(P!Item) /\ node[n].polled \in BOOLEAN /\ Apart(node[n].incoming)
        /\ \A k \in 1 .. Len(node[n].incoming) : RemoteFile[node[n].incoming[k][1]].dir \notin node[n].todo
    BY <1>0, <2>0 DEF Round
  <2>3. /\ DOMAIN node' = Node /\ \A m \in Node \ {n} : node'[m] = node[m]
        /\ DOMAIN node'[n] = DOMAIN node[n] /\ node'[n].todo = node[n].todo \ {d}
        /\ node'[n].pc = "poll" /\ node'[n].polled = node[n].polled
        /\ \/ node'[n].incoming = node[n].incoming \o P!PollListPost(d)
           \/ node'[n].incoming = node[n].incoming
    <3>1. CASE node' = [node EXCEPT ![n].todo = node[n].todo \ {d},
                                    ![n].incoming = node[n].incoming \o P!PollListPost(d)]
      BY <1>0, <2>0, <3>1
    <3>2. CASE node' = [node EXCEPT ![n].todo = node[n].todo \ {d}]
      BY <1>0, <2>0, <3>2
    <3> QED BY <2>1, <3>1, <3>2
  <2>4. Round(n)'
    <3>1. CASE node'[n].incoming = node[n].incoming \o P!PollListPost(d)
      <4> DEFINE s == node[n].incoming
                 q == P!PollListPost(d)
      <4>1. q \in Seq(P!Item) /\ Apart(q) /\ \A i \in Range(q) : RemoteFile[i[1]].dir = d
        BY <1>0, ListingFacts
      <4>2. \A i \in Range(s) : RemoteFile[i[1]].dir \notin node[n].todo
        BY <2>2 DEF Range
      <4>3. s \in Seq(P!Item) /\ Apart(s)
        BY <2>2
      <4> HIDE DEF s, q
      <4>4. Range(s) \cap Range(q) = {}
        BY <2>1, <4>1, <4>2
      <4>5. Apart(s \o q) /\ s \o q \in Seq(P!Item) /\ Range(s \o q) = Range(s) \cup Range(q)
        BY <4>1, <4>3, <4>4, ApartJoin, JoinFacts
      <4>6. \A i \in Range(s \o q) : RemoteFile[i[1]].dir \notin node'[n].todo
        BY <2>3, <4>1, <4>2, <4>5
      <4>7. \A k \in 1 .. Len(s \o q) : (s \o q)[k] \in Range(s \o q)
        BY <4>5 DEF Range
      <4>8. node'[n].incoming = s \o q
        BY <3>1 DEF s, q
      <4> QED BY <1>0, <2>2, <2>3, <4>5, <4>6, <4>7, <4>8 DEF Round
    <3>2. CASE node'[n].incoming = node[n].incoming
      BY <1>0, <2>2, <2>3, <3>2 DEF Round
    <3> QED BY <2>3, <3>1, <3>2, Zenon
  <2> QED BY <1>0, <2>0, <2>3, <2>4, PassOn
<1>5. CASE P!PollDone(n)
  <2>1. /\ DOMAIN node' = Node /\ \A m \in Node \ {n} : node'[m] = node[m]
        /\ DOMAIN node'[n] = DOMAIN node[n] /\ node'[n].incoming = node[n].incoming
        /\ node'[n].polled = (node[n].incoming # <<>>) /\ node'[n].pc = "filter" /\ node[n].pc = "poll"
    BY <1>0, <1>5 DEF P!PollDone
  <2>2. node[n].incoming \in Seq(P!Item) /\ Apart(node[n].incoming)
    BY <1>0, <2>1 DEF Round
  <2>3. node'[n].polled \in BOOLEAN
    BY <2>1
  <2>4. Round(n)'
    BY <1>0, <2>1, <2>2, <2>3 DEF Round
  <2>5. /\ inq' = inq /\ popt' = popt /\ retry' = retry /\ announced' = announced /\ nodupe' = nodupe
        /\ server' = server /\ ppast' = ppast
    BY <1>5 DEF P!PollDone
  <2> QED BY <1>0, <2>1, <2>4, <2>5, PassOn
<1>6. CASE P!PollKill(n)
  <2>0. node[n].incoming \in Seq(P!Item) /\ inq[n] \in Seq(P!Item) /\ <<>> \in Seq(P!Item)
    BY <1>0 DEF Round
  <2>1. /\ node' = [node EXCEPT ![n] = [P!Ready EXCEPT !.due = TRUE]]
        /\ inq' = [inq EXCEPT ![n] = IF node[n].polled THEN inq[n] ELSE node[n].incoming \o inq[n]]
        /\ popt' = popt /\ retry' = retry /\ announced' = announced /\ nodupe' = nodupe /\ server' = server
    BY <1>0, <1>6 DEF P!PollKill
  <2>2. ppast'.unseen = ppast.unseen /\ DOMAIN ppast' = DOMAIN ppast
    BY <1>0, <1>6 DEF P!PollKill
  <2>3. inq' \in [Node -> Seq(P!Item)]
    <3>1. node[n].incoming \o inq[n] \in Seq(P!Item)
      BY <2>0, JoinFacts
    <3> QED BY <1>0, <2>0, <2>1, <3>1
  <2>4. /\ DOMAIN node' = Node /\ \A m \in Node \ {n} : node'[m] = node[m]
        /\ node'[n] = [P!Ready EXCEPT !.due = TRUE]
    BY <1>0, <2>1
  <2>5. LET r == [P!Ready EXCEPT !.due = TRUE] IN
        /\ DOMAIN r = {"pc", "haveVip", "due", "incoming", "polled", "todo"}
        /\ r.pc = "top" /\ r.incoming = <<>> /\ r.polled = FALSE
    BY DEF P!Ready
  <2>6. Round(n)'
    BY <2>0, <2>4, <2>5 DEF Round
  <2> QED BY <2>1, <2>2, <2>3, <2>4, <2>5, <2>6, PassOn
<1>7. CASE P!TimeToPoll(n)
  <2>1. /\ DOMAIN node' = Node /\ \A m \in Node \ {n} : node'[m] = node[m]
        /\ DOMAIN node'[n] = DOMAIN node[n] /\ node'[n].incoming = node[n].incoming
        /\ node'[n].polled = node[n].polled /\ node'[n].pc = "top"
    BY <1>0, <1>7 DEF P!TimeToPoll
  <2>2. Round(n)'
    BY <1>0, <2>1 DEF Round
  <2>3. /\ inq' = inq /\ popt' = popt /\ retry' = retry /\ announced' = announced /\ nodupe' = nodupe
        /\ server' = server /\ ppast' = ppast
    BY <1>7 DEF P!TimeToPoll
  <2> QED BY <1>0, <2>1, <2>2, <2>3, PassOn
<1> QED BY <1>1, <1>2, <1>3, <1>4, <1>5, <1>6, <1>7

(* filter: what is new to the node was not announced, nor is another about to announce it, unless
   another one knows of it. *)
LEMMA FilterStep == ASSUME PollInv, NEW n \in Node, P!Filter(n) PROVE PollInv'
<1> DEFINE fresh == P!Without(node[n].incoming, nodupe[n])
<1>0. /\ PollType /\ Round(n) /\ DOMAIN node = Node /\ node[n].pc = "filter"
      /\ DOMAIN node[n] = {"pc", "haveVip", "due", "incoming", "polled", "todo"}
      /\ DOMAIN ppast = {"unseen", "dropped"} /\ node[n].incoming \in Seq(P!Item)
      /\ node[n].polled \in BOOLEAN
  BY DEF PollInv, PollType, Round, P!Filter
<1>1. /\ fresh \in Seq(P!Item) /\ Range(fresh) = Range(node[n].incoming) \ nodupe[n]
      /\ Apart(node[n].incoming) => Apart(fresh)
  BY <1>0, WithoutFacts
<1>2. /\ node' = [node EXCEPT ![n].incoming = fresh, ![n].pc = "post"]
      /\ nodupe' = [nodupe EXCEPT ![n] = nodupe[n] \cup Range(node[n].incoming)]
      /\ ppast' = [ppast EXCEPT !.unseen = ppast.unseen \cup
                       (IF node[n].polled
                        THEN {i \in Range(fresh) : \E m \in Node \ {n} : i \in nodupe[m]}
                        ELSE {})]
      /\ popt' = popt /\ inq' = inq /\ retry' = retry /\ server' = server /\ announced' = announced
  BY <1>0, SameInPoll DEF P!Filter, P!Fresh
<1> HIDE DEF fresh
<1>3. /\ DOMAIN node' = Node /\ \A m \in Node \ {n} : node'[m] = node[m]
      /\ DOMAIN node'[n] = DOMAIN node[n] /\ node'[n].incoming = fresh
      /\ node'[n].polled = node[n].polled /\ node'[n].pc = "post"
  BY <1>0, <1>2
<1>4. /\ \A m \in Node \ {n} : nodupe'[m] = nodupe[m]
      /\ nodupe'[n] = nodupe[n] \cup Range(node[n].incoming)
      /\ nodupe' \in [Node -> SUBSET P!Item]
  <2>1. Range(node[n].incoming) \subseteq P!Item
    BY <1>0 DEF Range
  <2> QED BY <1>0, <1>2, <2>1 DEF PollType
<1>5. /\ DOMAIN ppast' = DOMAIN ppast /\ ppast.unseen \subseteq ppast'.unseen
      /\ node[n].polled => \A i \in Range(fresh) : i \in ppast'.unseen \/ \A m \in Node \ {n} : i \notin nodupe[m]
  BY <1>0, <1>2
<1>6. PollType'
  BY <1>0, <1>2, <1>3, <1>4, <1>5 DEF PollType
<1>7. \A m \in Node : Round(m)'
  <2>1. \A m \in Node \ {n} : Round(m)'
    BY <1>3 DEF PollInv, Round
  <2>2. node[n].polled => Apart(fresh)
    BY <1>0, <1>1 DEF Round
  <2>3. Round(n)'
    BY <1>0, <1>1, <1>3, <2>2 DEF Round
  <2> QED BY <2>1, <2>3
<1>8. ASSUME NEW i \in P!Item PROVE Counted(i)'
  <2>1. CASE i \in ppast'.unseen
    BY <2>1 DEF Counted
  <2>2. CASE i \notin ppast'.unseen
    <3>1. /\ announced[i] \in {0, 1}
          /\ \A m \in Node : Holds(m, i) => announced[i] = 0 /\ i \in nodupe[m] /\ HoldsOnce(m, i)
          /\ \A k, m \in Node : Holds(k, i) /\ Holds(m, i) => k = m
          /\ announced[i] = 1 => \E m \in Node : i \in nodupe[m]
      BY <1>5, <2>2 DEF Counted, PollInv
    <3>2. \A m \in Node : i \in nodupe[m] => i \in nodupe'[m]
      BY <1>4
    <3>3. announced'[i] = announced[i] /\ (announced'[i] = 1 => \E m \in Node : i \in nodupe'[m])
      BY <1>2, <3>1, <3>2
    <3>4. CASE node[n].polled /\ i \in Range(fresh)
      <4>1. \A m \in Node : i \notin nodupe[m]
        BY <1>1, <1>5, <2>2, <3>4
      <4>2. announced[i] = 0 /\ \A m \in Node : ~Holds(m, i)
        BY <3>1, <4>1
      <4>3. i \notin Range(retry[n])
        BY <4>2 DEF Holds
      <4>4. \A m \in Node : Holds(m, i)' => m = n
        <5>1. \A m \in Node \ {n} : Holds(m, i)' => Holds(m, i)
          BY <1>2, <1>3 DEF Holds
        <5> QED BY <4>2, <5>1
      <4>5. i \in nodupe'[n]
        BY <1>1, <1>4, <3>4
      <4>6. HoldsOnce(n, i)'
        <5>1. \A j \in 1 .. Len(retry[n]) : retry[n][j] # i
          BY <4>3 DEF Range
        <5> QED BY <1>2, <4>3, <5>1 DEF HoldsOnce
      <4> QED BY <3>3, <4>2, <4>4, <4>5, <4>6 DEF Counted
    <3>5. CASE ~(node[n].polled /\ i \in Range(fresh))
      <4>1. \A m \in Node : Holds(m, i)' => Holds(m, i)
        <5>1. \A m \in Node \ {n} : Holds(m, i)' => Holds(m, i)
          BY <1>2, <1>3 DEF Holds
        <5>2. Holds(n, i)' => Holds(n, i)
          BY <1>2, <1>3, <3>5 DEF Holds
        <5> QED BY <5>1, <5>2
      <4>2. \A m \in Node : HoldsOnce(m, i) => HoldsOnce(m, i)'
        <5>1. \A m \in Node \ {n} : HoldsOnce(m, i) => HoldsOnce(m, i)'
          BY <1>2, <1>3 DEF HoldsOnce
        <5>2. HoldsOnce(n, i) => HoldsOnce(n, i)'
          BY <1>2, <1>3, <3>5 DEF HoldsOnce
        <5> QED BY <5>1, <5>2
      <4> QED BY <3>1, <3>2, <3>3, <4>1, <4>2 DEF Counted
    <3> QED BY <3>4, <3>5
  <2> QED BY <2>1, <2>2
<1> QED BY <1>6, <1>7, <1>8 DEF PollInv

(* What was posted of a list, and what is left. *)
LEMMA CutFacts ==
    ASSUME NEW Elem, NEW q \in Seq(Elem), NEW k \in 0 .. Len(q)
    PROVE  LET first == SubSeq(q, 1, k)
               rest == SubSeq(q, k + 1, Len(q)) IN
           /\ first \in Seq(Elem) /\ Len(first) = k /\ \A j \in 1 .. k : first[j] = q[j]
           /\ rest \in Seq(Elem) /\ Len(rest) = Len(q) - k
           /\ \A j \in 1 .. Len(q) - k : rest[j] = q[k + j]
<1>1. Len(q) \in Nat /\ k \in Int /\ k + 1 \in Int /\ Len(q) \in Int /\ k <= Len(q)
  OBVIOUS
<1>2. (\A j \in 1 .. k : q[j] \in Elem) /\ \A j \in k + 1 .. Len(q) : q[j] \in Elem
  <2>1. \A j \in 1 .. Len(q) : q[j] \in Elem
    OBVIOUS
  <2> QED BY <1>1, <2>1
<1>3. /\ SubSeq(q, 1, k) \in Seq(Elem) /\ Len(SubSeq(q, 1, k)) = IF 1 <= k THEN k - 1 + 1 ELSE 0
      /\ \A j \in 1 .. k - 1 + 1 : SubSeq(q, 1, k)[j] = q[1 + j - 1]
  BY <1>1, <1>2, SubSeqProperties
<1>4. /\ SubSeq(q, k + 1, Len(q)) \in Seq(Elem)
      /\ Len(SubSeq(q, k + 1, Len(q))) = IF k + 1 <= Len(q) THEN Len(q) - (k + 1) + 1 ELSE 0
      /\ \A j \in 1 .. Len(q) - (k + 1) + 1 : SubSeq(q, k + 1, Len(q))[j] = q[(k + 1) + j - 1]
  BY <1>1, <1>2, SubSeqProperties
<1> DEFINE first == SubSeq(q, 1, k)
           rest == SubSeq(q, k + 1, Len(q))
<1> HIDE DEF first, rest
<1>5. Len(first) = k /\ \A j \in 1 .. k : first[j] = q[j]
  BY <1>1, <1>3 DEF first
<1>6. Len(rest) = Len(q) - k /\ \A j \in 1 .. Len(q) - k : rest[j] = q[k + j]
  BY <1>1, <1>4 DEF rest
<1> QED BY <1>3, <1>4, <1>5, <1>6 DEF first, rest

(* post: what a node holds it announces, once, or holds on to it. *)
LEMMA PostStep == ASSUME PollInv, NEW n \in Node, P!Post(n) PROVE PollInv'
<1> DEFINE mine == P!ToPost(n)
           out == mine \o retry[n]
<1>0. /\ PollType /\ Round(n) /\ DOMAIN node = Node /\ node[n].pc = "post"
      /\ node[n].incoming \in Seq(P!Item) /\ node[n].polled \in BOOLEAN
      /\ retry[n] \in Seq(P!Item) /\ <<>> \in Seq(P!Item)
  BY DEF PollInv, PollType, Round, P!Post
<1>1. PICK k \in 0 .. Len(out) :
         /\ announced' = P!Bump(SubSeq(out, 1, k))
         /\ inq' = [m \in Node |-> inq[m] \o SubSeq(out, 1, k)]
         /\ retry' = [retry EXCEPT ![n] = SubSeq(out, k + 1, Len(out))]
  BY DEF P!Post
<1>2. /\ node' = [node EXCEPT ![n] = [P!Ready EXCEPT !.due = node[n].due]]
      /\ popt' = popt /\ nodupe' = nodupe /\ server' = server /\ ppast' = ppast
  BY DEF P!Post
<1>3. /\ mine \in Seq(P!Item) /\ Apart(mine)
      /\ \A x : x \in Range(mine) <=> node[n].polled /\ x \in Range(node[n].incoming)
  <2>1. CASE node[n].polled
    BY <1>0, <2>1 DEF P!ToPost, P!NotFromQueue, Round
  <2>2. CASE ~node[n].polled
    <3>1. mine = <<>> /\ Range(<<>>) = {} /\ Len(<<>>) = 0
      <4>1. Range(<<>>) = {}
        BY <1>0, RangeFacts
      <4> QED BY <2>2, <4>1 DEF P!ToPost, P!NotFromQueue
    <3>2. Apart(mine)
      BY <3>1 DEF Apart
    <3> QED BY <1>0, <2>2, <3>1, <3>2
  <2> QED BY <2>1, <2>2
<1> DEFINE first == SubSeq(out, 1, k)
           rest == SubSeq(out, k + 1, Len(out))
<1>4. /\ out \in Seq(P!Item) /\ Range(out) = Range(mine) \cup Range(retry[n])
      /\ Len(out) = Len(mine) + Len(retry[n]) /\ Len(mine) \in Nat /\ Len(retry[n]) \in Nat
      /\ \A j \in 1 .. Len(mine) : out[j] = mine[j]
      /\ \A j \in 1 .. Len(mine) + Len(retry[n]) :
            j > Len(mine) => j - Len(mine) \in 1 .. Len(retry[n]) /\ out[j] = retry[n][j - Len(mine)]
  <2> HIDE DEF mine
  <2> QED BY <1>0, <1>3, JoinFacts
<1> HIDE DEF mine, out
<1>5. /\ first \in Seq(P!Item) /\ Len(first) = k /\ \A j \in 1 .. k : first[j] = out[j]
      /\ rest \in Seq(P!Item) /\ Len(rest) = Len(out) - k
      /\ \A j \in 1 .. Len(out) - k : rest[j] = out[k + j]
  BY <1>4, CutFacts
<1>6. /\ announced' = P!Bump(first) /\ inq' = [m \in Node |-> inq[m] \o first]
      /\ retry' = [retry EXCEPT ![n] = rest]
  BY <1>1
<1>7. /\ DOMAIN node' = Node /\ \A m \in Node \ {n} : node'[m] = node[m]
      /\ node'[n] = [P!Ready EXCEPT !.due = node[n].due]
  BY <1>0, <1>2
<1>8. LET r == [P!Ready EXCEPT !.due = node[n].due] IN
      /\ DOMAIN r = {"pc", "haveVip", "due", "incoming", "polled", "todo"}
      /\ r.pc = "top" /\ r.incoming = <<>> /\ r.polled = FALSE
  BY DEF P!Ready
<1>9. \A m \in Node : Round(m)'
  <2>1. \A m \in Node \ {n} : Round(m)'
    BY <1>7 DEF PollInv, Round
  <2>2. Round(n)'
    BY <1>0, <1>7, <1>8 DEF Round
  <2> QED BY <2>1, <2>2
<1>10. /\ retry' \in [Node -> Seq(P!Item)] /\ retry'[n] = rest /\ \A m \in Node \ {n} : retry'[m] = retry[m]
       /\ inq' \in [Node -> Seq(P!Item)]
  <2>1. \A m \in Node : inq[m] \o first \in Seq(P!Item)
    <3> HIDE DEF first
    <3>1. \A m \in Node : inq[m] \in Seq(P!Item)
      BY <1>0 DEF PollType
    <3> QED BY <1>5, <3>1, JoinFacts
  <2> HIDE DEF first, rest
  <2> QED BY <1>0, <1>5, <1>6, <2>1 DEF PollType
<1>11. DOMAIN first = 1 .. k
  <2> HIDE DEF first
  <2> QED BY <1>5
<1> DEFINE count(i) == Cardinality({j \in 1 .. k : first[j] = i})
<1>12. \A i \in P!Item : announced'[i] = announced[i] + count(i) /\ count(i) \in Nat
  <2>1. \A i \in P!Item : announced'[i] = announced[i] + count(i)
    <3> HIDE DEF first
    <3> QED BY <1>6, <1>11, SameInPoll DEF P!Bump
  <2>2. \A i \in P!Item : count(i) \in Nat
    <3> HIDE DEF first
    <3>1. k \in Nat /\ IsFiniteSet(1 .. k)
      BY <1>4, FS_Interval
    <3>2. \A i \in P!Item : IsFiniteSet({j \in 1 .. k : first[j] = i})
      BY <3>1, FS_Subset
    <3> QED BY <3>2, FS_CardinalityType
  <2> QED BY <2>1, <2>2
<1>13. announced' \in [P!Item -> Nat]
  <2>1. DOMAIN announced' = P!Item /\ announced' = [i \in P!Item |-> announced'[i]]
    <3> HIDE DEF first
    <3> QED BY <1>6 DEF P!Bump
  <2>2. \A i \in P!Item : announced[i] \in Nat
    BY <1>0 DEF PollType
  <2>3. \A i \in P!Item : announced'[i] \in Nat
    <3> HIDE DEF count
    <3> QED BY <1>12, <2>2
  <2> QED BY <2>1, <2>3
<1>14. PollType'
  BY <1>0, <1>2, <1>7, <1>10, <1>13 DEF PollType
<1>15. ASSUME NEW i \in P!Item PROVE Counted(i)'
  <2>1. CASE i \in ppast.unseen
    BY <1>2, <2>1 DEF Counted
  <2>2. CASE i \notin ppast.unseen
    <3>1. /\ announced[i] \in {0, 1}
          /\ \A m \in Node : Holds(m, i) => announced[i] = 0 /\ i \in nodupe[m] /\ HoldsOnce(m, i)
          /\ \A l, m \in Node : Holds(l, i) /\ Holds(m, i) => l = m
          /\ announced[i] = 1 => \E m \in Node : i \in nodupe[m]
      BY <2>2 DEF Counted, PollInv
    <3>2. /\ \A m \in Node \ {n} : Holds(m, i)' => Holds(m, i)
          /\ \A m \in Node \ {n} : HoldsOnce(m, i) => HoldsOnce(m, i)'
      BY <1>7, <1>10, SMTT(20) DEF Holds, HoldsOnce
    <3>3. Holds(n, i)' <=> i \in Range(rest)
      BY <1>7, <1>8, <1>10 DEF Holds
    <3>4. Holds(n, i) <=> i \in Range(out)
      BY <1>0, <1>3, <1>4 DEF Holds
    <3>5. \A j \in 1 .. Len(out) : out[j] \in Range(out)
      BY <1>4 DEF Range
    <3>6. /\ \A j \in 1 .. k : j \in 1 .. Len(out) /\ first[j] = out[j]
          /\ \A j \in 1 .. Len(out) - k : k + j \in 1 .. Len(out) /\ rest[j] = out[k + j]
      <4> HIDE DEF first, rest
      <4> QED BY <1>4, <1>5
    <3>7. i \in Range(rest) <=> \E j \in 1 .. Len(out) - k : rest[j] = i
      <4> HIDE DEF rest
      <4>1. DOMAIN rest = 1 .. Len(out) - k
        BY <1>5
      <4> QED BY <4>1 DEF Range
    <3> HIDE DEF first, rest
    <3>8. CASE ~Holds(n, i)
      <4>1. \A j \in 1 .. Len(out) : out[j] # i
        BY <3>4, <3>5, <3>8
      <4>2. ~Holds(n, i)'
        BY <3>3, <3>6, <3>7, <4>1
      <4>3. \A j \in 1 .. k : first[j] # i
        BY <1>11, <3>6, <4>1
      <4>4. count(i) = 0
        <5>1. {j \in 1 .. k : first[j] = i} = {}
          BY <4>3
        <5> QED BY <5>1, FS_EmptySet
      <4>5. announced'[i] = announced[i]
        <5> HIDE DEF count
        <5> QED BY <1>12, <3>1, <4>4
      <4> QED BY <1>2, <3>1, <3>2, <4>2, <4>5 DEF Counted
    <3>9. CASE Holds(n, i)
      <4>1. announced[i] = 0 /\ i \in nodupe[n] /\ HoldsOnce(n, i) /\ \A m \in Node \ {n} : ~Holds(m, i)
        BY <3>1, <3>9
      <4>2. \A m \in Node \ {n} : ~Holds(m, i)'
        BY <3>2, <4>1
      <4>3. \A j, l \in 1 .. Len(out) : out[j] = i /\ out[l] = i => j = l
        <5>1. /\ \A j, l \in 1 .. Len(retry[n]) : retry[n][j] = i /\ retry[n][l] = i => j = l
              /\ ~(i \in Range(retry[n]) /\ i \in Range(mine))
          BY <1>0, <1>3, <4>1 DEF HoldsOnce
        <5>2. /\ \A j \in 1 .. Len(mine) : mine[j] \in Range(mine)
              /\ \A j \in 1 .. Len(retry[n]) : retry[n][j] \in Range(retry[n])
          BY <1>0, <1>3 DEF Range
        <5>3. ASSUME NEW j \in 1 .. Len(out), NEW l \in 1 .. Len(out), out[j] = i, out[l] = i PROVE j = l
          <6>1. CASE j <= Len(mine) /\ l <= Len(mine)
            <7>1. j \in 1 .. Len(mine) /\ l \in 1 .. Len(mine)
              BY <1>4, <6>1
            <7>2. mine[j] = mine[l]
              BY <1>4, <5>3, <7>1
            <7> QED BY <1>3, <7>1, <7>2 DEF Apart
          <6>2. CASE j > Len(mine) /\ l > Len(mine)
            <7>1. /\ j - Len(mine) \in 1 .. Len(retry[n]) /\ l - Len(mine) \in 1 .. Len(retry[n])
                  /\ retry[n][j - Len(mine)] = i /\ retry[n][l - Len(mine)] = i
              BY <1>4, <5>3, <6>2
            <7>2. j - Len(mine) = l - Len(mine)
              BY <5>1, <7>1
            <7> QED BY <1>4, <7>2
          <6>3. CASE j <= Len(mine) /\ l > Len(mine)
            <7>1. j \in 1 .. Len(mine) /\ mine[j] = i /\ l - Len(mine) \in 1 .. Len(retry[n])
                  /\ retry[n][l - Len(mine)] = i
              BY <1>4, <5>3, <6>3, SMTT(20)
            <7> QED BY <5>1, <5>2, <7>1
          <6>4. CASE j > Len(mine) /\ l <= Len(mine)
            <7>1. l \in 1 .. Len(mine) /\ mine[l] = i /\ j - Len(mine) \in 1 .. Len(retry[n])
                  /\ retry[n][j - Len(mine)] = i
              BY <1>4, <5>3, <6>4
            <7> QED BY <5>1, <5>2, <7>1
          <6> QED BY <1>4, <6>1, <6>2, <6>3, <6>4
        <5> QED BY <5>3
      <4>4. PICK p \in 1 .. Len(out) : out[p] = i
        BY <1>4, <3>4, <3>9 DEF Range
      <4>5. CASE p <= k
        <5>1. p \in 1 .. k /\ first[p] = i /\ \A j \in 1 .. k : first[j] = i => j = p
          BY <1>11, <3>6, <4>3, <4>4, <4>5, SMTT(40)
        <5>2. count(i) = 1
          <6>1. {j \in 1 .. k : first[j] = i} = {p}
            BY <5>1
          <6> QED BY <6>1, FS_Singleton
        <5>3. announced'[i] = 1
          <6> HIDE DEF count
          <6> QED BY <1>12, <4>1, <5>2
        <5>4. ~Holds(n, i)'
          <6>1. \A j \in 1 .. Len(out) - k : rest[j] # i
            <7> SUFFICES ASSUME NEW j \in 1 .. Len(out) - k, rest[j] = i PROVE FALSE
              OBVIOUS
            <7>1. k + j = p
              BY <3>6, <4>3, <4>4
            <7> QED BY <1>4, <4>5, <7>1
          <6> QED BY <3>3, <3>7, <6>1
        <5> QED BY <1>2, <4>1, <4>2, <5>3, <5>4 DEF Counted
      <4>6. CASE p > k
        <5>1. \A j \in 1 .. k : first[j] # i
          <6> SUFFICES ASSUME NEW j \in 1 .. k, first[j] = i PROVE FALSE
            BY <1>11
          <6>1. j = p
            BY <3>6, <4>3, <4>4
          <6> QED BY <1>4, <4>6, <6>1
        <5>2. count(i) = 0
          <6>1. {j \in 1 .. k : first[j] = i} = {}
            BY <5>1
          <6> QED BY <6>1, FS_EmptySet
        <5>3. announced'[i] = 0
          <6> HIDE DEF count
          <6> QED BY <1>12, <4>1, <5>2
        <5>4. HoldsOnce(n, i)'
          <6>1. \A j, l \in 1 .. Len(rest) : rest[j] = i /\ rest[l] = i => j = l
            <7> SUFFICES ASSUME NEW j \in 1 .. Len(rest), NEW l \in 1 .. Len(rest), rest[j] = i, rest[l] = i
                         PROVE j = l
              OBVIOUS
            <7>1. /\ k + j \in 1 .. Len(out) /\ out[k + j] = i
                  /\ k + l \in 1 .. Len(out) /\ out[k + l] = i
              BY <1>5, <3>6
            <7>2. k + j = k + l
              BY <4>3, <7>1
            <7> QED BY <1>4, <7>2
          <6>2. retry'[n] = rest /\ node'[n].pc # "post"
            BY <1>7, <1>8, <1>10
          <6> QED BY <6>1, <6>2 DEF HoldsOnce
        <5> QED BY <1>2, <4>1, <4>2, <5>3, <5>4 DEF Counted
      <4> QED BY <1>4, <4>5, <4>6
    <3> QED BY <3>8, <3>9
  <2> QED BY <2>1, <2>2
<1> QED BY <1>9, <1>14, <1>15 DEF PollInv

(* Each step of the nodes of a poll. *)
LEMMA PollStep == ASSUME PollInv, P!Next PROVE PollInv'
<1>1. ASSUME NEW n \in Node, P!Pass(n) \/ P!PollKill(n) \/ P!TimeToPoll(n) PROVE PollInv'
  BY <1>1, GatherStep, FilterStep, PostStep DEF P!Pass
<1>2. ASSUME NEW f \in P!FileName, P!ServerWrite(f) PROVE PollInv'
  <2>1. server' \in [P!FileName -> 0 .. NVersions]
    <3>1. server \in [P!FileName -> 0 .. NVersions] /\ server[f] + 1 \in 0 .. NVersions
      BY <1>2, PollAssumption DEF P!ServerWrite, PollInv, PollType
    <3> QED BY <1>2, <3>1 DEF P!ServerWrite
  <2> QED BY <1>2, <2>1 DEF P!ServerWrite, PollInv, PollType, Round, Counted, Holds, HoldsOnce
<1>3. CASE P!VipMoves
  BY <1>3 DEF P!VipMoves, PollInv, PollType, Round, Counted, Holds, HoldsOnce
<1> QED BY <1>1, <1>2, <1>3 DEF P!Next

-----------------------------------------------------------------------------
(* All of them. *)

SourcesInv == SchedInv /\ AmInv /\ PollInv

(* Nothing was gathered when the flow is started. *)
LEMMA SourcesInit == ASSUME Init PROVE SourcesInv
<1>1. PICK how \in [{"watch", "schedule", "poll", "am"} -> {"idle", "off"}] :
         S!InitAs(how["schedule"]) /\ P!InitAs(how["poll"]) /\ A!InitAs(how["am"])
  <2> DEFINE how == [s \in {"watch", "schedule", "poll", "am"} |-> IF source = s THEN "idle" ELSE "off"]
  <2>1. how \in [{"watch", "schedule", "poll", "am"} -> {"idle", "off"}]
    OBVIOUS
  <2>2. S!InitAs(how["schedule"]) /\ P!InitAs(how["poll"]) /\ A!InitAs(how["am"])
    BY DEF Init
  <2> HIDE DEF how
  <2> QED BY <2>1, <2>2
<1>2. SchedInv
  <2>1. \E o \in ScheduleOptions : TRUE
    BY ScheduleAssumption
  <2>2. sopt \in ScheduleOptions
    BY <1>1, <2>1 DEF S!InitAs
  <2>3. clock \in Nat
    <3>1. S!Day \in Nat
      BY ScheduleAssumption DEF S!Day
    <3>2. clock \in {0} \/ clock \in 0 .. S!Day - 1
      BY <1>1 DEF S!InitAs
    <3> QED BY <3>1, <3>2
  <2>4. appointments = {} /\ next_gather_time = 0 /\ last_gather_time = 0
    BY <1>1 DEF S!InitAs
  <2> QED BY <2>2, <2>3, <2>4 DEF SchedInv, NotTwice, S!NotTwice
<1>3. AmInv
  <2>1. /\ parent.pc \in {"off", "accept"} /\ child = [c \in AmConn |-> A!NoChild]
        /\ apast = [hasty |-> {}, killed |-> {}, swept |-> {}]
    <3>1. parent = [pc |-> IF how["am"] = "off" THEN "off" ELSE "accept", conn |-> A!NoOne, inst |-> 0]
      BY <1>1 DEF A!InitAs
    <3>2. parent.pc \in {"off", "accept"}
      BY <3>1
    <3> QED BY <1>1, <3>2 DEF A!InitAs
  <2>2. A!NoChild.pc = "none" /\ DOMAIN A!NoChild = {"pc", "inst", "inBuffer", "at", "newmsg"}
    BY DEF A!NoChild
  <2>3. Shape(child) /\ \A c \in AmConn : child[c].pc = "none"
    BY <2>1, <2>2 DEF Shape
  <2>4. \A c \in AmConn : ~Live(c)
    BY <2>3 DEF Live, A!Serving
  <2>5. parent.pc # "fork" /\ DOMAIN apast = {"hasty", "killed", "swept"}
    BY <2>1
  <2> QED BY <2>3, <2>4, <2>5 DEF AmInv
<1>4. PollInv
  <2>0. /\ <<>> \in Seq(P!Item) /\ Len(<<>>) = 0 /\ Range(<<>>) = {}
        /\ \E o \in PollOptions : TRUE
    <3>1. <<>> \in Seq(P!Item) /\ Len(<<>>) = 0
      OBVIOUS
    <3>2. Range(<<>>) = {}
      BY <3>1, RangeFacts
    <3> QED BY <3>1, <3>2, PollAssumption
  <2>1. /\ popt \in PollOptions /\ nodupe = [n \in Node |-> {}] /\ inq = [n \in Node |-> <<>>]
        /\ retry = [n \in Node |-> <<>>] /\ server = [f \in P!FileName |-> 0]
        /\ announced = [i \in P!Item |-> 0] /\ ppast = [unseen |-> {}, dropped |-> {}]
    BY <1>1, <2>0 DEF P!InitAs
  <2>2. /\ DOMAIN node = Node
        /\ \A n \in Node : /\ DOMAIN node[n] = DOMAIN P!Ready /\ node[n].pc \in {"off", "top"}
                           /\ node[n].incoming = P!Ready.incoming /\ node[n].polled = P!Ready.polled
    <3>1. node = [n \in Node |-> [P!Ready EXCEPT !.pc = IF how["poll"] = "off" \/ ~(popt.vip \/ n = vip)
                                                       THEN "off" ELSE "top"]]
      BY <1>1 DEF P!InitAs
    <3> QED BY <3>1 DEF P!Ready
  <2>3. /\ DOMAIN P!Ready = {"pc", "haveVip", "due", "incoming", "polled", "todo"}
        /\ P!Ready.incoming = <<>> /\ P!Ready.polled = FALSE
    BY DEF P!Ready
  <2>4. \A n \in Node : Round(n)
    BY <2>0, <2>2, <2>3, ZenonT(30) DEF Round
  <2>5. PollType
    BY <2>0, <2>1, <2>2, PollAssumption DEF PollType
  <2>6. \A n \in Node, i \in P!Item : ~Holds(n, i)
    BY <2>0, <2>1, <2>2 DEF Holds
  <2>7. \A i \in P!Item : Counted(i)
    BY <2>1, <2>6 DEF Counted
  <2> QED BY <2>4, <2>5, <2>7 DEF PollInv
<1> QED BY <1>2, <1>3, <1>4 DEF SourcesInv

(* Each step is of one source, and leaves the others alone. *)
LEMMA SourcesStep == ASSUME SourcesInv, [Next]_sVarsAll PROVE SourcesInv'
<1>1. UNCHANGED sVars => SchedInv'
  BY DEF SourcesInv, SchedInv, sVars, NotTwice, S!NotTwice
<1>2. UNCHANGED aVars => AmInv'
  BY DEF SourcesInv, AmInv, aVars, Shape, Live
<1>3. UNCHANGED pVars => PollInv'
  BY DEF SourcesInv, PollInv, pVars, PollType, Round, Counted, Holds, HoldsOnce
<1>4. CASE Watching
  BY <1>1, <1>2, <1>3, <1>4 DEF Watching, SourcesInv
<1>5. CASE Scheduling
  BY <1>2, <1>3, <1>5, ScheduleStep DEF Scheduling, SourcesInv
<1>6. CASE Polling
  BY <1>1, <1>2, <1>6, PollStep DEF Polling, SourcesInv
<1>7. CASE Receiving
  BY <1>1, <1>3, <1>7, AmStep DEF Receiving, SourcesInv
<1>8. CASE UNCHANGED sVarsAll
  BY <1>1, <1>2, <1>3, <1>8 DEF sVarsAll, SourcesInv
<1> QED BY <1>4, <1>5, <1>6, <1>7, <1>8 DEF Next

(* What the invariant is for. *)
LEMMA SourcesSafe == ASSUME SourcesInv PROVE NothingTwice
<1>1. NotTwice
  BY DEF SourcesInv, SchedInv
<1>2. AnnouncedOnce
  <2>1. \A i \in P!Item : announced[i] > 1 => i \in ppast.unseen
    <3>1. \A i \in P!Item : i \in ppast.unseen \/ announced[i] \in {0, 1}
      BY DEF SourcesInv, PollInv, Counted
    <3> QED BY <3>1
  <2> QED BY <2>1 DEF AnnouncedOnce, P!AnnouncedOnce
<1>3. InstancesDistinct
  <2>1. \A c \in AmConn : child[c].pc \in A!Serving => Live(c)
    BY DEF Live
  <2> QED BY <2>1 DEF SourcesInv, AmInv, InstancesDistinct, A!InstancesDistinct
<1> QED BY <1>1, <1>2, <1>3 DEF NothingTwice

(* Nothing is done twice (scheduled.py: what an appointment is answered with, and
   calc_next_gather_time; poll.py and the duplicate suppression of the nodes that share a poll;
   am.py: get_lowest_instance), for every schedule, every tree on the server, however many nodes
   and connections there are, and whichever of them are killed. *)
THEOREM NothingDoneTwice == Spec => []NothingTwice
<1>1. Init => SourcesInv
  BY SourcesInit
<1>2. SourcesInv /\ [Next]_sVarsAll => SourcesInv'
  BY SourcesStep
<1>3. SourcesInv => NothingTwice
  BY SourcesSafe
<1> QED BY <1>1, <1>2, <1>3, PTL DEF Spec, sVarsAll
====

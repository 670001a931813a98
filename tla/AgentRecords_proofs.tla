-------------------------- MODULE AgentRecords_proofs -------------------------
(***************************************************************************)
(* Proofs about the layouts of AgentRecords: where fields end, how long a  *)
(* record is, and what each loader takes it for.                           *)
(*                                                                         *)
(* End is a recursive function over the fields, so its equation has to be  *)
(* proved before anything can be said of it.  Every nonempty set of        *)
(* natural numbers has a least element, and that stands in for induction.  *)
(***************************************************************************)
EXTENDS AgentRecords, SequenceTheorems, WellFoundedInduction, TLAPS

-----------------------------------------------------------------------------
(* Induction over the natural numbers, about a set of them.                *)

LEMMA Least ==
  ASSUME NEW T \in SUBSET Nat, T # {}
  PROVE  \E x \in T : \A y \in T : x <= y
  <1> DEFINE R == OpToRel(<, Nat)
  <1>1. IsWellFoundedOn(R, Nat)
    BY NatLessThanWellFounded, Zenon
  <1>2. \A x, y \in Nat : x < y => <<x, y>> \in R
    BY DEF OpToRel
  <1> HIDE DEF R
  <1>3. PICK x \in T : \A y \in T : ~ (<<y, x>> \in R)
    BY <1>1, WFMin
  <1>4. ASSUME NEW y \in T PROVE x <= y
    <2>1. x \in Nat /\ y \in Nat /\ ~(y < x)
      BY <1>2, <1>3
    <2> QED BY <2>1
  <1> QED BY <1>4

LEMMA Induction ==
  ASSUME NEW T \in SUBSET Nat, 0 \in T, \A k \in T : k + 1 \in T
  PROVE  T = Nat
  <1> SUFFICES ASSUME Nat \ T # {} PROVE FALSE
    OBVIOUS
  <1>1. PICK x \in Nat \ T : \A y \in Nat \ T : x <= y
    BY Least
  <1>2. x # 0 /\ x - 1 \in Nat
    BY <1>1
  <1>3. x - 1 \in T
    BY <1>1, <1>2
  <1>4. (x - 1) + 1 \in T
    BY <1>3
  <1> QED BY <1>1, <1>4

-----------------------------------------------------------------------------
(* Where the fields end.                                                   *)

Name == {"timestamp", "pid", "ppid", "uid", "gid", "comm", "filename",
         "saddr", "daddr", "sport", "dport", "operation", "mode",
         "tid", "addr", "size", "access_type", "fault_type",
         "stack_id", "threat_score", "is_overflow", "is_leak",
         "violation_type", "syscall_nr", "original_path",
         "modified_path", "action_taken", "was_blocked", "reason"}
Field == [name : Name, size : {1, 2, 4, 8}, count : Nat]

\* Where a field ends when the one before it ends at x.
After(x, f) == RoundUp(x, f.size) + f.size * f.count

LEMMA AfterType ==
  ASSUME NEW x \in Nat, NEW f \in Field
  PROVE  After(x, f) \in Nat
  <1>1. CASE f.size = 1
    BY <1>1 DEF After, RoundUp, Field
  <1>2. CASE f.size = 2
    BY <1>2 DEF After, RoundUp, Field
  <1>3. CASE f.size = 4
    BY <1>3 DEF After, RoundUp, Field
  <1>4. CASE f.size = 8
    BY <1>4 DEF After, RoundUp, Field
  <1> QED BY <1>1, <1>2, <1>3, <1>4 DEF Field

\* The function that the definition of End asks for exists.
LEMMA EndsExist ==
  ASSUME NEW L \in Seq(Field), NEW n \in Nat
  PROVE  n <= Len(L) =>
           \E e \in [0 .. n -> Nat] :
             e[0] = 0 /\ \A k \in 1 .. n : e[k] = After(e[k - 1], L[k])
  <1> DEFINE Good(m, e) == e[0] = 0 /\ \A k \in 1 .. m : e[k] = After(e[k - 1], L[k])
             Built(m) == m <= Len(L) => \E e \in [0 .. m -> Nat] : Good(m, e)
             T == {m \in Nat : Built(m)}
  <1>1. 0 \in T
    <2> DEFINE z == [k \in 0 .. 0 |-> 0]
    <2>1. z \in [0 .. 0 -> Nat] /\ z[0] = 0
      OBVIOUS
    <2>2. 1 .. 0 = {}
      OBVIOUS
    <2> HIDE DEF z
    <2>3. Good(0, z)
      BY <2>1, <2>2
    <2> QED BY <2>1, <2>3
  <1>2. ASSUME NEW m \in T PROVE m + 1 \in T
    <2> HIDE DEF Built
    <2>0. m \in Nat /\ m + 1 \in Nat /\ Built(m)
      OBVIOUS
    <2> USE DEF Built
    <2> SUFFICES ASSUME m + 1 <= Len(L)
                 PROVE  \E e \in [0 .. m + 1 -> Nat] : Good(m + 1, e)
      BY <2>0
    <2> HIDE DEF T
    <2>1. m \in Nat /\ m <= Len(L) /\ L[m + 1] \in Field
      BY <2>0, LenProperties, ElementOfSeq
    <2>2. PICK d \in [0 .. m -> Nat] : Good(m, d)
      BY <2>0, <2>1
    <2> DEFINE e == [k \in 0 .. m + 1 |-> IF k = m + 1 THEN After(d[m], L[m + 1]) ELSE d[k]]
    <2>3. d[m] \in Nat
      BY <2>1, <2>2
    <2>4. After(d[m], L[m + 1]) \in Nat
      BY <2>1, <2>3, AfterType
    <2>5. e \in [0 .. m + 1 -> Nat]
      BY <2>1, <2>2, <2>4
    <2>6. e[0] = 0
      BY <2>1, <2>2
    <2>7. ASSUME NEW k \in 1 .. m + 1 PROVE e[k] = After(e[k - 1], L[k])
      <3>1. CASE k = m + 1
        BY <2>1, <3>1
      <3>2. CASE k # m + 1
        <4>1. k \in 1 .. m /\ e[k] = d[k] /\ e[k - 1] = d[k - 1]
          BY <2>1, <3>2
        <4> QED BY <2>2, <4>1
      <3> QED BY <3>1, <3>2
    <2> HIDE DEF e
    <2> QED BY <2>5, <2>6, <2>7
  <1>3. T = Nat
    <2> HIDE DEF T
    <2>1. T \in SUBSET Nat
      BY DEF T
    <2> QED BY <1>1, <1>2, <2>1, Induction
  <1> QED BY <1>3

\* Its equation.
LEMMA EndEquation ==
  ASSUME NEW L \in Seq(Field)
  PROVE  /\ End(L) \in [0 .. Len(L) -> Nat]
         /\ End(L)[0] = 0
         /\ \A k \in 1 .. Len(L) : End(L)[k] = After(End(L)[k - 1], L[k])
  <1> DEFINE F(e) == [k \in 0 .. Len(L) |->
                        IF k = 0 THEN 0
                        ELSE RoundUp(e[k - 1], L[k].size) + L[k].size * L[k].count]
  <1>1. Len(L) \in Nat
    BY LenProperties
  <1>2. PICK d \in [0 .. Len(L) -> Nat] :
          d[0] = 0 /\ \A k \in 1 .. Len(L) : d[k] = After(d[k - 1], L[k])
    <2>1. Len(L) <= Len(L)
      BY <1>1
    <2> QED BY <1>1, <2>1, EndsExist
  <1>3. d = F(d)
    <2>1. \A k \in 0 .. Len(L) : d[k] = F(d)[k]
      BY <1>1, <1>2 DEF After
    <2> QED BY <2>1
  <1>4. End(L) = CHOOSE e : e = F(e)
    BY DEF End
  <1> HIDE DEF F
  <1>5. End(L) = F(End(L))
    BY <1>3, <1>4
  <1> DEFINE e == End(L)
  <1>6. e = F(e)
    BY <1>5
  <1> HIDE DEF e
  <1>7. e[0] = 0 /\ \A k \in 1 .. Len(L) : e[k] = After(e[k - 1], L[k])
    BY <1>1, <1>6 DEF F, After
  <1>8. e = [k \in 0 .. Len(L) |-> e[k]]
    BY <1>6 DEF F
  <1>9. \A k \in 0 .. Len(L) : e[k] \in Nat
    <2> DEFINE T == {k \in Nat : k <= Len(L) => e[k] \in Nat}
    <2>1. 0 \in T
      BY <1>7
    <2>2. ASSUME NEW k \in T PROVE k + 1 \in T
      <3> SUFFICES ASSUME k + 1 <= Len(L) PROVE e[k + 1] \in Nat
        OBVIOUS
      <3>1. k \in Nat /\ e[k] \in Nat /\ L[k + 1] \in Field
        BY <1>1, ElementOfSeq
      <3>2. k + 1 \in 1 .. Len(L) /\ (k + 1) - 1 = k
        BY <1>1, <3>1
      <3>3. e[k + 1] = After(e[k], L[k + 1])
        BY <1>7, <3>2
      <3> QED BY <3>1, <3>3, AfterType
    <2>3. T = Nat
      <3>1. T \in SUBSET Nat
        OBVIOUS
      <3> HIDE DEF T
      <3> QED BY <2>1, <2>2, <3>1, Induction
    <2> QED BY <1>1, <2>3
  <1> QED BY <1>7, <1>8, <1>9 DEF e

-----------------------------------------------------------------------------
(* How long a record is.                                                   *)

LEMMA Widest ==
  ASSUME NEW L \in Seq(Field), NEW n \in DOMAIN L
  PROVE  LET widest == CHOOSE a \in {1, 2, 4, 8} :
                         /\ \E k \in DOMAIN L : L[k].size = a
                         /\ \A k \in DOMAIN L : L[k].size <= a
         IN  /\ widest \in {1, 2, 4, 8} /\ L[n].size <= widest
             /\ SizeOf(L) = RoundUp(End(L)[Len(L)], widest)
  <1> DEFINE P(a) == /\ \E k \in DOMAIN L : L[k].size = a
                     /\ \A k \in DOMAIN L : L[k].size <= a
             widest == CHOOSE a \in {1, 2, 4, 8} : P(a)
  <1>1. \A k \in DOMAIN L : L[k].size \in {1, 2, 4, 8}
    <2>1. \A k \in DOMAIN L : L[k] \in Field
      BY ElementOfSeq, LenProperties
    <2> QED BY <2>1 DEF Field
  <1>2. \E a \in {1, 2, 4, 8} : P(a)
    <2>1. CASE \E k \in DOMAIN L : L[k].size = 8
      <3>1. \A k \in DOMAIN L : L[k].size <= 8
        BY <1>1
      <3>2. P(8)
        BY <2>1, <3>1
      <3> QED BY <3>2
    <2>2. CASE /\ \A k \in DOMAIN L : L[k].size # 8
               /\ \E k \in DOMAIN L : L[k].size = 4
      BY <1>1, <2>2
    <2>3. CASE /\ \A k \in DOMAIN L : L[k].size \notin {4, 8}
               /\ \E k \in DOMAIN L : L[k].size = 2
      BY <1>1, <2>3
    <2>4. CASE \A k \in DOMAIN L : L[k].size \notin {2, 4, 8}
      BY <1>1, <2>4
    <2> QED BY <2>1, <2>2, <2>3, <2>4
  <1>3. widest \in {1, 2, 4, 8} /\ P(widest)
    <2> HIDE DEF P
    <2> QED BY <1>2
  <1>4. SizeOf(L) = RoundUp(End(L)[Len(L)], widest)
    BY DEF SizeOf
  <1> QED BY <1>3, <1>4

LEMMA SizeType ==
  ASSUME NEW L \in Seq(Field), NEW n \in DOMAIN L
  PROVE  SizeOf(L) \in Nat
  <1>1. PICK a \in {1, 2, 4, 8} : SizeOf(L) = RoundUp(End(L)[Len(L)], a)
    BY Widest
  <1>2. End(L)[Len(L)] \in Nat
    <2>1. Len(L) \in 0 .. Len(L)
      BY LenProperties
    <2> QED BY <2>1, EndEquation
  <1> HIDE DEF End
  <1> DEFINE x == End(L)[Len(L)]
  <1> HIDE DEF x
  <1>3. x \in Nat /\ SizeOf(L) = RoundUp(x, a)
    BY <1>1, <1>2 DEF x
  <1>4. RoundUp(x, 1) \in Nat /\ RoundUp(x, 2) \in Nat /\ RoundUp(x, 4) \in Nat /\ RoundUp(x, 8) \in Nat
    BY <1>3 DEF RoundUp
  <1> QED BY <1>3, <1>4

\* A layout with a field of eight bytes is a multiple of eight long.
LEMMA SizeOfEight ==
  ASSUME NEW L \in Seq(Field), NEW n \in DOMAIN L, L[n].size = 8
  PROVE  SizeOf(L) = RoundUp(End(L)[Len(L)], 8)
  <1>1. PICK a \in {1, 2, 4, 8} : L[n].size <= a /\ SizeOf(L) = RoundUp(End(L)[Len(L)], a)
    BY Widest
  <1> QED BY <1>1

\* A tuple written out is a sequence.
LEMMA Tuples ==
  ASSUME NEW S, NEW a \in S, NEW b \in S, NEW c \in S, NEW d \in S, NEW e \in S, NEW f \in S,
         NEW g \in S
  PROVE  /\ <<a, b, c, d, e, f, g>> \in Seq(S)
         /\ \A h \in S :
              /\ <<a, b, c, d, e, f, g, h>> \in Seq(S)
              /\ \A i, j, k, l \in S :
                   /\ <<a, b, c, d, e, f, g, h, i, j, k, l>> \in Seq(S)
                   /\ \A m \in S : <<a, b, c, d, e, f, g, h, i, j, k, l, m>> \in Seq(S)
  OBVIOUS

LEMMA ExecFields ==
  event_exec \in Seq(Field) /\ Len(event_exec) = 7
  <1>1. /\ U64("timestamp") \in Field /\ U32("pid") \in Field
        /\ U32("ppid") \in Field /\ U32("uid") \in Field /\ U32("gid") \in Field
        /\ Bytes("comm", 16) \in Field /\ Bytes("filename", 256) \in Field
    BY DEF U64, U32, U16, U8, Bytes, Field, Name
  <1>2. event_exec \in Seq(Field)
    BY <1>1, Tuples DEF event_exec
  <1>3. Len(event_exec) = 7
    BY DEF event_exec
  <1> QED BY <1>2, <1>3

LEMMA NetConnFields ==
  event_net_conn \in Seq(Field) /\ Len(event_net_conn) = 8
  <1>1. /\ U64("timestamp") \in Field /\ U32("pid") \in Field
        /\ U32("uid") \in Field /\ Bytes("comm", 16) \in Field
        /\ U32("saddr") \in Field /\ U32("daddr") \in Field
        /\ U16("sport") \in Field /\ U16("dport") \in Field
    BY DEF U64, U32, U16, U8, Bytes, Field, Name
  <1>2. event_net_conn \in Seq(Field)
    BY <1>1, Tuples DEF event_net_conn
  <1>3. Len(event_net_conn) = 8
    BY DEF event_net_conn
  <1> QED BY <1>2, <1>3

LEMMA FileOpFields ==
  event_file_op \in Seq(Field) /\ Len(event_file_op) = 7
  <1>1. /\ U64("timestamp") \in Field /\ U32("pid") \in Field
        /\ U32("uid") \in Field /\ Bytes("comm", 16) \in Field
        /\ U32("operation") \in Field /\ Bytes("filename", 256) \in Field
        /\ U32("mode") \in Field
    BY DEF U64, U32, U16, U8, Bytes, Field, Name
  <1>2. event_file_op \in Seq(Field)
    BY <1>1, Tuples DEF event_file_op
  <1>3. Len(event_file_op) = 7
    BY DEF event_file_op
  <1> QED BY <1>2, <1>3

LEMMA MemoryFields ==
  memory_event \in Seq(Field) /\ Len(memory_event) = 13
  <1>1. /\ U64("timestamp") \in Field /\ U32("pid") \in Field
        /\ U32("tid") \in Field /\ Bytes("comm", 16) \in Field
        /\ U64("addr") \in Field /\ U64("size") \in Field
        /\ U8("access_type") \in Field /\ U8("fault_type") \in Field
        /\ U32("stack_id") \in Field /\ U32("threat_score") \in Field
        /\ U8("is_overflow") \in Field /\ U8("is_leak") \in Field
        /\ Bytes("violation_type", 32) \in Field
    BY DEF U64, U32, U16, U8, Bytes, Field, Name
  <1>2. memory_event \in Seq(Field)
    BY <1>1, Tuples DEF memory_event
  <1>3. Len(memory_event) = 13
    BY DEF memory_event
  <1> QED BY <1>2, <1>3

LEMMA SyscallFields ==
  syscall_event \in Seq(Field) /\ Len(syscall_event) = 12
  <1>1. /\ U64("timestamp") \in Field /\ U32("pid") \in Field
        /\ U32("uid") \in Field /\ U32("gid") \in Field
        /\ Bytes("comm", 16) \in Field /\ U32("syscall_nr") \in Field
        /\ Bytes("original_path", 256) \in Field
        /\ Bytes("modified_path", 256) \in Field /\ U8("action_taken") \in Field
        /\ U8("was_blocked") \in Field /\ U32("threat_score") \in Field
        /\ Bytes("reason", 64) \in Field
    BY DEF U64, U32, U16, U8, Bytes, Field, Name
  <1>2. syscall_event \in Seq(Field)
    BY <1>1, Tuples DEF syscall_event
  <1>3. Len(syscall_event) = 12
    BY DEF syscall_event
  <1> QED BY <1>2, <1>3

LEMMA Layouts ==
  ASSUME NEW k \in Kind
  PROVE  LayoutOf(k) \in Seq(Field) /\ 1 \in DOMAIN LayoutOf(k)
  <1>1. LayoutOf(k) \in Seq(Field) /\ Len(LayoutOf(k)) \in {7, 8, 12, 13}
    BY ExecFields, NetConnFields, FileOpFields, MemoryFields, SyscallFields DEF Kind, LayoutOf
  <1> QED BY <1>1

LEMMA ExecLength == SizeOf(event_exec) = 296
  <1> DEFINE L == event_exec
             e == End(L)
  <1>1. L \in Seq(Field) /\ Len(L) = 7
    BY ExecFields
  <1>2. /\ L[1] = U64("timestamp") /\ L[2] = U32("pid") /\ L[3] = U32("ppid")
        /\ L[4] = U32("uid") /\ L[5] = U32("gid") /\ L[6] = Bytes("comm", 16)
        /\ L[7] = Bytes("filename", 256)
    BY DEF event_exec
  <1> HIDE DEF L
  <1>3. e[0] = 0 /\ \A k \in 1 .. 7 : e[k] = After(e[k - 1], L[k])
    BY <1>1, EndEquation
  <1> HIDE DEF e
  <1>4. /\ e[1] = After(e[0], U64("timestamp")) /\ e[2] = After(e[1], U32("pid"))
        /\ e[3] = After(e[2], U32("ppid")) /\ e[4] = After(e[3], U32("uid"))
        /\ e[5] = After(e[4], U32("gid")) /\ e[6] = After(e[5], Bytes("comm", 16))
        /\ e[7] = After(e[6], Bytes("filename", 256))
    BY <1>2, <1>3
  <1>5. /\ e[1] = 8 /\ e[2] = 12 /\ e[3] = 16 /\ e[4] = 20 /\ e[5] = 24 /\ e[6] = 40
        /\ e[7] = 296
    <2>1. /\ After(0, U64("timestamp")) = 8 /\ After(8, U32("pid")) = 12
          /\ After(12, U32("ppid")) = 16 /\ After(16, U32("uid")) = 20
          /\ After(20, U32("gid")) = 24 /\ After(24, Bytes("comm", 16)) = 40
          /\ After(40, Bytes("filename", 256)) = 296
      BY DEF After, RoundUp, Bytes, U32, U64
    <2> QED BY <1>3, <1>4, <2>1
  <1>6. 1 \in DOMAIN L /\ L[1].size = 8
    BY <1>1, <1>2 DEF U64
  <1>7. SizeOf(L) = RoundUp(e[7], 8)
    BY <1>1, <1>6, SizeOfEight DEF e
  <1> QED BY <1>5, <1>7 DEF RoundUp, L

LEMMA NetConnLength == SizeOf(event_net_conn) = 48
  <1> DEFINE L == event_net_conn
             e == End(L)
  <1>1. L \in Seq(Field) /\ Len(L) = 8
    BY NetConnFields
  <1>2. /\ L[1] = U64("timestamp") /\ L[2] = U32("pid") /\ L[3] = U32("uid")
        /\ L[4] = Bytes("comm", 16) /\ L[5] = U32("saddr") /\ L[6] = U32("daddr")
        /\ L[7] = U16("sport") /\ L[8] = U16("dport")
    BY DEF event_net_conn
  <1> HIDE DEF L
  <1>3. e[0] = 0 /\ \A k \in 1 .. 8 : e[k] = After(e[k - 1], L[k])
    BY <1>1, EndEquation
  <1> HIDE DEF e
  <1>4. /\ e[1] = After(e[0], U64("timestamp")) /\ e[2] = After(e[1], U32("pid"))
        /\ e[3] = After(e[2], U32("uid")) /\ e[4] = After(e[3], Bytes("comm", 16))
        /\ e[5] = After(e[4], U32("saddr")) /\ e[6] = After(e[5], U32("daddr"))
        /\ e[7] = After(e[6], U16("sport")) /\ e[8] = After(e[7], U16("dport"))
    BY <1>2, <1>3
  <1>5. /\ e[1] = 8 /\ e[2] = 12 /\ e[3] = 16 /\ e[4] = 32 /\ e[5] = 36 /\ e[6] = 40
        /\ e[7] = 42 /\ e[8] = 44
    <2>1. /\ After(0, U64("timestamp")) = 8 /\ After(8, U32("pid")) = 12
          /\ After(12, U32("uid")) = 16 /\ After(16, Bytes("comm", 16)) = 32
          /\ After(32, U32("saddr")) = 36 /\ After(36, U32("daddr")) = 40
          /\ After(40, U16("sport")) = 42 /\ After(42, U16("dport")) = 44
      BY DEF After, RoundUp, Bytes, U16, U32, U64
    <2> QED BY <1>3, <1>4, <2>1
  <1>6. 1 \in DOMAIN L /\ L[1].size = 8
    BY <1>1, <1>2 DEF U64
  <1>7. SizeOf(L) = RoundUp(e[8], 8)
    BY <1>1, <1>6, SizeOfEight DEF e
  <1> QED BY <1>5, <1>7 DEF RoundUp, L

LEMMA FileOpLength == SizeOf(event_file_op) = 296
  <1> DEFINE L == event_file_op
             e == End(L)
  <1>1. L \in Seq(Field) /\ Len(L) = 7
    BY FileOpFields
  <1>2. /\ L[1] = U64("timestamp") /\ L[2] = U32("pid") /\ L[3] = U32("uid")
        /\ L[4] = Bytes("comm", 16) /\ L[5] = U32("operation")
        /\ L[6] = Bytes("filename", 256) /\ L[7] = U32("mode")
    BY DEF event_file_op
  <1> HIDE DEF L
  <1>3. e[0] = 0 /\ \A k \in 1 .. 7 : e[k] = After(e[k - 1], L[k])
    BY <1>1, EndEquation
  <1> HIDE DEF e
  <1>4. /\ e[1] = After(e[0], U64("timestamp")) /\ e[2] = After(e[1], U32("pid"))
        /\ e[3] = After(e[2], U32("uid")) /\ e[4] = After(e[3], Bytes("comm", 16))
        /\ e[5] = After(e[4], U32("operation"))
        /\ e[6] = After(e[5], Bytes("filename", 256))
        /\ e[7] = After(e[6], U32("mode"))
    BY <1>2, <1>3
  <1>5. /\ e[1] = 8 /\ e[2] = 12 /\ e[3] = 16 /\ e[4] = 32 /\ e[5] = 36
        /\ e[6] = 292 /\ e[7] = 296
    <2>1. /\ After(0, U64("timestamp")) = 8 /\ After(8, U32("pid")) = 12
          /\ After(12, U32("uid")) = 16 /\ After(16, Bytes("comm", 16)) = 32
          /\ After(32, U32("operation")) = 36
          /\ After(36, Bytes("filename", 256)) = 292
          /\ After(292, U32("mode")) = 296
      BY DEF After, RoundUp, Bytes, U32, U64
    <2> QED BY <1>3, <1>4, <2>1
  <1>6. 1 \in DOMAIN L /\ L[1].size = 8
    BY <1>1, <1>2 DEF U64
  <1>7. SizeOf(L) = RoundUp(e[7], 8)
    BY <1>1, <1>6, SizeOfEight DEF e
  <1> QED BY <1>5, <1>7 DEF RoundUp, L

-----------------------------------------------------------------------------
(* What a record is taken for.                                             *)

\* The structure of a loader is laid out as that of its kernel program.
LEMMA SameLayout ==
  ASSUME NEW k \in Kind
  PROVE  Structure(k) = LayoutOf(k) /\ <<k, k>> \in ReadRight /\ Expected[k] = Length[k]
  <1>1. Structure(k) = LayoutOf(k)
    BY DEF Kind, Structure, LayoutOf, EventExec, event_exec, EventNetConn, event_net_conn,
           EventFileOp, event_file_op, MemoryEvent, memory_event, SyscallEvent, syscall_event
  <1>2. Agree(LayoutOf(k), Structure(k))
    BY <1>1 DEF Agree
  <1> QED BY <1>1, <1>2 DEF ReadRight, Expected, Length

\* A record of file_op is as long as one of exec; one of net_conn is not.
LEMMA Lengths ==
  /\ Length["exec"] = 296 /\ Length["net_conn"] = 48 /\ Length["file_op"] = 296
  /\ \A k \in Kind : Length[k] \in Nat
  <1>1. /\ "exec" \in Kind /\ "net_conn" \in Kind /\ "file_op" \in Kind
        /\ LayoutOf("exec") = event_exec /\ LayoutOf("net_conn") = event_net_conn
        /\ LayoutOf("file_op") = event_file_op
    BY DEF Kind, LayoutOf
  <1>2. /\ Length["exec"] = SizeOf(event_exec) /\ Length["net_conn"] = SizeOf(event_net_conn)
        /\ Length["file_op"] = SizeOf(event_file_op)
    BY <1>1 DEF Length
  <1>3. \A k \in Kind : Length[k] \in Nat
    BY Layouts, SizeType DEF Length
  <1> QED BY <1>2, <1>3, ExecLength, NetConnLength, FileOpLength

LEMMA Taken ==
  /\ SentinelTakes(Length["exec"]) = "exec"
  /\ SentinelTakes(Length["net_conn"]) = "net_conn"
  /\ SentinelTakes(Length["file_op"]) = "exec"
  /\ MemoryTakes(Length["memory"]) = "memory"
  /\ SyscallTakes(Length["syscall"]) = "syscall"
  <1>1. \A k \in Kind : Expected[k] = Length[k]
    BY SameLayout
  <1>2. Kind = {"exec", "net_conn", "file_op", "memory", "syscall"}
    BY DEF Kind
  <1> HIDE DEF Kind, Length, Expected
  <1>3. /\ SentinelTakes(Length["exec"]) = "exec"
        /\ SentinelTakes(Length["net_conn"]) = "net_conn"
        /\ SentinelTakes(Length["file_op"]) = "exec"
    BY <1>1, <1>2, Lengths DEF SentinelTakes
  <1>4. Length["memory"] \in Nat /\ Length["syscall"] \in Nat
    BY <1>2, Lengths
  <1>5. MemoryTakes(Length["memory"]) = "memory"
    BY <1>1, <1>2, <1>4 DEF MemoryTakes
  <1>6. SyscallTakes(Length["syscall"]) = "syscall"
    BY <1>1, <1>2, <1>4 DEF SyscallTakes
  <1> QED BY <1>3, <1>5, <1>6
=============================================================================

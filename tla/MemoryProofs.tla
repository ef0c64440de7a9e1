---------------------------- MODULE MemoryProofs ----------------------------
(***************************************************************************)
(* No program of the exchange misuses its heap, for any size of payload    *)
(* and of the two messages, and whatever the system calls return.          *)
(*                                                                         *)
(* Each function of packet.c has a contract: what it needs to be live, and *)
(* the heap it leaves.  The contracts are proved once, by performing the   *)
(* function's operations on any heap; the steps of the programs only put   *)
(* them together.                                                          *)
(***************************************************************************)
EXTENDS Memory, WellFoundedInduction, TLAPS

-----------------------------------------------------------------------------
(* Runs of operations *)

\* The natural numbers are well ordered.
LEMMA LeastOf ==
  ASSUME NEW T \in SUBSET Nat, T # {}
  PROVE  \E n \in T : \A k \in T : n <= k
<1>. DEFINE R == OpToRel(<, Nat)
<1>1. IsWellFoundedOn(R, Nat)
  BY NatLessThanWellFounded
<1>. HIDE DEF R
<1>2. PICK n \in T : \A k \in T : ~(<<k, n>> \in R)
  BY <1>1, WFMin
<1>3. \A k \in T : k \in Nat /\ (k < n => <<k, n>> \in R)
  BY DEF R, OpToRel
<1>4. n \in Nat /\ \A k \in T : k \in Nat /\ ~(k < n)
  BY <1>2, <1>3
<1>. QED
  BY <1>4

\* Induction, over a set.
LEMMA AllNaturals ==
  ASSUME NEW S \in SUBSET Nat, 0 \in S, \A n \in S : n + 1 \in S
  PROVE  S = Nat
<1>. DEFINE T == Nat \ S
<1>1. SUFFICES ASSUME T # {} PROVE FALSE
  OBVIOUS
<1>2. PICK n \in T : \A k \in T : n <= k
  BY <1>1, LeastOf
<1>3. n - 1 \in S
  BY <1>2
<1>. QED
  BY <1>2, <1>3

\* A run of the first n operations.
Runs(state, n, m, ops) ==
  state = [i \in 0..n |-> IF i = 0 THEN m ELSE Perform(state[i - 1], ops[i])]

LEMMA RunExists ==
  ASSUME NEW m, NEW ops, NEW n \in Nat
  PROVE  \E state : Runs(state, n, m, ops)
<1>. DEFINE S == {k \in Nat : \E state : Runs(state, k, m, ops)}
<1>1. 0 \in S
  <2>1. Runs([i \in 0..0 |-> m], 0, m, ops)
    BY DEF Runs
  <2>. QED
    BY <2>1
<1>2. ASSUME NEW k \in S PROVE k + 1 \in S
  <2>1. PICK f : Runs(f, k, m, ops)
    OBVIOUS
  <2>. DEFINE g == [i \in 0..(k + 1) |-> IF i <= k THEN f[i] ELSE Perform(f[k], ops[k + 1])]
  <2>2. k \in Nat
    OBVIOUS
  <2>3. \A i \in 0..k : f[i] = IF i = 0 THEN m ELSE Perform(f[i - 1], ops[i])
    BY <2>1 DEF Runs
  <2>4. ASSUME NEW i \in 0..(k + 1)
        PROVE  g[i] = IF i = 0 THEN m ELSE Perform(g[i - 1], ops[i])
    <3>1. CASE i <= k
      <4>1. i \in 0..k /\ (i # 0 => i - 1 \in 0..(k + 1) /\ i - 1 <= k)
        BY <2>2, <3>1
      <4>. QED
        BY <2>3, <3>1, <4>1
    <3>2. CASE i = k + 1
      <4>1. i # 0 /\ ~(i <= k) /\ i - 1 = k /\ k \in 0..(k + 1) /\ k <= k
        BY <2>2, <3>2
      <4>. QED
        BY <3>2, <4>1
    <3>. QED
      BY <2>2, <3>1, <3>2
  <2>5. Runs(g, k + 1, m, ops)
    BY <2>4 DEF Runs
  <2>. QED
    BY <2>2, <2>5
<1>. HIDE DEF S
<1>3. S = Nat
  BY <1>1, <1>2, AllNaturals DEF S
<1>. QED
  BY <1>3 DEF S

\* What After returns is the end of a run.
LEMMA AfterRuns ==
  ASSUME NEW m, NEW ops, Len(ops) \in Nat
  PROVE  \E state : /\ state[0] = m
                    /\ \A i \in 1..Len(ops) : state[i] = Perform(state[i - 1], ops[i])
                    /\ After(m, ops) = state[Len(ops)]
<1>. DEFINE state == CHOOSE f : Runs(f, Len(ops), m, ops)
<1>1. Runs(state, Len(ops), m, ops)
  BY RunExists
<1>2. After(m, ops) = state[Len(ops)]
  BY DEF After, Runs
<1>3. \A i \in 0..Len(ops) : state[i] = IF i = 0 THEN m ELSE Perform(state[i - 1], ops[i])
  BY <1>1 DEF Runs
<1>. HIDE DEF state
<1>4. 0 \in 0..Len(ops) /\ \A i \in 1..Len(ops) : i \in 0..Len(ops) /\ i # 0
  OBVIOUS
<1>. QED
  BY <1>2, <1>3, <1>4

\* The states of a run, from its first to its last.
IsRun(state, m, ops) ==
  /\ state[0] = m /\ After(m, ops) = state[Len(ops)]
  /\ \A i \in 1..Len(ops) : state[i] = Perform(state[i - 1], ops[i])

LEMMA SomeRun ==
  ASSUME NEW m, NEW ops, Len(ops) \in Nat
  PROVE  \E state : IsRun(state, m, ops)
BY AfterRuns, SMTT(30) DEF IsRun

\* Two runs of the same operations, one behind the other, do what one run of both does.
LEMMA AfterBoth ==
  ASSUME NEW m, NEW S, NEW a \in Seq(S), NEW b \in Seq(S)
  PROVE  After(m, a \o b) = After(After(m, a), b)
<1>1. /\ a \o b \in Seq(S) /\ Len(a \o b) = Len(a) + Len(b)
      /\ Len(a) \in Nat /\ Len(b) \in Nat /\ Len(a \o b) \in Nat
      /\ \A i \in 1..Len(a) : (a \o b)[i] = a[i]
      /\ \A i \in 1..Len(b) : (a \o b)[Len(a) + i] = b[i]
  OBVIOUS
<1>. DEFINE ab == a \o b
            m1 == After(m, a)
<1>0. Len(ab) \in Nat /\ Len(a) \in Nat /\ Len(b) \in Nat
  BY <1>1
<1>2. PICK f : /\ f[0] = m
               /\ \A i \in 1..Len(a \o b) : f[i] = Perform(f[i - 1], (a \o b)[i])
               /\ After(m, a \o b) = f[Len(a \o b)]
  <2>. HIDE DEF ab
  <2>1. \E f : /\ f[0] = m
               /\ \A i \in 1..Len(ab) : f[i] = Perform(f[i - 1], ab[i])
               /\ After(m, ab) = f[Len(ab)]
    BY <1>0, AfterRuns, SMTT(30)
  <2>. QED
    BY <2>1 DEF ab
<1>3. PICK g : /\ g[0] = m
               /\ \A i \in 1..Len(a) : g[i] = Perform(g[i - 1], a[i])
               /\ After(m, a) = g[Len(a)]
  BY <1>0, AfterRuns, SMTT(30)
<1>4. PICK h : /\ h[0] = g[Len(a)]
               /\ \A i \in 1..Len(b) : h[i] = Perform(h[i - 1], b[i])
               /\ After(After(m, a), b) = h[Len(b)]
  <2>. HIDE DEF m1
  <2>1. \E h : /\ h[0] = m1
               /\ \A i \in 1..Len(b) : h[i] = Perform(h[i - 1], b[i])
               /\ After(m1, b) = h[Len(b)]
    BY <1>0, AfterRuns, SMTT(30)
  <2>. QED
    BY <1>3, <2>1 DEF m1
<1>5. \A i \in 0..Len(a) : f[i] = g[i]
  <2>. DEFINE T == {i \in 0..Len(a) : f[i] # g[i]}
  <2>1. SUFFICES ASSUME T # {} PROVE FALSE
    OBVIOUS
  <2>. T \in SUBSET Nat
    BY <1>1
  <2>2. PICK i \in T : \A k \in T : i <= k
    <3>. HIDE DEF T
    <3>. QED
      BY <2>1, LeastOf
  <2>3. i # 0 /\ i \in 1..Len(a) /\ i \in 1..Len(a \o b) /\ i - 1 \in 0..Len(a) /\ ~(i <= i - 1)
    BY <1>1, <1>2, <1>3
  <2>4. f[i - 1] = g[i - 1]
    BY <2>2, <2>3
  <2>. QED
    BY <1>1, <1>2, <1>3, <2>3, <2>4
<1>6. \A i \in 0..Len(b) : f[Len(a) + i] = h[i]
  <2>. DEFINE T == {i \in 0..Len(b) : f[Len(a) + i] # h[i]}
  <2>1. SUFFICES ASSUME T # {} PROVE FALSE
    OBVIOUS
  <2>. T \in SUBSET Nat
    BY <1>1
  <2>2. PICK i \in T : \A k \in T : i <= k
    <3>. HIDE DEF T
    <3>. QED
      BY <2>1, LeastOf
  <2>3. f[Len(a) + 0] = h[0]
    BY <1>1, <1>4, <1>5
  <2>4. /\ i # 0 /\ i \in 1..Len(b) /\ Len(a) + i \in 1..Len(a \o b) /\ i - 1 \in 0..Len(b)
        /\ ~(i <= i - 1) /\ (Len(a) + i) - 1 = Len(a) + (i - 1)
    BY <1>1, <2>3
  <2>5. f[Len(a) + (i - 1)] = h[i - 1]
    BY <2>2, <2>4
  <2>6. f[Len(a) + i] = Perform(f[Len(a) + (i - 1)], (a \o b)[Len(a) + i])
    BY <1>2, <2>4
  <2>. QED
    BY <1>1, <1>4, <2>4, <2>5, <2>6
<1>. QED
  BY <1>1, <1>2, <1>4, <1>6

-----------------------------------------------------------------------------
(* Heaps *)

Buffers == {"new_packet", "encrypt_packet", "decrypt_packet", "new_rec_pkt", "dest_ip",
            "rec_packet_dest", "enc_pkt", "client_str_ip", "rec_packet", "client_ip_str",
            "response_pkt", "ip_src_str", "ip_dst_str"}
Operations == [op : {"alloc", "touch", "free"}, buf : Buffers, to : Nat]

IsHeap(m) ==
  /\ m = [size |-> m.size, wrong |-> m.wrong]
  /\ m.size = [b \in DOMAIN m.size |-> m.size[b]]

Live(m) == DOMAIN m.size

LEMMA OperationsAre ==
  ASSUME NEW b \in Buffers, NEW n \in Nat
  PROVE  Alloc(b, n) \in Operations /\ Touch(b, n) \in Operations /\ Free(b) \in Operations
BY DEF Alloc, Touch, Free, Operations

LEMMA WithFacts ==
  ASSUME NEW m, IsHeap(m), NEW b, NEW n
  PROVE  /\ IsHeap(With(m, b, n)) /\ Live(With(m, b, n)) = Live(m) \cup {b}
         /\ With(m, b, n).size[b] = n
         /\ \A c \in Live(m) \ {b} : With(m, b, n).size[c] = m.size[c]
         /\ With(m, b, n).wrong = m.wrong
<1>1. With(m, b, n).size = [c \in DOMAIN m.size \cup {b} |-> IF c = b THEN n ELSE m.size[c]]
  BY DEF IsHeap, With
<1>2. With(m, b, n) = [size |-> With(m, b, n).size, wrong |-> m.wrong]
  BY DEF IsHeap, With
<1>. QED
  BY <1>1, <1>2 DEF IsHeap, Live

LEMMA WithoutFacts ==
  ASSUME NEW m, IsHeap(m), NEW b
  PROVE  /\ IsHeap(Without(m, b)) /\ Live(Without(m, b)) = Live(m) \ {b}
         /\ \A c \in Live(m) \ {b} : Without(m, b).size[c] = m.size[c]
         /\ Without(m, b).wrong = m.wrong
BY DEF IsHeap, Live, Without, Restrict

\* What was allocated and freed has left no trace ...
LEMMA WithWithout ==
  ASSUME NEW m, IsHeap(m), NEW b, b \notin Live(m), NEW n
  PROVE  Without(With(m, b, n), b) = m
<1>. DEFINE w == With(m, b, n)
<1>1. /\ IsHeap(w) /\ Live(w) = Live(m) \cup {b} /\ w.wrong = m.wrong
      /\ \A c \in Live(m) \ {b} : w.size[c] = m.size[c]
  BY WithFacts
<1>. HIDE DEF w
<1>2. Without(w, b) = [size |-> [c \in DOMAIN w.size \ {b} |-> w.size[c]], wrong |-> w.wrong]
  BY <1>1 DEF IsHeap, Without, Restrict
<1>3. [c \in DOMAIN w.size \ {b} |-> w.size[c]] = m.size
  BY <1>1 DEF IsHeap, Live
<1>4. m = [size |-> m.size, wrong |-> m.wrong]
  BY DEF IsHeap
<1>6. Without(w, b) = m
  BY <1>1, <1>2, <1>3, <1>4
<1>. QED
  BY <1>6 DEF w

\* ... also behind the back of what was allocated later.
LEMMA WithoutEarlier ==
  ASSUME NEW m, IsHeap(m), NEW b, NEW c, b # c, NEW n
  PROVE  Without(With(m, c, n), b) = With(Without(m, b), c, n)
<1>. DEFINE w == With(m, c, n)
            v == Without(m, b)
<1>1. /\ IsHeap(w) /\ Live(w) = Live(m) \cup {c} /\ w.size[c] = n
      /\ \A d \in Live(m) \ {c} : w.size[d] = m.size[d]
      /\ w.wrong = m.wrong
  BY WithFacts
<1>2. /\ IsHeap(v) /\ Live(v) = Live(m) \ {b}
      /\ \A d \in Live(m) \ {b} : v.size[d] = m.size[d]
      /\ v.wrong = m.wrong
  BY WithoutFacts
<1>3. /\ IsHeap(Without(w, b)) /\ Live(Without(w, b)) = Live(w) \ {b}
      /\ \A d \in Live(w) \ {b} : Without(w, b).size[d] = w.size[d]
      /\ Without(w, b).wrong = w.wrong
  BY <1>1, WithoutFacts
<1>4. /\ IsHeap(With(v, c, n)) /\ Live(With(v, c, n)) = Live(v) \cup {c} /\ With(v, c, n).size[c] = n
      /\ \A d \in Live(v) \ {c} : With(v, c, n).size[d] = v.size[d]
      /\ With(v, c, n).wrong = v.wrong
  BY <1>2, WithFacts
<1>. DEFINE l == Without(w, b)
            r == With(v, c, n)
<1>. HIDE DEF w, v, l, r
<1>5. Live(l) = Live(r) /\ l.wrong = r.wrong
  BY <1>1, <1>2, <1>3, <1>4 DEF l, r
<1>6. \A d \in Live(l) : l.size[d] = r.size[d]
  BY <1>1, <1>2, <1>3, <1>4 DEF l, r
<1>7. l.size = r.size
  BY <1>3, <1>4, <1>5, <1>6 DEF IsHeap, Live, l, r
<1>. QED
  BY <1>3, <1>4, <1>5, <1>7 DEF IsHeap, w, v, l, r

LEMMA PerformAlloc ==
  ASSUME NEW m, IsHeap(m), NEW b, b \notin Live(m), NEW n
  PROVE  Perform(m, Alloc(b, n)) = With(m, b, n)
BY DEF Perform, Alloc, With, Live

LEMMA PerformTouch ==
  ASSUME NEW m, NEW b \in Live(m), NEW to, to <= m.size[b]
  PROVE  Perform(m, Touch(b, to)) = m
BY DEF Perform, Touch, Live

LEMMA PerformFree ==
  ASSUME NEW m, NEW b \in Live(m)
  PROVE  Perform(m, Free(b)) = Without(m, b)
BY DEF Perform, Free, Without, Live

-----------------------------------------------------------------------------
(* The contracts of the functions *)

LEMMA Sizes ==
  /\ MaxPayload \in Nat /\ RequestLen \in 0..(MaxPayload - 1) /\ ReplyLen \in 0..(MaxPayload - 6)
  /\ GreSize = 6 /\ IpSize = 20 /\ AddressSize = 16 /\ BareHeaderSize = 40 /\ HeaderSize = 46
  /\ BareSize = MaxPayload + 40 /\ PacketSize = MaxPayload + 46
  /\ \A len \in 0..MaxPayload : GetPacketSize(len) = len + 46
BY MemoryAssumption DEF GreSize, IpSize, AddressSize, BareHeaderSize, HeaderSize, BareSize,
                        PacketSize, GetPacketSize

LEMMA AfterOne ==
  ASSUME NEW m, NEW a
  PROVE  After(m, <<a>>) = Perform(m, a)
<1>. DEFINE ops == <<a>>
<1>1. Len(ops) = 1 /\ ops[1] = a
  OBVIOUS
<1>. HIDE DEF ops
<1>0. Len(ops) \in Nat
  BY <1>1
<1>2. PICK s : /\ s[0] = m /\ After(m, ops) = s[Len(ops)]
               /\ \A i \in 1..Len(ops) : s[i] = Perform(s[i - 1], ops[i])
  BY <1>0, AfterRuns, SMTT(30)
<1>3. s[1] = Perform(s[0], ops[1])
  BY <1>1, <1>2
<1>. QED
  BY <1>1, <1>2, <1>3 DEF ops

LEMMA AfterTwo ==
  ASSUME NEW m, NEW a, NEW b
  PROVE  After(m, <<a, b>>) = Perform(Perform(m, a), b)
<1>. DEFINE ops == <<a, b>>
<1>1. Len(ops) = 2 /\ ops[1] = a /\ ops[2] = b
  OBVIOUS
<1>. HIDE DEF ops
<1>0. Len(ops) \in Nat
  BY <1>1
<1>2. PICK s : /\ s[0] = m /\ After(m, ops) = s[Len(ops)]
               /\ \A i \in 1..Len(ops) : s[i] = Perform(s[i - 1], ops[i])
  BY <1>0, AfterRuns, SMTT(30)
<1>3. s[1] = Perform(s[0], ops[1]) /\ s[2] = Perform(s[1], ops[2])
  BY <1>1, <1>2
<1>. QED
  BY <1>1, <1>2, <1>3 DEF ops

\* The operations ops take the heap m to the heap n.
Takes(m, ops, n) == ops \in Seq(Operations) /\ After(m, ops) = n

LEMMA Chain ==
  ASSUME NEW m, NEW n, NEW o, NEW a, NEW b, Takes(m, a, n), Takes(n, b, o)
  PROVE  Takes(m, a \o b, o)
<1>1. a \in Seq(Operations) /\ b \in Seq(Operations) /\ After(m, a) = n /\ After(n, b) = o
  BY DEF Takes
<1>2. a \o b \in Seq(Operations)
  BY <1>1
<1>3. After(m, a \o b) = After(After(m, a), b)
  BY <1>1, AfterBoth
<1>. QED
  BY <1>1, <1>2, <1>3 DEF Takes

LEMMA TakesAlloc ==
  ASSUME NEW m, IsHeap(m), NEW b \in Buffers, b \notin Live(m), NEW n \in Nat
  PROVE  Takes(m, <<Alloc(b, n)>>, With(m, b, n))
<1>1. Perform(m, Alloc(b, n)) = With(m, b, n)
  BY PerformAlloc
<1>. QED
  BY <1>1, AfterOne, OperationsAre DEF Takes

LEMMA TakesTouch ==
  ASSUME NEW m, NEW b \in Live(m), b \in Buffers, NEW to \in Nat, to <= m.size[b]
  PROVE  Takes(m, <<Touch(b, to)>>, m)
<1>1. Perform(m, Touch(b, to)) = m
  BY PerformTouch
<1>. QED
  BY <1>1, AfterOne, OperationsAre DEF Takes

LEMMA TakesFree ==
  ASSUME NEW m, NEW b \in Live(m), b \in Buffers
  PROVE  Takes(m, <<Free(b)>>, Without(m, b))
<1>1. Perform(m, Free(b)) = Without(m, b)
  BY PerformFree
<1>2. Free(b) \in Operations
  BY OperationsAre
<1>. QED
  BY <1>1, <1>2, AfterOne DEF Takes

\* The addresses are printed from two strings that are then freed.
LEMMA PrintContract ==
  ASSUME NEW m, IsHeap(m), NEW b \in Live(m), b \in Buffers,
         "ip_src_str" \notin Live(m), "ip_dst_str" \notin Live(m),
         NEW base \in Nat, NEW len \in Nat, m.size[b] \in Nat, base + 41 + len <= m.size[b]
  PROVE  Takes(m, PrintPacket(b, base, len), m)
<1>. DEFINE ops == PrintPacket(b, base, len)
            m2 == With(m, "ip_src_str", 16)
            m3 == With(m2, "ip_dst_str", 16)
<1>1. /\ Len(ops) = 8
      /\ ops[1] = Touch(b, base + 40)
      /\ ops[2] = Alloc("ip_src_str", 16) /\ ops[3] = Alloc("ip_dst_str", 16)
      /\ ops[4] = Touch("ip_src_str", 16) /\ ops[5] = Touch("ip_dst_str", 16)
      /\ ops[6] = Free("ip_src_str") /\ ops[7] = Free("ip_dst_str")
      /\ ops[8] = Touch(b, base + 40 + len + 1)
  BY Sizes DEF PrintPacket
<1>2. ops \in Seq(Operations)
  <2>1. base + 40 \in Nat /\ 16 \in Nat /\ base + 40 + len + 1 \in Nat
    OBVIOUS
  <2>2. /\ Touch(b, base + 40) \in Operations /\ Touch(b, base + 40 + len + 1) \in Operations
    BY <2>1, OperationsAre
  <2>3. /\ Alloc("ip_src_str", 16) \in Operations /\ Alloc("ip_dst_str", 16) \in Operations
        /\ Touch("ip_src_str", 16) \in Operations /\ Touch("ip_dst_str", 16) \in Operations
        /\ Free("ip_src_str") \in Operations /\ Free("ip_dst_str") \in Operations
    BY DEF Alloc, Touch, Free, Operations, Buffers
  <2>. QED
    BY <2>2, <2>3, Sizes DEF PrintPacket
<1>. HIDE DEF ops
<1>0. Len(ops) \in Nat
  BY <1>1
<1>3. PICK s : /\ s[0] = m /\ After(m, ops) = s[Len(ops)]
               /\ \A i \in 1..Len(ops) : s[i] = Perform(s[i - 1], ops[i])
  BY <1>0, SomeRun DEF IsRun
<1>4. /\ s[1] = Perform(s[0], ops[1]) /\ s[2] = Perform(s[1], ops[2]) /\ s[3] = Perform(s[2], ops[3])
      /\ s[4] = Perform(s[3], ops[4]) /\ s[5] = Perform(s[4], ops[5]) /\ s[6] = Perform(s[5], ops[6])
      /\ s[7] = Perform(s[6], ops[7]) /\ s[8] = Perform(s[7], ops[8])
  BY <1>1, <1>3
<1>5. IsHeap(m2) /\ Live(m2) = Live(m) \cup {"ip_src_str"} /\ m2.size["ip_src_str"] = 16
  BY WithFacts
<1>6. /\ IsHeap(m3) /\ Live(m3) = Live(m) \cup {"ip_src_str", "ip_dst_str"}
      /\ m3.size["ip_src_str"] = 16 /\ m3.size["ip_dst_str"] = 16
  BY <1>5, WithFacts
<1>7. Without(m3, "ip_src_str") = With(m, "ip_dst_str", 16)
  BY <1>5, WithWithout, WithoutEarlier
<1>8. Without(With(m, "ip_dst_str", 16), "ip_dst_str") = m
  BY WithWithout
<1>9. "ip_dst_str" \in Live(With(m, "ip_dst_str", 16))
  BY WithFacts
<1>. HIDE DEF m2, m3
<1>10. s[1] = m
  BY <1>1, <1>3, <1>4, PerformTouch
<1>11. s[2] = m2
  BY <1>1, <1>4, <1>10, PerformAlloc DEF m2
<1>12. s[3] = m3
  BY <1>1, <1>4, <1>5, <1>11, PerformAlloc DEF m3
<1>13. s[4] = m3 /\ s[5] = m3
  BY <1>1, <1>4, <1>6, <1>12, PerformTouch
<1>14. s[6] = With(m, "ip_dst_str", 16)
  BY <1>1, <1>4, <1>6, <1>7, <1>13, PerformFree
<1>15. s[7] = m
  BY <1>1, <1>4, <1>8, <1>9, <1>14, PerformFree
<1>16. s[8] = m
  BY <1>1, <1>4, <1>15, PerformTouch
<1>. QED
  BY <1>1, <1>2, <1>3, <1>16 DEF ops, Takes

LEMMA AtMostFacts ==
  ASSUME NEW n \in Nat, NEW bound \in Nat
  PROVE  AtMost(n, bound) \in Nat /\ AtMost(n, bound) <= bound /\ AtMost(n, bound) <= n
BY DEF AtMost

\* The text a packet has room for, and its 0.
LEMMA TextFits ==
  ASSUME NEW len \in 0..(MaxPayload - 1)
  PROVE  AtMost(len, MaxPayload - 1) \in 0..(MaxPayload - 1)
<1>1. len \in Nat /\ MaxPayload - 1 \in Nat
  BY Sizes
<1>. QED
  BY <1>1, AtMostFacts

LEMMA TextInFacts ==
  ASSUME NEW k \in Nat, NEW headerSize \in Nat, NEW len \in Nat
  PROVE  TextIn(k, headerSize, len) \in 0..len
BY DEF TextIn, AtMost

\* create_packets returns one packet and has freed the other.
LEMMA CreateContract ==
  ASSUME NEW m, IsHeap(m), "new_packet" \notin Live(m), "encrypt_packet" \notin Live(m),
         NEW len \in 0..(MaxPayload - 1)
  PROVE  Takes(m, CreatePackets(len), With(m, "encrypt_packet", PacketSize))
<1>. DEFINE ops == CreatePackets(len)
            text == AtMost(len, MaxPayload - 1)
            m1 == With(m, "new_packet", PacketSize)
            m2 == With(m1, "encrypt_packet", PacketSize)
            m3 == With(m, "encrypt_packet", PacketSize)
<1>1. /\ Len(ops) = 8
      /\ ops[1] = Alloc("new_packet", PacketSize) /\ ops[2] = Alloc("encrypt_packet", PacketSize)
      /\ ops[3] = Touch("new_packet", HeaderSize + len)
      /\ ops[4] = Touch("new_packet", HeaderSize + text + 1)
      /\ ops[5] = Touch("new_packet", PacketSize) /\ ops[6] = Touch("encrypt_packet", PacketSize)
      /\ ops[7] = Touch("encrypt_packet", HeaderSize + text + 1)
      /\ ops[8] = Free("new_packet")
  BY DEF CreatePackets, Build
<1>2. /\ text \in Nat /\ PacketSize \in Nat /\ HeaderSize + len <= PacketSize
      /\ HeaderSize + len \in Nat /\ HeaderSize + text + 1 \in Nat
      /\ HeaderSize + text + 1 <= PacketSize /\ PacketSize <= PacketSize
  <2>1. text \in 0..(MaxPayload - 1)
    BY TextFits
  <2>. HIDE DEF text
  <2>. QED
    BY <2>1, Sizes
<1>. HIDE DEF text
<1>3. ops \in Seq(Operations)
  BY <1>2 DEF CreatePackets, Build, text, Operations, Alloc, Touch, Free, Buffers
<1>. HIDE DEF ops
<1>4. Len(ops) \in Nat
  BY <1>1
<1>5. PICK s : /\ s[0] = m /\ After(m, ops) = s[Len(ops)]
               /\ \A i \in 1..Len(ops) : s[i] = Perform(s[i - 1], ops[i])
  BY <1>4, AfterRuns, SMTT(30)
<1>6. /\ s[1] = Perform(s[0], ops[1]) /\ s[2] = Perform(s[1], ops[2]) /\ s[3] = Perform(s[2], ops[3])
      /\ s[4] = Perform(s[3], ops[4]) /\ s[5] = Perform(s[4], ops[5]) /\ s[6] = Perform(s[5], ops[6])
      /\ s[7] = Perform(s[6], ops[7]) /\ s[8] = Perform(s[7], ops[8])
  BY <1>1, <1>5
<1>7. IsHeap(m1) /\ Live(m1) = Live(m) \cup {"new_packet"} /\ m1.size["new_packet"] = PacketSize
  BY WithFacts
<1>8. /\ IsHeap(m2) /\ Live(m2) = Live(m) \cup {"new_packet", "encrypt_packet"}
      /\ m2.size["new_packet"] = PacketSize /\ m2.size["encrypt_packet"] = PacketSize
  BY <1>7, WithFacts
<1>9. Without(m2, "new_packet") = m3
  BY <1>7, WithWithout, WithoutEarlier
<1>. HIDE DEF m1, m2, m3
<1>10. s[1] = m1
  BY <1>1, <1>5, <1>6, PerformAlloc DEF m1
<1>11. s[2] = m2
  BY <1>1, <1>6, <1>7, <1>10, PerformAlloc DEF m2
<1>12. s[3] = m2 /\ s[4] = m2 /\ s[5] = m2 /\ s[6] = m2 /\ s[7] = m2
  BY <1>1, <1>2, <1>6, <1>8, <1>11, PerformTouch
<1>13. s[8] = m3
  BY <1>1, <1>6, <1>8, <1>9, <1>12, PerformFree
<1>. QED
  BY <1>1, <1>3, <1>5, <1>13 DEF ops, m3, Takes

\* create_packets_des fills the packet it is given.
LEMMA CreateDesContract ==
  ASSUME NEW m, IsHeap(m), NEW b \in Buffers, b \notin Live(m), NEW len \in 0..(MaxPayload - 1)
  PROVE  Takes(m, CreatePacketsDes(b, len), With(m, b, PacketSize))
<1>. DEFINE ops == CreatePacketsDes(b, len)
            text == AtMost(len, MaxPayload - 1)
            m1 == With(m, b, PacketSize)
<1>1. /\ Len(ops) = 3
      /\ ops[1] = Alloc(b, PacketSize) /\ ops[2] = Touch(b, HeaderSize + len)
      /\ ops[3] = Touch(b, HeaderSize + text + 1)
  BY DEF CreatePacketsDes, Build
<1>2. /\ text \in Nat /\ PacketSize \in Nat /\ HeaderSize + len <= PacketSize
      /\ HeaderSize + len \in Nat /\ HeaderSize + text + 1 \in Nat
      /\ HeaderSize + text + 1 <= PacketSize
  <2>1. text \in 0..(MaxPayload - 1)
    BY TextFits
  <2>. HIDE DEF text
  <2>. QED
    BY <2>1, Sizes
<1>. HIDE DEF text
<1>3. ops \in Seq(Operations)
  BY <1>2, OperationsAre DEF CreatePacketsDes, Build, text
<1>. HIDE DEF ops
<1>4. Len(ops) \in Nat
  BY <1>1
<1>5. PICK s : /\ s[0] = m /\ After(m, ops) = s[Len(ops)]
               /\ \A i \in 1..Len(ops) : s[i] = Perform(s[i - 1], ops[i])
  BY <1>4, AfterRuns, SMTT(30)
<1>6. /\ s[1] = Perform(s[0], ops[1]) /\ s[2] = Perform(s[1], ops[2]) /\ s[3] = Perform(s[2], ops[3])
  BY <1>1, <1>5
<1>7. IsHeap(m1) /\ Live(m1) = Live(m) \cup {b} /\ m1.size[b] = PacketSize
  BY WithFacts
<1>. HIDE DEF m1
<1>10. s[1] = m1
  BY <1>1, <1>5, <1>6, PerformAlloc DEF m1
<1>11. s[2] = m1 /\ s[3] = m1
  BY <1>1, <1>2, <1>6, <1>7, <1>10, PerformTouch
<1>. QED
  BY <1>1, <1>3, <1>5, <1>11 DEF ops, m1, Takes

\* serv_rec_from_cli returns the decrypted packet, and frees the one it received.
LEMMA ReceiveContract ==
  ASSUME NEW m, IsHeap(m), "new_rec_pkt" \notin Live(m), "decrypt_packet" \notin Live(m),
         NEW k \in Nat, k <= PacketSize, NEW len \in 0..(MaxPayload - 1)
  PROVE  Takes(m, ServRecFromCli(k, len), With(m, "decrypt_packet", PacketSize))
<1>. DEFINE ops == ServRecFromCli(k, len)
            text == AtMost(len, MaxPayload - 1)
            m1 == With(m, "new_rec_pkt", PacketSize)
            m2 == With(m1, "decrypt_packet", PacketSize)
            m3 == With(m, "decrypt_packet", PacketSize)
<1>1. /\ Len(ops) = 8
      /\ ops[1] = Alloc("new_rec_pkt", PacketSize) /\ ops[2] = Touch("new_rec_pkt", k)
      /\ ops[3] = Touch("new_rec_pkt", HeaderSize + len + 1)
      /\ ops[4] = Alloc("decrypt_packet", PacketSize)
      /\ ops[5] = Touch("new_rec_pkt", PacketSize) /\ ops[6] = Touch("decrypt_packet", PacketSize)
      /\ ops[7] = Touch("decrypt_packet", HeaderSize + text + 1)
      /\ ops[8] = Free("new_rec_pkt")
  BY DEF ServRecFromCli
<1>2. /\ text \in Nat /\ PacketSize \in Nat /\ PacketSize <= PacketSize
      /\ HeaderSize + len + 1 \in Nat /\ HeaderSize + len + 1 <= PacketSize
      /\ HeaderSize + text + 1 \in Nat /\ HeaderSize + text + 1 <= PacketSize
  <2>1. text \in 0..(MaxPayload - 1)
    BY TextFits
  <2>. HIDE DEF text
  <2>. QED
    BY <2>1, Sizes
<1>. HIDE DEF text
<1>3. ops \in Seq(Operations)
  BY <1>2 DEF ServRecFromCli, text, Operations, Alloc, Touch, Free, Buffers
<1>. HIDE DEF ops
<1>4. Len(ops) \in Nat
  BY <1>1
<1>5. PICK s : /\ s[0] = m /\ After(m, ops) = s[Len(ops)]
               /\ \A i \in 1..Len(ops) : s[i] = Perform(s[i - 1], ops[i])
  BY <1>4, AfterRuns, SMTT(30)
<1>6. /\ s[1] = Perform(s[0], ops[1]) /\ s[2] = Perform(s[1], ops[2]) /\ s[3] = Perform(s[2], ops[3])
      /\ s[4] = Perform(s[3], ops[4]) /\ s[5] = Perform(s[4], ops[5]) /\ s[6] = Perform(s[5], ops[6])
      /\ s[7] = Perform(s[6], ops[7]) /\ s[8] = Perform(s[7], ops[8])
  BY <1>1, <1>5
<1>7. IsHeap(m1) /\ Live(m1) = Live(m) \cup {"new_rec_pkt"} /\ m1.size["new_rec_pkt"] = PacketSize
  BY WithFacts
<1>8. /\ IsHeap(m2) /\ Live(m2) = Live(m) \cup {"new_rec_pkt", "decrypt_packet"}
      /\ m2.size["new_rec_pkt"] = PacketSize /\ m2.size["decrypt_packet"] = PacketSize
  BY <1>7, WithFacts
<1>9. Without(m2, "new_rec_pkt") = m3
  BY <1>7, WithWithout, WithoutEarlier
<1>. HIDE DEF m1, m2, m3
<1>10. s[1] = m1
  BY <1>1, <1>5, <1>6, PerformAlloc DEF m1
<1>11. s[2] = m1 /\ s[3] = m1
  BY <1>1, <1>2, <1>6, <1>7, <1>10, PerformTouch
<1>12. s[4] = m2
  BY <1>1, <1>6, <1>7, <1>11, PerformAlloc DEF m2
<1>13. s[5] = m2 /\ s[6] = m2 /\ s[7] = m2
  BY <1>1, <1>2, <1>6, <1>8, <1>12, PerformTouch
<1>14. s[8] = m3
  BY <1>1, <1>6, <1>8, <1>9, <1>13, PerformFree
<1>. QED
  BY <1>1, <1>3, <1>5, <1>14 DEF ops, m3, Takes

\* The two functions that return what they received as it is.
LEMMA ReceiveBareContract ==
  ASSUME NEW m, IsHeap(m), NEW b \in Buffers, b \notin Live(m), NEW size \in Nat,
         NEW k \in Nat, k <= size
  PROVE  Takes(m, <<Alloc(b, size), Touch(b, k)>>, With(m, b, size))
<1>. DEFINE m1 == With(m, b, size)
<1>1. b \in Live(m1) /\ m1.size[b] = size
  BY WithFacts
<1>2. Perform(m, Alloc(b, size)) = m1
  BY PerformAlloc
<1>. HIDE DEF m1
<1>3. Perform(m1, Touch(b, k)) = m1
  BY <1>1, PerformTouch
<1>4. After(m, <<Alloc(b, size), Touch(b, k)>>) = m1
  BY <1>2, <1>3, AfterTwo
<1>. QED
  BY <1>4, OperationsAre DEF m1, Takes

\* serv_cli_encrypt returns a packet that is one byte too short for its text's 0.
LEMMA EncryptContract ==
  ASSUME NEW m, IsHeap(m), "encrypt_packet" \notin Live(m), "enc_pkt" \in Live(m),
         m.size["enc_pkt"] = PacketSize, NEW len \in 0..(MaxPayload - 1)
  PROVE  Takes(m, ServCliEncrypt(len), Wrong(With(m, "encrypt_packet", GetPacketSize(len)), "overrun", "encrypt_packet", 1))
<1>. DEFINE ops == ServCliEncrypt(len)
            n == GetPacketSize(len)
            m1 == With(m, "encrypt_packet", n)
<1>1. /\ Len(ops) = 4
      /\ ops[1] = Alloc("encrypt_packet", n) /\ ops[2] = Touch("enc_pkt", n)
      /\ ops[3] = Touch("encrypt_packet", n) /\ ops[4] = Touch("encrypt_packet", HeaderSize + len + 1)
  BY DEF ServCliEncrypt
<1>2. /\ n \in Nat /\ n <= n /\ n <= PacketSize /\ HeaderSize + len + 1 \in Nat
      /\ ~(HeaderSize + len + 1 <= n) /\ (HeaderSize + len + 1) - n = 1
  <2>1. n = len + 46
    BY Sizes
  <2>. HIDE DEF n
  <2>. QED
    BY <2>1, Sizes
<1>3. ops \in Seq(Operations)
  <2>. HIDE DEF n
  <2>1. ops = <<Alloc("encrypt_packet", n), Touch("enc_pkt", n), Touch("encrypt_packet", n),
                Touch("encrypt_packet", HeaderSize + len + 1)>>
    BY DEF ServCliEncrypt, n
  <2>. QED
    BY <1>2, <2>1 DEF Operations, Alloc, Touch, Buffers
<1>. HIDE DEF ops
<1>4. Len(ops) \in Nat
  BY <1>1
<1>5. PICK s : /\ s[0] = m /\ After(m, ops) = s[Len(ops)]
               /\ \A i \in 1..Len(ops) : s[i] = Perform(s[i - 1], ops[i])
  BY <1>4, AfterRuns, SMTT(30)
<1>6. /\ s[1] = Perform(s[0], ops[1]) /\ s[2] = Perform(s[1], ops[2]) /\ s[3] = Perform(s[2], ops[3])
      /\ s[4] = Perform(s[3], ops[4])
  BY <1>1, <1>5
<1>7. /\ IsHeap(m1) /\ Live(m1) = Live(m) \cup {"encrypt_packet"} /\ m1.size["encrypt_packet"] = n
      /\ m1.size["enc_pkt"] = PacketSize
  BY WithFacts
<1>. HIDE DEF m1, n
<1>10. s[1] = m1
  BY <1>1, <1>5, <1>6, PerformAlloc DEF m1
<1>11. s[2] = m1 /\ s[3] = m1
  BY <1>1, <1>2, <1>6, <1>7, <1>10, PerformTouch
<1>12. Perform(m1, Touch("encrypt_packet", HeaderSize + len + 1))
         = Wrong(m1, "overrun", "encrypt_packet", (HeaderSize + len + 1) - n)
  BY <1>2, <1>7 DEF Perform, Touch, Live
<1>13. s[4] = Wrong(m1, "overrun", "encrypt_packet", 1)
  BY <1>1, <1>2, <1>6, <1>11, <1>12
<1>. QED
  BY <1>1, <1>3, <1>5, <1>13 DEF ops, m1, n, Takes

\* The place of the GRE header is read, and that of the IP header behind it.
LEMMA HandleContract ==
  ASSUME NEW m, NEW b \in Live(m), b \in Buffers, m.size[b] = PacketSize
  PROVE  Takes(m, ServHandlePkt(b), m)
BY TakesTouch, Sizes DEF ServHandlePkt

LEMMA WrongFacts ==
  ASSUME NEW m, IsHeap(m), NEW kind, NEW b, NEW by
  PROVE  /\ IsHeap(Wrong(m, kind, b, by)) /\ Live(Wrong(m, kind, b, by)) = Live(m)
         /\ Wrong(m, kind, b, by).size = m.size
         /\ Wrong(m, kind, b, by).wrong = m.wrong \cup {[kind |-> kind, buf |-> b, by |-> by]}
<1>1. Wrong(m, kind, b, by) = [size |-> m.size, wrong |-> m.wrong \cup {[kind |-> kind, buf |-> b, by |-> by]}]
  BY DEF Wrong, IsHeap
<1>. QED
  BY <1>1 DEF IsHeap, Live

-----------------------------------------------------------------------------
(* What a step of a program does to its heap *)

\* create_packets, and the printing of what it returns.
LEMMA ClientCreates ==
  ASSUME NEW m, IsHeap(m), Live(m) = {}
  PROVE  After(m, CreatePackets(RequestLen) \o PrintPacket("encrypt_packet", GreSize, RequestLen))
           = With(m, "encrypt_packet", PacketSize)
<1>. DEFINE m1 == With(m, "encrypt_packet", PacketSize)
<1>1. Takes(m, CreatePackets(RequestLen), m1)
  BY CreateContract, Sizes
<1>2. IsHeap(m1) /\ Live(m1) = {"encrypt_packet"} /\ m1.size["encrypt_packet"] = PacketSize
  BY WithFacts
<1>. HIDE DEF m1
<1>3. /\ RequestLen \in Nat /\ GreSize \in Nat /\ m1.size["encrypt_packet"] \in Nat
      /\ GreSize + 41 + RequestLen <= m1.size["encrypt_packet"]
  BY <1>2, Sizes
<1>4. Takes(m1, PrintPacket("encrypt_packet", GreSize, RequestLen), m1)
  BY <1>2, <1>3, PrintContract DEF Buffers
<1>5. Takes(m, CreatePackets(RequestLen) \o PrintPacket("encrypt_packet", GreSize, RequestLen), m1)
  BY <1>1, <1>4, Chain
<1>. QED
  BY <1>5 DEF Takes, m1

\* The two programs that receive an encapsulated packet print it; the client frees it,
\* the server reads its headers.
LEMMA ReceivesAndPrints ==
  ASSUME NEW m, IsHeap(m), Live(m) \cap {"new_rec_pkt", "decrypt_packet", "ip_src_str", "ip_dst_str"} = {},
         NEW k \in Nat, k <= PacketSize, NEW len \in 0..(MaxPayload - 1)
  PROVE  Takes(m, ServRecFromCli(k, len) \o PrintPacket("decrypt_packet", GreSize, len),
               With(m, "decrypt_packet", PacketSize))
<1>. DEFINE m1 == With(m, "decrypt_packet", PacketSize)
<1>1. Takes(m, ServRecFromCli(k, len), m1)
  BY ReceiveContract
<1>2. IsHeap(m1) /\ Live(m1) = Live(m) \cup {"decrypt_packet"} /\ m1.size["decrypt_packet"] = PacketSize
  BY WithFacts
<1>. HIDE DEF m1
<1>3. /\ len \in Nat /\ GreSize \in Nat /\ m1.size["decrypt_packet"] \in Nat
      /\ GreSize + 41 + len <= m1.size["decrypt_packet"]
  BY <1>2, Sizes
<1>4. Takes(m1, PrintPacket("decrypt_packet", GreSize, len), m1)
  BY <1>2, <1>3, PrintContract DEF Buffers
<1>5. Takes(m, ServRecFromCli(k, len) \o PrintPacket("decrypt_packet", GreSize, len), m1)
  BY <1>1, <1>4, Chain
<1>. QED
  BY <1>5 DEF m1

LEMMA ClientReceives ==
  ASSUME NEW m, IsHeap(m), Live(m) \subseteq {"encrypt_packet"},
         NEW k \in Nat, k <= PacketSize, NEW len \in 0..(MaxPayload - 1)
  PROVE  After(m, ServRecFromCli(k, len) \o PrintPacket("decrypt_packet", GreSize, len)
                  \o <<Free("decrypt_packet")>>) = m
<1>. DEFINE m1 == With(m, "decrypt_packet", PacketSize)
            a == ServRecFromCli(k, len) \o PrintPacket("decrypt_packet", GreSize, len)
<1>1. Takes(m, a, m1)
  BY ReceivesAndPrints
<1>2. IsHeap(m1) /\ "decrypt_packet" \in Live(m1) /\ Without(m1, "decrypt_packet") = m
  BY WithFacts, WithWithout
<1>. HIDE DEF m1, a
<1>3. Takes(m1, <<Free("decrypt_packet")>>, m)
  BY <1>2, TakesFree DEF Buffers
<1>4. Takes(m, a \o <<Free("decrypt_packet")>>, m)
  BY <1>1, <1>3, Chain
<1>. QED
  BY <1>4 DEF Takes, a

LEMMA ServerReceives ==
  ASSUME NEW m, IsHeap(m), Live(m) = {},
         NEW k \in Nat, k <= PacketSize, NEW len \in 0..(MaxPayload - 1)
  PROVE  After(m, ServRecFromCli(k, len) \o PrintPacket("decrypt_packet", GreSize, len)
                  \o ServHandlePkt("decrypt_packet"))
           = With(m, "decrypt_packet", PacketSize)
<1>. DEFINE m1 == With(m, "decrypt_packet", PacketSize)
            a == ServRecFromCli(k, len) \o PrintPacket("decrypt_packet", GreSize, len)
<1>1. Takes(m, a, m1)
  BY ReceivesAndPrints
<1>2. "decrypt_packet" \in Live(m1) /\ m1.size["decrypt_packet"] = PacketSize
  BY WithFacts
<1>. HIDE DEF m1, a
<1>3. Takes(m1, ServHandlePkt("decrypt_packet"), m1)
  BY <1>2, HandleContract DEF Buffers
<1>4. Takes(m, a \o ServHandlePkt("decrypt_packet"), m1)
  BY <1>1, <1>3, Chain
<1>. QED
  BY <1>4 DEF Takes, a, m1

\* Operations that follow one another in one list.
LEMMA OneMore ==
  ASSUME NEW m0, NEW m1, NEW m2, NEW a, NEW b, Takes(m0, a, m1), Takes(m1, <<b>>, m2)
  PROVE  Takes(m0, Append(a, b), m2)
<1>1. a \in Seq(Operations) /\ <<b>> \in Seq(Operations)
  BY DEF Takes
<1>2. b \in Operations
  BY <1>1
<1>3. Append(a, b) = a \o <<b>>
  BY <1>1, <1>2
<1>4. Takes(m0, a \o <<b>>, m2)
  BY Chain
<1>. QED
  BY <1>3, <1>4

LEMMA Longer ==
  ASSUME NEW a, NEW b, NEW c, NEW d, NEW e
  PROVE  /\ <<a, b, c>> = Append(<<a, b>>, c)
         /\ <<a, b, c, d>> = Append(<<a, b, c>>, d)
         /\ <<a, b, c, d, e>> = Append(<<a, b, c, d>>, e)
<1>1. <<a, b, c>> = Append(<<a, b>>, c)
  OBVIOUS
<1>2. <<a, b, c, d>> = Append(<<a, b, c>>, d)
  OBVIOUS
<1>3. <<a, b, c, d, e>> = Append(<<a, b, c, d>>, e)
  OBVIOUS
<1>. QED
  BY <1>1, <1>2, <1>3

LEMMA InOrder ==
  ASSUME NEW m0, NEW m1, NEW m2, NEW a, NEW b, Takes(m0, <<a>>, m1), Takes(m1, <<b>>, m2)
  PROVE  Takes(m0, <<a, b>>, m2)
<1>1. <<a, b>> = Append(<<a>>, b)
  OBVIOUS
<1>2. Takes(m0, Append(<<a>>, b), m2)
  BY OneMore
<1>. QED
  BY <1>1, <1>2

\* The string for the destination's address, which the server frees once it has dialled.
Dial == <<Alloc("dest_ip", AddressSize), Touch("decrypt_packet", GreSize + IpSize),
          Touch("dest_ip", AddressSize)>>

LEMMA Dials ==
  ASSUME NEW m, IsHeap(m), Live(m) = {"decrypt_packet"}, m.size["decrypt_packet"] = PacketSize
  PROVE  After(m, Dial) = With(m, "dest_ip", AddressSize) /\ After(m, Dial \o <<Free("dest_ip")>>) = m
<1>. DEFINE m1 == With(m, "dest_ip", AddressSize)
<1>1. /\ IsHeap(m1) /\ "dest_ip" \in Live(m1) /\ m1.size["dest_ip"] = AddressSize
      /\ "decrypt_packet" \in Live(m1) /\ m1.size["decrypt_packet"] = PacketSize
      /\ Without(m1, "dest_ip") = m
  BY WithFacts, WithWithout
<1>2. Takes(m, <<Alloc("dest_ip", AddressSize)>>, m1)
  BY TakesAlloc, Sizes DEF Buffers
<1>. HIDE DEF m1
<1>3. Takes(m1, <<Touch("decrypt_packet", GreSize + IpSize)>>, m1)
  BY <1>1, TakesTouch, Sizes DEF Buffers
<1>4. Takes(m1, <<Touch("dest_ip", AddressSize)>>, m1)
  BY <1>1, TakesTouch, Sizes DEF Buffers
<1>5. Takes(m1, <<Free("dest_ip")>>, m)
  BY <1>1, TakesFree DEF Buffers
<1>6. Takes(m, Dial, m1)
  <2>. DEFINE a == <<Alloc("dest_ip", AddressSize), Touch("decrypt_packet", GreSize + IpSize)>>
  <2>1. Takes(m, a, m1)
    BY <1>2, <1>3, InOrder
  <2>2. Dial = Append(a, Touch("dest_ip", AddressSize)) 
    BY DEF Dial
  <2>. HIDE DEF a
  <2>. QED
    BY <1>4, <2>1, <2>2, OneMore
<1>7. Takes(m, Dial \o <<Free("dest_ip")>>, m)
  BY <1>5, <1>6, Chain
<1>. QED
  BY <1>6, <1>7 DEF Takes, m1

\* fixed_pkt, which is inside of the packet the server frees once it is sent.
LEMMA Forwards ==
  ASSUME NEW m, IsHeap(m), Live(m) = {"decrypt_packet"}, m.size["decrypt_packet"] = PacketSize
  PROVE  /\ After(m, <<Touch("decrypt_packet", GreSize + BareSize)>>) = m
         /\ After(m, <<Touch("decrypt_packet", GreSize + BareSize), Free("decrypt_packet")>>)
              = Without(m, "decrypt_packet")
<1>1. Takes(m, <<Touch("decrypt_packet", GreSize + BareSize)>>, m)
  BY TakesTouch, Sizes DEF Buffers
<1>2. Takes(m, <<Free("decrypt_packet")>>, Without(m, "decrypt_packet"))
  BY TakesFree DEF Buffers
<1>3. Takes(m, <<Touch("decrypt_packet", GreSize + BareSize), Free("decrypt_packet")>>,
            Without(m, "decrypt_packet"))
  BY <1>1, <1>2, InOrder
<1>. QED
  BY <1>1, <1>3 DEF Takes

\* The packet the client sends, and frees when the send has succeeded.
LEMMA ClientSends ==
  ASSUME NEW m, IsHeap(m), Live(m) = {"encrypt_packet"}, m.size["encrypt_packet"] = PacketSize
  PROVE  LET n == GetPacketSize(RequestLen)
         IN  /\ After(m, <<Touch("encrypt_packet", n)>>) = m
             /\ After(m, <<Touch("encrypt_packet", n), Free("encrypt_packet")>>)
                  = Without(m, "encrypt_packet")
<1>. DEFINE n == GetPacketSize(RequestLen)
<1>1. n \in Nat /\ n <= PacketSize
  BY Sizes
<1>. HIDE DEF n
<1>2. Takes(m, <<Touch("encrypt_packet", n)>>, m)
  BY <1>1, TakesTouch DEF Buffers
<1>3. Takes(m, <<Free("encrypt_packet")>>, Without(m, "encrypt_packet"))
  BY TakesFree DEF Buffers
<1>4. Takes(m, <<Touch("encrypt_packet", n), Free("encrypt_packet")>>, Without(m, "encrypt_packet"))
  BY <1>2, <1>3, InOrder
<1>. QED
  BY <1>2, <1>4 DEF Takes, n

\* Whoever fails to receive keeps the buffer it has allocated for that.
LEMMA ReceivesNothing ==
  ASSUME NEW m, IsHeap(m), "new_rec_pkt" \notin Live(m), NEW size \in Nat
  PROVE  Takes(m, ReceiveFailed(size), With(m, "new_rec_pkt", size))
BY TakesAlloc DEF ReceiveFailed, Buffers

\* What the server does with the reply of the destination before it sends it on.
Prepare(k, len) ==
  ServRecFromDes(k)
  \o <<Alloc("enc_pkt", PacketSize), Touch("rec_packet_dest", BareSize),
       Touch("enc_pkt", GreSize + BareSize),
       Alloc("client_str_ip", AddressSize), Touch("client_str_ip", AddressSize)>>
  \o ServHandlePkt("enc_pkt") \o PrintPacket("enc_pkt", GreSize, len) \o ServCliEncrypt(len)

TheOverrun == [kind |-> "overrun", buf |-> "encrypt_packet", by |-> 1]

LEMMA Prepares ==
  ASSUME NEW m, IsHeap(m), Live(m) = {}, NEW k \in Nat, k <= PacketSize,
         NEW len \in 0..(MaxPayload - 1)
  PROVE  \E r : /\ Takes(m, Prepare(k, len), r) /\ IsHeap(r)
                /\ Live(r) = {"rec_packet_dest", "enc_pkt", "client_str_ip", "encrypt_packet"}
                /\ r.wrong = m.wrong \cup {TheOverrun}
<1>. DEFINE m1 == With(m, "rec_packet_dest", PacketSize)
            m2 == With(m1, "enc_pkt", PacketSize)
            m3 == With(m2, "client_str_ip", AddressSize)
            m4 == With(m3, "encrypt_packet", GetPacketSize(len))
            r == Wrong(m4, "overrun", "encrypt_packet", 1)
<1>0. PacketSize \in Nat /\ AddressSize \in Nat /\ len \in Nat
  BY Sizes
<1>1. /\ IsHeap(m1) /\ Live(m1) = {"rec_packet_dest"} /\ m1.size["rec_packet_dest"] = PacketSize
      /\ m1.wrong = m.wrong
  BY WithFacts
<1>2. /\ IsHeap(m2) /\ Live(m2) = {"rec_packet_dest", "enc_pkt"} /\ m2.wrong = m.wrong
      /\ m2.size["rec_packet_dest"] = PacketSize /\ m2.size["enc_pkt"] = PacketSize
  <2>. HIDE DEF m1
  <2>. QED
    BY <1>1, WithFacts
<1>3. /\ IsHeap(m3) /\ Live(m3) = {"rec_packet_dest", "enc_pkt", "client_str_ip"}
      /\ m3.wrong = m.wrong /\ m3.size["enc_pkt"] = PacketSize
      /\ m3.size["client_str_ip"] = AddressSize
  <2>. HIDE DEF m2
  <2>. QED
    BY <1>2, WithFacts
<1>4. /\ IsHeap(m4) /\ m4.wrong = m.wrong
      /\ Live(m4) = {"rec_packet_dest", "enc_pkt", "client_str_ip", "encrypt_packet"}
  <2>. HIDE DEF m3
  <2>. QED
    BY <1>3, WithFacts
<1>5. IsHeap(r) /\ Live(r) = Live(m4) /\ r.wrong = m.wrong \cup {TheOverrun}
  <2>. HIDE DEF m4
  <2>. QED
    BY <1>4, WrongFacts DEF TheOverrun
<1>6. Takes(m, ServRecFromDes(k), m1)
  BY <1>0, ReceiveBareContract DEF ServRecFromDes, Buffers
<1>7. Takes(m3, ServCliEncrypt(len), r)
  <2>. HIDE DEF m3
  <2>. QED
    BY <1>3, EncryptContract
<1>8. Takes(m1, <<Alloc("enc_pkt", PacketSize)>>, m2)
  <2>. HIDE DEF m1
  <2>. QED
    BY <1>0, <1>1, TakesAlloc DEF Buffers
<1>9. Takes(m2, <<Alloc("client_str_ip", AddressSize)>>, m3)
  <2>. HIDE DEF m2
  <2>. QED
    BY <1>0, <1>2, TakesAlloc DEF Buffers
<1>. HIDE DEF m1, m2, m3, m4, r
<1>10. Takes(m2, <<Touch("rec_packet_dest", BareSize)>>, m2)
  BY <1>2, TakesTouch, Sizes DEF Buffers
<1>11. Takes(m2, <<Touch("enc_pkt", GreSize + BareSize)>>, m2)
  BY <1>2, TakesTouch, Sizes DEF Buffers
<1>12. Takes(m3, <<Touch("client_str_ip", AddressSize)>>, m3)
  BY <1>0, <1>3, TakesTouch, Sizes DEF Buffers
<1>13. Takes(m1, <<Alloc("enc_pkt", PacketSize), Touch("rec_packet_dest", BareSize),
                   Touch("enc_pkt", GreSize + BareSize), Alloc("client_str_ip", AddressSize),
                   Touch("client_str_ip", AddressSize)>>, m3)
  <2>. DEFINE o1 == Alloc("enc_pkt", PacketSize)
              o2 == Touch("rec_packet_dest", BareSize)
              o3 == Touch("enc_pkt", GreSize + BareSize)
              o4 == Alloc("client_str_ip", AddressSize)
              o5 == Touch("client_str_ip", AddressSize)
  <2>1. /\ Takes(m1, <<o1>>, m2) /\ Takes(m2, <<o2>>, m2) /\ Takes(m2, <<o3>>, m2)
        /\ Takes(m2, <<o4>>, m3) /\ Takes(m3, <<o5>>, m3)
    BY <1>8, <1>9, <1>10, <1>11, <1>12
  <2>. HIDE DEF o1, o2, o3, o4, o5
  <2>2. /\ <<o1, o2, o3>> = Append(<<o1, o2>>, o3) /\ <<o1, o2, o3, o4>> = Append(<<o1, o2, o3>>, o4)
        /\ <<o1, o2, o3, o4, o5>> = Append(<<o1, o2, o3, o4>>, o5)
    BY Longer
  <2>3. Takes(m1, <<o1, o2>>, m2)
    BY <2>1, InOrder
  <2>4. Takes(m1, <<o1, o2, o3>>, m2)
    BY <2>1, <2>2, <2>3, OneMore
  <2>5. Takes(m1, <<o1, o2, o3, o4, o5>>, m3)
    <3>1. Takes(m1, <<o1, o2, o3, o4>>, m3)
      BY <2>1, <2>2, <2>4, OneMore
    <3>. QED
      BY <2>1, <2>2, <3>1, OneMore
  <2>. QED
    BY <2>5 DEF o1, o2, o3, o4, o5
<1>14. Takes(m3, ServHandlePkt("enc_pkt"), m3)
  BY <1>3, HandleContract DEF Buffers
<1>15. /\ GreSize \in Nat /\ m3.size["enc_pkt"] \in Nat /\ GreSize + 41 + len <= m3.size["enc_pkt"]
  BY <1>3, Sizes
<1>16. Takes(m3, PrintPacket("enc_pkt", GreSize, len), m3)
  BY <1>0, <1>3, <1>15, PrintContract DEF Buffers
<1>17. Takes(m, Prepare(k, len), r)
  BY <1>6, <1>7, <1>13, <1>14, <1>16, Chain DEF Prepare
<1>. QED
  BY <1>4, <1>5, <1>17

Clean == <<Free("rec_packet_dest"), Free("client_str_ip")>>

LEMMA TwoFreed ==
  ASSUME NEW m, IsHeap(m), NEW b \in Live(m), NEW c \in Live(m), b # c, b \in Buffers, c \in Buffers
  PROVE  \E n : /\ Takes(m, <<Free(b), Free(c)>>, n) /\ IsHeap(n)
                /\ Live(n) = Live(m) \ {b, c} /\ n.wrong = m.wrong
<1>. DEFINE m1 == Without(m, b)
            n == Without(m1, c)
<1>1. IsHeap(m1) /\ Live(m1) = Live(m) \ {b} /\ m1.wrong = m.wrong
  BY WithoutFacts
<1>2. Takes(m, <<Free(b)>>, m1)
  BY TakesFree
<1>. HIDE DEF m1
<1>3. IsHeap(n) /\ Live(n) = Live(m1) \ {c} /\ n.wrong = m1.wrong
  BY <1>1, WithoutFacts
<1>4. Takes(m1, <<Free(c)>>, n)
  BY <1>1, TakesFree
<1>. HIDE DEF n
<1>5. Takes(m, <<Free(b), Free(c)>>, n)
  BY <1>2, <1>4, InOrder
<1>. QED
  BY <1>1, <1>3, <1>5

\* Nothing is left of a reply that is sent, and of one that is not, both packets.
LEMMA Replies ==
  ASSUME NEW m, IsHeap(m), Live(m) = {}, NEW k \in Nat, k <= PacketSize,
         NEW len \in 0..(MaxPayload - 1)
  PROVE  /\ LET n == After(m, Prepare(k, len) \o ServCliFree \o Clean)
            IN  IsHeap(n) /\ Live(n) = {} /\ n.wrong = m.wrong \cup {TheOverrun}
         /\ LET n == After(m, Prepare(k, len) \o Clean)
            IN  /\ IsHeap(n) /\ Live(n) = {"enc_pkt", "encrypt_packet"}
                /\ n.wrong = m.wrong \cup {TheOverrun}
<1>1. PICK r : /\ Takes(m, Prepare(k, len), r) /\ IsHeap(r)
               /\ Live(r) = {"rec_packet_dest", "enc_pkt", "client_str_ip", "encrypt_packet"}
               /\ r.wrong = m.wrong \cup {TheOverrun}
  BY Prepares
<1>2. PICK f : /\ Takes(r, ServCliFree, f) /\ IsHeap(f)
               /\ Live(f) = Live(r) \ {"enc_pkt", "encrypt_packet"} /\ f.wrong = r.wrong
  BY <1>1, TwoFreed DEF ServCliFree, Buffers
<1>3. PICK n : /\ Takes(f, Clean, n) /\ IsHeap(n)
               /\ Live(n) = Live(f) \ {"rec_packet_dest", "client_str_ip"} /\ n.wrong = f.wrong
  <2>1. {"rec_packet_dest", "client_str_ip"} \subseteq Live(f)
    BY <1>1, <1>2
  <2>. QED
    BY <1>2, <2>1, TwoFreed DEF Clean, Buffers
<1>4. PICK o : /\ Takes(r, Clean, o) /\ IsHeap(o)
               /\ Live(o) = Live(r) \ {"rec_packet_dest", "client_str_ip"} /\ o.wrong = r.wrong
  BY <1>1, TwoFreed DEF Clean, Buffers
<1>5. Takes(m, Prepare(k, len) \o ServCliFree \o Clean, n)
  BY <1>1, <1>2, <1>3, Chain
<1>6. Takes(m, Prepare(k, len) \o Clean, o)
  BY <1>1, <1>4, Chain
<1>7. Live(n) = {} /\ Live(o) = {"enc_pkt", "encrypt_packet"}
  BY <1>1, <1>2, <1>3, <1>4
<1>. QED
  BY <1>1, <1>2, <1>3, <1>4, <1>5, <1>6, <1>7 DEF Takes

\* The destination keeps what it received, the client's address and its response.
LEMMA DestReceives ==
  ASSUME NEW m, IsHeap(m), Live(m) = {}, NEW k \in Nat, k <= BareSize, NEW len \in 0..RequestLen
  PROVE  LET n == After(m, DestRecPkt(k) \o PrintPacket("rec_packet", 0, len)
                           \o <<Alloc("client_ip_str", AddressSize), Touch("client_ip_str", AddressSize)>>
                           \o CreatePacketsDes("response_pkt", ReplyLen)
                           \o PrintPacket("response_pkt", GreSize, ReplyLen))
         IN  /\ IsHeap(n) /\ Live(n) = {"rec_packet", "client_ip_str", "response_pkt"}
             /\ n.size["response_pkt"] = PacketSize /\ n.wrong = m.wrong
<1>. DEFINE m1 == With(m, "rec_packet", BareSize)
            m2 == With(m1, "client_ip_str", AddressSize)
            m3 == With(m2, "response_pkt", PacketSize)
<1>0. /\ BareSize \in Nat /\ AddressSize \in Nat /\ PacketSize \in Nat /\ len \in Nat /\ ReplyLen \in Nat
      /\ ReplyLen \in 0..(MaxPayload - 1) /\ 0 + 41 + len <= BareSize /\ GreSize \in Nat
      /\ GreSize + 41 + ReplyLen <= PacketSize
  BY Sizes
<1>1. /\ IsHeap(m1) /\ Live(m1) = {"rec_packet"} /\ m1.size["rec_packet"] = BareSize
      /\ m1.wrong = m.wrong
  BY WithFacts
<1>2. /\ IsHeap(m2) /\ Live(m2) = {"rec_packet", "client_ip_str"} /\ m2.wrong = m.wrong
  <2>. HIDE DEF m1
  <2>. QED
    BY <1>1, WithFacts
<1>3. /\ IsHeap(m3) /\ Live(m3) = {"rec_packet", "client_ip_str", "response_pkt"}
      /\ m3.size["response_pkt"] = PacketSize /\ m3.wrong = m.wrong
  <2>. HIDE DEF m2
  <2>. QED
    BY <1>2, WithFacts
<1>4. Takes(m, DestRecPkt(k), m1)
  BY <1>0, ReceiveBareContract DEF DestRecPkt, Buffers
<1>5. Takes(m1, <<Alloc("client_ip_str", AddressSize), Touch("client_ip_str", AddressSize)>>, m2)
  <2>. HIDE DEF m1
  <2>1. AddressSize <= AddressSize
    BY <1>0
  <2>. QED
    BY <1>0, <1>1, <2>1, ReceiveBareContract DEF Buffers
<1>6. Takes(m2, CreatePacketsDes("response_pkt", ReplyLen), m3)
  <2>. HIDE DEF m2
  <2>. QED
    BY <1>0, <1>2, CreateDesContract DEF Buffers
<1>. HIDE DEF m1, m2, m3
<1>7. Takes(m1, PrintPacket("rec_packet", 0, len), m1)
  BY <1>0, <1>1, PrintContract DEF Buffers
<1>8. Takes(m3, PrintPacket("response_pkt", GreSize, ReplyLen), m3)
  BY <1>0, <1>3, PrintContract DEF Buffers
<1>9. Takes(m, DestRecPkt(k) \o PrintPacket("rec_packet", 0, len)
               \o <<Alloc("client_ip_str", AddressSize), Touch("client_ip_str", AddressSize)>>
               \o CreatePacketsDes("response_pkt", ReplyLen)
               \o PrintPacket("response_pkt", GreSize, ReplyLen), m3)
  <2>. DEFINE a == DestRecPkt(k)
              b == PrintPacket("rec_packet", 0, len)
              c == <<Alloc("client_ip_str", AddressSize), Touch("client_ip_str", AddressSize)>>
              d == CreatePacketsDes("response_pkt", ReplyLen)
              e == PrintPacket("response_pkt", GreSize, ReplyLen)
  <2>1. Takes(m, a, m1) /\ Takes(m1, b, m1) /\ Takes(m1, c, m2) /\ Takes(m2, d, m3) /\ Takes(m3, e, m3)
    BY <1>4, <1>5, <1>6, <1>7, <1>8
  <2>. HIDE DEF a, b, c, d, e
  <2>2. Takes(m, a \o b \o c, m2)
    BY <2>1, Chain
  <2>3. Takes(m, a \o b \o c \o d \o e, m3)
    BY <2>1, <2>2, Chain
  <2>. QED
    BY <2>3 DEF a, b, c, d, e
<1>. QED
  BY <1>3, <1>9 DEF Takes

\* The response is sent from behind its GRE header, and everything is freed.
LEMMA DestReplies ==
  ASSUME NEW m, IsHeap(m), Live(m) = {"rec_packet", "client_ip_str", "response_pkt"},
         m.size["response_pkt"] = PacketSize
  PROVE  LET send == <<Touch("response_pkt", GreSize + GetPacketSize(ReplyLen))>>
             n == After(m, send \o <<Free("rec_packet"), Free("response_pkt"), Free("client_ip_str")>>)
         IN  /\ After(m, send) = m
             /\ IsHeap(n) /\ Live(n) = {} /\ n.wrong = m.wrong
<1>. DEFINE to == GreSize + GetPacketSize(ReplyLen)
            f1 == Free("rec_packet")
            f2 == Free("response_pkt")
            f3 == Free("client_ip_str")
<1>1. to \in Nat /\ to <= m.size["response_pkt"]
  BY Sizes
<1>. HIDE DEF to
<1>2. Takes(m, <<Touch("response_pkt", to)>>, m)
  BY <1>1, TakesTouch DEF Buffers
<1>3. PICK o : /\ Takes(m, <<f1, f2>>, o) /\ IsHeap(o)
               /\ Live(o) = Live(m) \ {"rec_packet", "response_pkt"} /\ o.wrong = m.wrong
  BY TwoFreed DEF Buffers
<1>. DEFINE n == Without(o, "client_ip_str")
<1>4. IsHeap(n) /\ Live(n) = {} /\ n.wrong = m.wrong
  BY <1>3, WithoutFacts
<1>5. Takes(o, <<f3>>, n)
  BY <1>3, TakesFree DEF Buffers
<1>. HIDE DEF n, f1, f2, f3
<1>6. Takes(m, <<f1, f2, f3>>, n)
  <2>1. <<f1, f2, f3>> = Append(<<f1, f2>>, f3)
    OBVIOUS
  <2>. QED
    BY <1>3, <1>5, <2>1, OneMore
<1>7. Takes(m, <<Touch("response_pkt", to)>> \o <<f1, f2, f3>>, n)
  BY <1>2, <1>6, Chain
<1>. QED
  BY <1>2, <1>4, <1>7 DEF Takes, to, f1, f2, f3

-----------------------------------------------------------------------------
(* The inductive invariant: which buffers each program holds at each place *)

Locations == {"create", "send", "receive", "dial", "forward", "receiveReply", "reply",
              "cleaned", "crashed", "returned"}

\* A client whose send has failed keeps its request until it ends, a server its reply.
\* Any other failure of the server's calls ends it.
ClientHolds(m, at, unlucky) ==
  /\ at \in {"create", "send"} => ~unlucky
  /\ at = "create" => Live(m) = {}
  /\ at = "send" => Live(m) = {"encrypt_packet"} /\ m.size["encrypt_packet"] = PacketSize
  /\ at \in {"receive", "cleaned"} => Live(m) = IF unlucky THEN {"encrypt_packet"} ELSE {}
  /\ m.wrong = {}

ServerHolds(m, at, unlucky) ==
  /\ at \in {"receive", "receiveReply"} => Live(m) = {}
  /\ at \in {"dial", "forward"} =>
       Live(m) = {"decrypt_packet"} /\ m.size["decrypt_packet"] = PacketSize
  /\ at \in {"receive", "dial", "forward", "receiveReply"} => ~unlucky
  /\ at = "cleaned" => Live(m) = IF unlucky THEN {"enc_pkt", "encrypt_packet"} ELSE {}
  /\ m.wrong \subseteq {TheOverrun}

DestHolds(m, at) ==
  /\ at \in {"receive", "cleaned"} => Live(m) = {}
  /\ at = "reply" => /\ Live(m) = {"rec_packet", "client_ip_str", "response_pkt"}
                     /\ m.size["response_pkt"] = PacketSize
  /\ m.wrong = {}

Typed ==
  /\ pc \in [Programs -> Locations]
  /\ heap = [p \in Programs |-> heap[p]] /\ \A p \in Programs : IsHeap(heap[p])
  /\ sent \in [Legs -> Nat]
  /\ failed \subseteq Programs

\* Nothing that is sent is larger than the buffer it will be received into.
SentFits ==
  /\ sent["request"] <= PacketSize /\ sent["forward"] <= BareSize
  /\ sent["response"] <= PacketSize /\ sent["reply"] <= PacketSize

MemoryInv ==
  /\ Typed /\ SentFits
  /\ ClientHolds(heap["client"], pc["client"], "client" \in failed)
  /\ ServerHolds(heap["server"], pc["server"], "server" \in failed)
  /\ DestHolds(heap["destination"], pc["destination"])

\* A step of one program disturbs what the invariant says of that program only.
LEMMA ProgramStep ==
  ASSUME MemoryInv, NEW p \in Programs, NEW m, IsHeap(m), NEW at \in Locations,
         heap' = [heap EXCEPT ![p] = m], pc' = [pc EXCEPT ![p] = at],
         failed' \in {failed, failed \cup {p}}, sent' \in [Legs -> Nat], SentFits',
         p = "client" => ClientHolds(m, at, p \in failed'),
         p = "server" => ServerHolds(m, at, p \in failed'),
         p = "destination" => DestHolds(m, at)
  PROVE  MemoryInv'
<1>1. heap = [q \in Programs |-> heap[q]] /\ \A q \in Programs : IsHeap(heap[q])
  BY DEF MemoryInv, Typed
<1>2. heap' = [q \in Programs |-> IF q = p THEN m ELSE heap[q]]
  BY <1>1
<1>3. pc' \in [Programs -> Locations] /\ pc'[p] = at /\ \A q \in Programs \ {p} : pc'[q] = pc[q]
  BY DEF MemoryInv, Typed
<1>4. heap'[p] = m /\ \A q \in Programs \ {p} : heap'[q] = heap[q]
  BY <1>2
<1>5. heap' = [q \in Programs |-> heap'[q]]
  BY <1>2
<1>6. \A q \in Programs : IsHeap(heap'[q])
  BY <1>1, <1>4
<1>7. failed' \subseteq Programs /\ \A q \in Programs \ {p} : q \in failed' <=> q \in failed
  BY DEF MemoryInv, Typed
<1>8. Typed'
  BY <1>3, <1>5, <1>6, <1>7 DEF Typed
<1>9. ClientHolds(heap'["client"], pc'["client"], "client" \in failed')
  BY <1>3, <1>4, <1>7 DEF MemoryInv, Programs
<1>10. ServerHolds(heap'["server"], pc'["server"], "server" \in failed')
  BY <1>3, <1>4, <1>7 DEF MemoryInv, Programs
<1>11. DestHolds(heap'["destination"], pc'["destination"])
  BY <1>3, <1>4 DEF MemoryInv, Programs
<1>. QED
  BY <1>8, <1>9, <1>10, <1>11 DEF MemoryInv

LEMMA HeapsAre ==
  ASSUME MemoryInv
  PROVE  /\ \A p \in Programs : IsHeap(heap[p])
         /\ ClientHolds(heap["client"], pc["client"], "client" \in failed)
         /\ ServerHolds(heap["server"], pc["server"], "server" \in failed)
         /\ DestHolds(heap["destination"], pc["destination"])
         /\ {"client", "server", "destination"} = Programs
         /\ sent \in [Legs -> Nat] /\ SentFits
         /\ \A l \in Legs : sent[l] \in Nat
         /\ \A l \in Legs, n \in Nat : [sent EXCEPT ![l] = n] \in [Legs -> Nat]
BY DEF MemoryInv, Typed, Programs

\* What is sent of a message fits.
LEMMA SentAre ==
  ASSUME MemoryInv
  PROVE  /\ (sent' = sent \/ sent' = [sent EXCEPT !["request"] = GetPacketSize(RequestLen)])
              => sent' \in [Legs -> Nat] /\ SentFits'
         /\ sent' = [sent EXCEPT !["forward"] = BareSize] => sent' \in [Legs -> Nat] /\ SentFits'
         /\ sent' = [sent EXCEPT !["response"] = GetPacketSize(ReplyLen)]
              => sent' \in [Legs -> Nat] /\ SentFits'
         /\ \A len \in 0..(MaxPayload - 1) :
              sent' = [sent EXCEPT !["reply"] = GetPacketSize(len)]
                => sent' \in [Legs -> Nat] /\ SentFits'
<1>. DEFINE Fit(n, bound) == n \in Nat /\ n <= bound
<1>1. /\ Fit(GetPacketSize(RequestLen), PacketSize) /\ Fit(BareSize, BareSize)
      /\ Fit(GetPacketSize(ReplyLen), PacketSize)
  BY Sizes
<1>2. \A len \in 0..(MaxPayload - 1) : Fit(GetPacketSize(len), PacketSize)
  BY Sizes
<1>3. sent \in [Legs -> Nat] /\ SentFits /\ Legs = {"request", "forward", "response", "reply"}
  BY DEF MemoryInv, Typed, Legs
<1>. QED
  BY <1>1, <1>2, <1>3 DEF SentFits

LEMMA ClientCreateStep ==
  ASSUME MemoryInv, ClientCreate
  PROVE  MemoryInv'
<1>. DEFINE ops == CreatePackets(RequestLen) \o PrintPacket("encrypt_packet", GreSize, RequestLen)
            m == heap["client"]
            n == After(m, ops)
<1>1. /\ pc["client"] = "create" /\ heap' = [heap EXCEPT !["client"] = n]
      /\ pc' = [pc EXCEPT !["client"] = "send"] /\ sent' = sent /\ failed' = failed
  BY DEF ClientCreate, At, Goto, Do
<1>2. IsHeap(m) /\ Live(m) = {} /\ m.wrong = {} /\ "client" \notin failed
  BY <1>1, HeapsAre DEF ClientHolds
<1>3. n = With(m, "encrypt_packet", PacketSize)
  <2>. HIDE DEF m
  <2>. QED
    BY <1>2, ClientCreates
<1>4. /\ IsHeap(n) /\ Live(n) = {"encrypt_packet"} /\ n.size["encrypt_packet"] = PacketSize
      /\ n.wrong = {}
  <2>. HIDE DEF m
  <2>1. n = With(m, "encrypt_packet", PacketSize)
    BY <1>3
  <2>. HIDE DEF n
  <2>. QED
    BY <1>2, <2>1, WithFacts
<1>. HIDE DEF n
<1>5. ClientHolds(n, "send", "client" \in failed')
  BY <1>1, <1>2, <1>4 DEF ClientHolds
<1>6. sent' \in [Legs -> Nat] /\ SentFits'
  BY <1>1, SentAre
<1>. QED
  BY <1>1, <1>4, <1>5, <1>6, ProgramStep DEF Programs, Locations

LEMMA ClientSendStep ==
  ASSUME MemoryInv, ClientSend
  PROVE  MemoryInv'
<1>. DEFINE k == GetPacketSize(RequestLen)
            m == heap["client"]
            n == Without(m, "encrypt_packet")
<1>1. /\ pc["client"] = "send" /\ pc' = [pc EXCEPT !["client"] = "receive"]
      /\ \/ /\ heap' = [heap EXCEPT !["client"]
                          = After(m, <<Touch("encrypt_packet", k), Free("encrypt_packet")>>)]
            /\ sent' = [sent EXCEPT !["request"] = k] /\ failed' = failed
         \/ /\ heap' = [heap EXCEPT !["client"] = After(m, <<Touch("encrypt_packet", k)>>)]
            /\ failed' = failed \cup {"client"} /\ sent' = sent
  BY DEF ClientSend, At, Goto, Do, Sent, Fails
<1>2. /\ IsHeap(m) /\ m.wrong = {}
      /\ Live(m) = {"encrypt_packet"} /\ m.size["encrypt_packet"] = PacketSize
      /\ "client" \notin failed
  BY <1>1, HeapsAre DEF ClientHolds
<1>3. /\ After(m, <<Touch("encrypt_packet", k)>>) = m
      /\ After(m, <<Touch("encrypt_packet", k), Free("encrypt_packet")>>) = n
  <2>. HIDE DEF m
  <2>. QED
    BY <1>2, ClientSends
<1>4. IsHeap(n) /\ Live(n) = {} /\ n.wrong = {}
  <2>. HIDE DEF m
  <2>. QED
    BY <1>2, WithoutFacts
<1>5. sent' \in [Legs -> Nat] /\ SentFits'
  BY <1>1, SentAre
<1>. HIDE DEF m, n, k
<1>6. CASE /\ heap' = [heap EXCEPT !["client"]
                          = After(m, <<Touch("encrypt_packet", k), Free("encrypt_packet")>>)]
           /\ failed' = failed
  <2>1. ClientHolds(n, "receive", "client" \in failed')
    BY <1>2, <1>4, <1>6 DEF ClientHolds
  <2>. QED
    BY <1>1, <1>3, <1>4, <1>5, <1>6, <2>1, ProgramStep DEF Programs, Locations
<1>7. CASE /\ heap' = [heap EXCEPT !["client"] = After(m, <<Touch("encrypt_packet", k)>>)]
           /\ failed' = failed \cup {"client"}
  <2>1. ClientHolds(m, "receive", "client" \in failed')
    BY <1>2, <1>7 DEF ClientHolds
  <2>. QED
    BY <1>1, <1>2, <1>3, <1>5, <1>7, <2>1, ProgramStep DEF Programs, Locations
<1>. QED
  BY <1>1, <1>6, <1>7

LEMMA ClientReceiveStep ==
  ASSUME MemoryInv, ClientReceive
  PROVE  MemoryInv'
<1>. DEFINE m == heap["client"]
            got(k) == LET len == TextIn(k, HeaderSize, ReplyLen)
                      IN  After(m, ServRecFromCli(k, len) \o PrintPacket("decrypt_packet", GreSize, len)
                                   \o <<Free("decrypt_packet")>>)
            n == With(m, "new_rec_pkt", PacketSize)
<1>1. /\ pc["client"] = "receive"
      /\ \/ /\ \E k \in 0..sent["reply"] : heap' = [heap EXCEPT !["client"] = got(k)]
            /\ pc' = [pc EXCEPT !["client"] = "cleaned"] /\ sent' = sent /\ failed' = failed
         \/ /\ heap' = [heap EXCEPT !["client"] = After(m, ReceiveFailed(PacketSize))]
            /\ pc' = [pc EXCEPT !["client"] = "crashed"]
            /\ failed' = failed \cup {"client"} /\ sent' = sent
  BY DEF ClientReceive, At, Goto, Do, Fails
<1>2. /\ IsHeap(m) /\ m.wrong = {} /\ Live(m) \subseteq {"encrypt_packet"}
      /\ Live(m) = IF "client" \in failed THEN {"encrypt_packet"} ELSE {}
  BY <1>1, HeapsAre DEF ClientHolds
<1>3. \A k \in 0..sent["reply"] : got(k) = m
  <2>1. TAKE k \in 0..sent["reply"]
  <2>2. k \in Nat /\ k <= PacketSize
    <3>1. sent["reply"] \in Nat /\ sent["reply"] <= PacketSize
      BY HeapsAre DEF Legs, SentFits
    <3>. QED
      BY <3>1, Sizes
  <2>3. TextIn(k, HeaderSize, ReplyLen) \in 0..(MaxPayload - 1)
    <3>1. HeaderSize \in Nat /\ ReplyLen \in Nat
      BY Sizes
    <3>2. TextIn(k, HeaderSize, ReplyLen) \in 0..ReplyLen
      BY <2>2, <3>1, TextInFacts
    <3>. QED
      BY <3>2, Sizes
  <2>. HIDE DEF m
  <2>. QED
    BY <1>2, <2>2, <2>3, ClientReceives
<1>4. After(m, ReceiveFailed(PacketSize)) = n
  <2>. HIDE DEF m
  <2>. QED
    BY <1>2, ReceivesNothing, Sizes DEF Takes
<1>5. IsHeap(n) /\ n.wrong = {}
  <2>. HIDE DEF m
  <2>. QED
    BY <1>2, WithFacts
<1>6. sent' \in [Legs -> Nat] /\ SentFits'
  BY <1>1, SentAre
<1>. HIDE DEF m, n, got
<1>7. CASE /\ heap' = [heap EXCEPT !["client"] = m] /\ failed' = failed
           /\ pc' = [pc EXCEPT !["client"] = "cleaned"]
  <2>1. ClientHolds(m, "cleaned", "client" \in failed')
    BY <1>2, <1>7 DEF ClientHolds
  <2>. QED
    BY <1>2, <1>6, <1>7, <2>1, ProgramStep DEF Programs, Locations
<1>8. CASE /\ heap' = [heap EXCEPT !["client"] = n] /\ failed' = failed \cup {"client"}
           /\ pc' = [pc EXCEPT !["client"] = "crashed"]
  <2>1. ClientHolds(n, "crashed", "client" \in failed')
    BY <1>5 DEF ClientHolds
  <2>. QED
    BY <1>5, <1>6, <1>8, <2>1, ProgramStep DEF Programs, Locations
<1>. QED
  BY <1>1, <1>3, <1>4, <1>7, <1>8

LEMMA ServerReceiveStep ==
  ASSUME MemoryInv, ServerReceive
  PROVE  MemoryInv'
<1>. DEFINE m == heap["server"]
            got(k) == LET len == TextIn(k, HeaderSize, RequestLen)
                      IN  After(m, ServRecFromCli(k, len) \o PrintPacket("decrypt_packet", GreSize, len)
                                   \o ServHandlePkt("decrypt_packet"))
            d == With(m, "decrypt_packet", PacketSize)
            n == With(m, "new_rec_pkt", PacketSize)
<1>1. /\ pc["server"] = "receive"
      /\ \/ /\ \E k \in 0..sent["request"] : heap' = [heap EXCEPT !["server"] = got(k)]
            /\ pc' = [pc EXCEPT !["server"] = "dial"] /\ sent' = sent /\ failed' = failed
         \/ /\ heap' = [heap EXCEPT !["server"] = After(m, ReceiveFailed(PacketSize))]
            /\ pc' = [pc EXCEPT !["server"] = "returned"]
            /\ failed' = failed \cup {"server"} /\ sent' = sent
  BY DEF ServerReceive, At, Goto, Do, Fails
<1>2. IsHeap(m) /\ m.wrong \subseteq {TheOverrun} /\ Live(m) = {} /\ "server" \notin failed
  BY <1>1, HeapsAre DEF ServerHolds
<1>3. \A k \in 0..sent["request"] : got(k) = d
  <2>1. TAKE k \in 0..sent["request"]
  <2>2. k \in Nat /\ k <= PacketSize
    <3>1. sent["request"] \in Nat /\ sent["request"] <= PacketSize
      BY HeapsAre DEF Legs, SentFits
    <3>. QED
      BY <3>1, Sizes
  <2>3. TextIn(k, HeaderSize, RequestLen) \in 0..(MaxPayload - 1)
    <3>1. HeaderSize \in Nat /\ RequestLen \in Nat
      BY Sizes
    <3>2. TextIn(k, HeaderSize, RequestLen) \in 0..RequestLen
      BY <2>2, <3>1, TextInFacts
    <3>. QED
      BY <3>2, Sizes
  <2>. HIDE DEF m
  <2>. QED
    BY <1>2, <2>2, <2>3, ServerReceives
<1>4. After(m, ReceiveFailed(PacketSize)) = n
  <2>. HIDE DEF m
  <2>. QED
    BY <1>2, ReceivesNothing, Sizes DEF Takes
<1>5. /\ IsHeap(n) /\ n.wrong \subseteq {TheOverrun}
      /\ IsHeap(d) /\ d.wrong \subseteq {TheOverrun}
      /\ Live(d) = {"decrypt_packet"} /\ d.size["decrypt_packet"] = PacketSize
  <2>. HIDE DEF m
  <2>. QED
    BY <1>2, WithFacts
<1>6. sent' \in [Legs -> Nat] /\ SentFits'
  BY <1>1, SentAre
<1>. HIDE DEF m, n, d, got
<1>7. CASE /\ heap' = [heap EXCEPT !["server"] = d] /\ failed' = failed
           /\ pc' = [pc EXCEPT !["server"] = "dial"]
  <2>1. ServerHolds(d, "dial", "server" \in failed')
    BY <1>2, <1>5, <1>7 DEF ServerHolds
  <2>. QED
    BY <1>5, <1>6, <1>7, <2>1, ProgramStep DEF Programs, Locations
<1>8. CASE /\ heap' = [heap EXCEPT !["server"] = n] /\ failed' = failed \cup {"server"}
           /\ pc' = [pc EXCEPT !["server"] = "returned"]
  <2>1. ServerHolds(n, "returned", "server" \in failed')
    BY <1>5 DEF ServerHolds
  <2>. QED
    BY <1>5, <1>6, <1>8, <2>1, ProgramStep DEF Programs, Locations
<1>. QED
  BY <1>1, <1>3, <1>4, <1>7, <1>8

LEMMA ServerDialStep ==
  ASSUME MemoryInv, ServerDial
  PROVE  MemoryInv'
<1>. DEFINE m == heap["server"]
            n == With(m, "dest_ip", AddressSize)
<1>1. /\ pc["server"] = "dial" /\ sent' = sent
      /\ \/ /\ heap' = [heap EXCEPT !["server"] = After(m, Dial \o <<Free("dest_ip")>>)]
            /\ pc' = [pc EXCEPT !["server"] = "forward"] /\ failed' = failed
         \/ /\ heap' = [heap EXCEPT !["server"] = After(m, Dial)] \/ heap' = heap
            /\ pc' = [pc EXCEPT !["server"] = "returned"] /\ failed' = failed \cup {"server"}
  BY DEF ServerDial, At, Goto, Do, Fails, Dial
<1>2. /\ IsHeap(m) /\ m.wrong \subseteq {TheOverrun} /\ "server" \notin failed
      /\ Live(m) = {"decrypt_packet"} /\ m.size["decrypt_packet"] = PacketSize
  BY <1>1, HeapsAre DEF ServerHolds
<1>3. After(m, Dial \o <<Free("dest_ip")>>) = m /\ After(m, Dial) = n
  <2>. HIDE DEF m
  <2>. QED
    BY <1>2, Dials
<1>4. IsHeap(n) /\ n.wrong \subseteq {TheOverrun}
  <2>. HIDE DEF m
  <2>. QED
    BY <1>2, WithFacts
<1>5. sent' \in [Legs -> Nat] /\ SentFits'
  BY <1>1, SentAre
<1>6. heap = [heap EXCEPT !["server"] = m]
  BY DEF MemoryInv, Typed
<1>. HIDE DEF m, n
<1>7. CASE /\ heap' = [heap EXCEPT !["server"] = m] /\ failed' = failed
           /\ pc' = [pc EXCEPT !["server"] = "forward"]
  <2>1. ServerHolds(m, "forward", "server" \in failed')
    BY <1>2, <1>7 DEF ServerHolds
  <2>. QED
    BY <1>2, <1>5, <1>7, <2>1, ProgramStep DEF Programs, Locations
<1>8. CASE /\ heap' = [heap EXCEPT !["server"] = n] \/ heap' = [heap EXCEPT !["server"] = m]
           /\ pc' = [pc EXCEPT !["server"] = "returned"] /\ failed' = failed \cup {"server"}
  <2>1. /\ ServerHolds(n, "returned", "server" \in failed')
        /\ ServerHolds(m, "returned", "server" \in failed')
    BY <1>2, <1>4 DEF ServerHolds
  <2>. QED
    BY <1>2, <1>4, <1>5, <1>8, <2>1, ProgramStep DEF Programs, Locations
<1>. QED
  BY <1>1, <1>3, <1>6, <1>7, <1>8

LEMMA ServerForwardStep ==
  ASSUME MemoryInv, ServerForward
  PROVE  MemoryInv'
<1>. DEFINE m == heap["server"]
            n == Without(m, "decrypt_packet")
            touch == Touch("decrypt_packet", GreSize + BareSize)
<1>1. /\ pc["server"] = "forward"
      /\ \/ /\ heap' = [heap EXCEPT !["server"] = After(m, <<touch, Free("decrypt_packet")>>)]
            /\ pc' = [pc EXCEPT !["server"] = "receiveReply"]
            /\ sent' = [sent EXCEPT !["forward"] = BareSize] /\ failed' = failed
         \/ /\ heap' = [heap EXCEPT !["server"] = After(m, <<touch>>)]
            /\ pc' = [pc EXCEPT !["server"] = "returned"]
            /\ failed' = failed \cup {"server"} /\ sent' = sent
  BY DEF ServerForward, At, Goto, Do, Sent, Fails
<1>2. /\ IsHeap(m) /\ m.wrong \subseteq {TheOverrun} /\ "server" \notin failed
      /\ Live(m) = {"decrypt_packet"} /\ m.size["decrypt_packet"] = PacketSize
  BY <1>1, HeapsAre DEF ServerHolds
<1>3. After(m, <<touch>>) = m /\ After(m, <<touch, Free("decrypt_packet")>>) = n
  <2>. HIDE DEF m
  <2>. QED
    BY <1>2, Forwards
<1>4. IsHeap(n) /\ Live(n) = {} /\ n.wrong \subseteq {TheOverrun}
  <2>. HIDE DEF m
  <2>. QED
    BY <1>2, WithoutFacts
<1>5. sent' \in [Legs -> Nat] /\ SentFits'
  BY <1>1, SentAre
<1>. HIDE DEF m, n, touch
<1>6. CASE /\ heap' = [heap EXCEPT !["server"] = n] /\ failed' = failed
           /\ pc' = [pc EXCEPT !["server"] = "receiveReply"]
  <2>1. ServerHolds(n, "receiveReply", "server" \in failed')
    BY <1>2, <1>4, <1>6 DEF ServerHolds
  <2>. QED
    BY <1>4, <1>5, <1>6, <2>1, ProgramStep DEF Programs, Locations
<1>7. CASE /\ heap' = [heap EXCEPT !["server"] = m] /\ failed' = failed \cup {"server"}
           /\ pc' = [pc EXCEPT !["server"] = "returned"]
  <2>1. ServerHolds(m, "returned", "server" \in failed')
    BY <1>2 DEF ServerHolds
  <2>. QED
    BY <1>2, <1>5, <1>7, <2>1, ProgramStep DEF Programs, Locations
<1>. QED
  BY <1>1, <1>3, <1>6, <1>7

LEMMA ServerReceiveReplyStep ==
  ASSUME MemoryInv, ServerReceiveReply
  PROVE  MemoryInv'
<1>. DEFINE m == heap["server"]
            text(k) == TextIn(k, BareHeaderSize, ReplyLen)
            sentOn(k) == After(m, Prepare(k, text(k)) \o ServCliFree \o Clean)
            notSent(k) == After(m, Prepare(k, text(k)) \o Clean)
            e == After(m, ReceiveFailed(PacketSize) \o <<Alloc("enc_pkt", PacketSize)>>)
<1>1. /\ pc["server"] = "receiveReply"
      /\ \/ /\ \E k \in 0..sent["response"] :
                 \/ /\ heap' = [heap EXCEPT !["server"] = sentOn(k)]
                    /\ sent' = [sent EXCEPT !["reply"] = GetPacketSize(text(k))]
                    /\ failed' = failed
                 \/ /\ heap' = [heap EXCEPT !["server"] = notSent(k)]
                    /\ failed' = failed \cup {"server"} /\ sent' = sent
            /\ pc' = [pc EXCEPT !["server"] = "cleaned"]
         \/ /\ heap' = [heap EXCEPT !["server"] = e]
            /\ pc' = [pc EXCEPT !["server"] = "crashed"]
            /\ failed' = failed \cup {"server"} /\ sent' = sent
  BY DEF ServerReceiveReply, ServerReply, At, Goto, Do, Sent, Fails, Prepare, Clean
<1>2. IsHeap(m) /\ m.wrong \subseteq {TheOverrun} /\ Live(m) = {} /\ "server" \notin failed
  BY <1>1, HeapsAre DEF ServerHolds
<1>3. \A k \in 0..sent["response"] :
        /\ text(k) \in 0..(MaxPayload - 1)
        /\ IsHeap(sentOn(k)) /\ Live(sentOn(k)) = {} /\ sentOn(k).wrong \subseteq {TheOverrun}
        /\ IsHeap(notSent(k)) /\ Live(notSent(k)) = {"enc_pkt", "encrypt_packet"}
        /\ notSent(k).wrong \subseteq {TheOverrun}
  <2>1. TAKE k \in 0..sent["response"]
  <2>2. k \in Nat /\ k <= PacketSize
    <3>1. sent["response"] \in Nat /\ sent["response"] <= PacketSize
      BY HeapsAre DEF Legs, SentFits
    <3>. QED
      BY <3>1, Sizes
  <2>3. text(k) \in 0..(MaxPayload - 1)
    <3>1. BareHeaderSize \in Nat /\ ReplyLen \in Nat
      BY Sizes
    <3>2. text(k) \in 0..ReplyLen
      BY <2>2, <3>1, TextInFacts
    <3>. HIDE DEF text
    <3>. QED
      BY <3>2, Sizes
  <2>. HIDE DEF m, text
  <2>4. /\ IsHeap(sentOn(k)) /\ Live(sentOn(k)) = {} /\ sentOn(k).wrong = m.wrong \cup {TheOverrun}
        /\ IsHeap(notSent(k)) /\ Live(notSent(k)) = {"enc_pkt", "encrypt_packet"}
        /\ notSent(k).wrong = m.wrong \cup {TheOverrun}
    BY <1>2, <2>2, <2>3, Replies
  <2>. HIDE DEF sentOn, notSent
  <2>. QED
    BY <1>2, <2>3, <2>4
<1>4. IsHeap(e) /\ e.wrong \subseteq {TheOverrun}
  <2>. DEFINE r == With(m, "new_rec_pkt", PacketSize)
              s == With(r, "enc_pkt", PacketSize)
  <2>. HIDE DEF m
  <2>1. Takes(m, ReceiveFailed(PacketSize), r)
    BY <1>2, ReceivesNothing, Sizes
  <2>2. IsHeap(r) /\ Live(r) = {"new_rec_pkt"} /\ r.wrong = m.wrong
    BY <1>2, WithFacts
  <2>. HIDE DEF r
  <2>3. Takes(r, <<Alloc("enc_pkt", PacketSize)>>, s)
    BY <2>2, TakesAlloc, Sizes DEF Buffers
  <2>4. IsHeap(s) /\ s.wrong = m.wrong
    BY <2>2, WithFacts
  <2>. HIDE DEF s
  <2>5. Takes(m, ReceiveFailed(PacketSize) \o <<Alloc("enc_pkt", PacketSize)>>, s)
    BY <2>1, <2>3, Chain
  <2>. QED
    BY <1>2, <2>4, <2>5 DEF Takes
<1>5. sent' \in [Legs -> Nat] /\ SentFits'
  <2>1. sent' = sent \/ \E n \in 0..(MaxPayload - 1) : sent' = [sent EXCEPT !["reply"] = GetPacketSize(n)]
    <3>. HIDE DEF text, sentOn, notSent, e
    <3>. QED
      BY <1>1, <1>3
  <2>. QED
    BY <2>1, SentAre
<1>. HIDE DEF m, text, sentOn, notSent, e
<1>6. ASSUME NEW n, IsHeap(n), n.wrong \subseteq {TheOverrun},
             heap' = [heap EXCEPT !["server"] = n], failed' \in {failed, failed \cup {"server"}},
             NEW at \in {"cleaned", "crashed"},
             at = "cleaned" =>
               Live(n) = IF "server" \in failed' THEN {"enc_pkt", "encrypt_packet"} ELSE {},
             pc' = [pc EXCEPT !["server"] = at]
      PROVE  MemoryInv'
  <2>1. ServerHolds(n, at, "server" \in failed')
    BY <1>6 DEF ServerHolds
  <2>. QED
    BY <1>5, <1>6, <2>1, ProgramStep DEF Programs, Locations
<1>7. ASSUME NEW k \in 0..sent["response"], heap' = [heap EXCEPT !["server"] = sentOn(k)],
             failed' = failed, pc' = [pc EXCEPT !["server"] = "cleaned"]
      PROVE  MemoryInv'
  <2>1. IsHeap(sentOn(k)) /\ Live(sentOn(k)) = {} /\ sentOn(k).wrong \subseteq {TheOverrun}
    BY <1>3
  <2>. QED
    BY <1>2, <1>6, <1>7, <2>1
<1>8. ASSUME NEW k \in 0..sent["response"], heap' = [heap EXCEPT !["server"] = notSent(k)],
             failed' = failed \cup {"server"}, pc' = [pc EXCEPT !["server"] = "cleaned"]
      PROVE  MemoryInv'
  <2>1. /\ IsHeap(notSent(k)) /\ Live(notSent(k)) = {"enc_pkt", "encrypt_packet"}
        /\ notSent(k).wrong \subseteq {TheOverrun}
    BY <1>3
  <2>. QED
    BY <1>6, <1>8, <2>1
<1>9. ASSUME heap' = [heap EXCEPT !["server"] = e], failed' = failed \cup {"server"},
             pc' = [pc EXCEPT !["server"] = "crashed"]
      PROVE  MemoryInv'
  BY <1>4, <1>6, <1>9
<1>. QED
  BY <1>1, <1>7, <1>8, <1>9

LEMMA DestReceiveStep ==
  ASSUME MemoryInv, DestReceive
  PROVE  MemoryInv'
<1>. DEFINE m == heap["destination"]
            got(k) == After(m,
              DestRecPkt(k) \o PrintPacket("rec_packet", 0, TextIn(k, BareHeaderSize, RequestLen))
              \o <<Alloc("client_ip_str", AddressSize), Touch("client_ip_str", AddressSize)>>
              \o CreatePacketsDes("response_pkt", ReplyLen)
              \o PrintPacket("response_pkt", GreSize, ReplyLen))
            n == With(m, "new_rec_pkt", BareSize)
<1>1. /\ pc["destination"] = "receive" /\ sent' = sent
      /\ \/ /\ \E k \in 0..sent["forward"] : heap' = [heap EXCEPT !["destination"] = got(k)]
            /\ pc' = [pc EXCEPT !["destination"] = "reply"] /\ failed' = failed
         \/ /\ heap' = [heap EXCEPT !["destination"] = After(m, ReceiveFailed(BareSize))]
            /\ pc' = [pc EXCEPT !["destination"] = "returned"]
            /\ failed' = failed \cup {"destination"}
  BY DEF DestReceive, At, Goto, Do, Fails
<1>2. IsHeap(m) /\ m.wrong = {} /\ Live(m) = {}
  BY <1>1, HeapsAre DEF DestHolds
<1>3. \A k \in 0..sent["forward"] :
        /\ IsHeap(got(k)) /\ Live(got(k)) = {"rec_packet", "client_ip_str", "response_pkt"}
        /\ got(k).size["response_pkt"] = PacketSize /\ got(k).wrong = {}
  <2>1. TAKE k \in 0..sent["forward"]
  <2>2. k \in Nat /\ k <= BareSize
    <3>1. sent["forward"] \in Nat /\ sent["forward"] <= BareSize
      BY HeapsAre DEF Legs, SentFits
    <3>. QED
      BY <3>1, Sizes
  <2>3. TextIn(k, BareHeaderSize, RequestLen) \in 0..RequestLen
    <3>1. BareHeaderSize \in Nat /\ RequestLen \in Nat
      BY Sizes
    <3>. QED
      BY <2>2, <3>1, TextInFacts
  <2>. HIDE DEF m
  <2>. QED
    BY <1>2, <2>2, <2>3, DestReceives
<1>4. After(m, ReceiveFailed(BareSize)) = n
  <2>. HIDE DEF m
  <2>. QED
    BY <1>2, ReceivesNothing, Sizes DEF Takes
<1>5. IsHeap(n) /\ n.wrong = {}
  <2>. HIDE DEF m
  <2>. QED
    BY <1>2, WithFacts
<1>6. sent' \in [Legs -> Nat] /\ SentFits'
  BY <1>1, SentAre
<1>. HIDE DEF m, n, got
<1>7. CASE /\ \E k \in 0..sent["forward"] : heap' = [heap EXCEPT !["destination"] = got(k)]
           /\ failed' = failed /\ pc' = [pc EXCEPT !["destination"] = "reply"]
  <2>1. PICK k \in 0..sent["forward"] : heap' = [heap EXCEPT !["destination"] = got(k)]
    BY <1>7
  <2>2. DestHolds(got(k), "reply")
    BY <1>3 DEF DestHolds
  <2>. QED
    BY <1>3, <1>6, <1>7, <2>1, <2>2, ProgramStep DEF Programs, Locations
<1>8. CASE /\ heap' = [heap EXCEPT !["destination"] = n] /\ failed' = failed \cup {"destination"}
           /\ pc' = [pc EXCEPT !["destination"] = "returned"]
  <2>1. DestHolds(n, "returned")
    BY <1>5 DEF DestHolds
  <2>. QED
    BY <1>5, <1>6, <1>8, <2>1, ProgramStep DEF Programs, Locations
<1>. QED
  BY <1>1, <1>4, <1>7, <1>8

LEMMA DestReplyStep ==
  ASSUME MemoryInv, DestReply
  PROVE  MemoryInv'
<1>. DEFINE m == heap["destination"]
            k == GetPacketSize(ReplyLen)
            send == <<Touch("response_pkt", GreSize + k)>>
            n == After(m, send \o <<Free("rec_packet"), Free("response_pkt"), Free("client_ip_str")>>)
<1>1. /\ pc["destination"] = "reply"
      /\ \/ /\ heap' = [heap EXCEPT !["destination"] = n]
            /\ pc' = [pc EXCEPT !["destination"] = "cleaned"]
            /\ sent' = [sent EXCEPT !["response"] = k] /\ failed' = failed
         \/ /\ heap' = [heap EXCEPT !["destination"] = After(m, send)]
            /\ pc' = [pc EXCEPT !["destination"] = "returned"]
            /\ failed' = failed \cup {"destination"} /\ sent' = sent
  BY DEF DestReply, At, Goto, Do, Sent, Fails
<1>2. /\ IsHeap(m) /\ m.wrong = {} /\ m.size["response_pkt"] = PacketSize
      /\ Live(m) = {"rec_packet", "client_ip_str", "response_pkt"}
  BY <1>1, HeapsAre DEF DestHolds
<1>3. After(m, send) = m /\ IsHeap(n) /\ Live(n) = {} /\ n.wrong = {}
  <2>. HIDE DEF m
  <2>. QED
    BY <1>2, DestReplies
<1>4. sent' \in [Legs -> Nat] /\ SentFits'
  BY <1>1, SentAre
<1>. HIDE DEF m, n, send
<1>5. CASE /\ heap' = [heap EXCEPT !["destination"] = n] /\ failed' = failed
           /\ pc' = [pc EXCEPT !["destination"] = "cleaned"]
  <2>1. DestHolds(n, "cleaned")
    BY <1>3 DEF DestHolds
  <2>. QED
    BY <1>3, <1>4, <1>5, <2>1, ProgramStep DEF Programs, Locations
<1>6. CASE /\ heap' = [heap EXCEPT !["destination"] = m] /\ failed' = failed \cup {"destination"}
           /\ pc' = [pc EXCEPT !["destination"] = "returned"]
  <2>1. DestHolds(m, "returned")
    BY <1>2 DEF DestHolds
  <2>. QED
    BY <1>2, <1>4, <1>6, <2>1, ProgramStep DEF Programs, Locations
<1>. QED
  BY <1>1, <1>3, <1>5, <1>6

-----------------------------------------------------------------------------
(* The theorems *)

\* The invariant holds when the programs start, and every step of each keeps it.
THEOREM BuffersHeld == MemorySpec => []MemoryInv
<1>1. Init => MemoryInv
  <2>. SUFFICES ASSUME Init PROVE MemoryInv
    OBVIOUS
  <2>1. \A p \in Programs : /\ heap[p].size = [b \in {} |-> 0] /\ heap[p].wrong = {}
                            /\ heap[p] = [size |-> heap[p].size, wrong |-> heap[p].wrong]
    BY DEF Init
  <2>2. \A p \in Programs : IsHeap(heap[p]) /\ Live(heap[p]) = {}
    BY <2>1 DEF IsHeap, Live
  <2>3. /\ pc \in [Programs -> Locations] /\ heap = [p \in Programs |-> heap[p]]
        /\ pc["client"] = "create" /\ pc["server"] = "receive" /\ pc["destination"] = "receive"
    BY DEF Init, Programs, Locations
  <2>4. sent \in [Legs -> Nat] /\ failed = {} /\ \A l \in Legs : sent[l] = 0
    BY DEF Init
  <2>5. SentFits
    BY <2>4, Sizes DEF SentFits, Legs
  <2>. QED
    BY <2>1, <2>2, <2>3, <2>4, <2>5
       DEF MemoryInv, Typed, ClientHolds, ServerHolds, DestHolds, Programs
<1>2. MemoryInv /\ [Next]_memoryVars => MemoryInv'
  <2>. SUFFICES ASSUME MemoryInv, [Next]_memoryVars PROVE MemoryInv'
    OBVIOUS
  <2>1. CASE UNCHANGED memoryVars
    BY <2>1 DEF memoryVars, MemoryInv, Typed, SentFits
  <2>2. CASE Next
    BY <2>2, ClientCreateStep, ClientSendStep, ClientReceiveStep, ServerReceiveStep, ServerDialStep,
       ServerForwardStep, ServerReceiveReplyStep, DestReceiveStep, DestReplyStep DEF Next
  <2>. QED
    BY <2>1, <2>2
<1>. QED
  BY <1>1, <1>2, PTL DEF MemorySpec

\* For any sizes of the payload and of the messages, and whatever the system calls return,
\* no program touches or frees what is not live, and the only byte touched outside of a
\* buffer is the 0 behind the server's reply (packet.c:219).
THEOREM OneByteOutside == MemorySpec => []OnlyTheTerminator
<1>1. MemoryInv => OnlyTheTerminator
  BY DEF MemoryInv, ClientHolds, ServerHolds, DestHolds, OnlyTheTerminator, TheOverrun, Programs
<1>. QED
  BY <1>1, BuffersHeld, PTL

\* For any of these sizes, a program that comes to its end has nothing allocated but, when
\* its send has failed, the packets of it.
THEOREM NothingElseLeaks == MemorySpec => []LosesOnlyUnsent
<1>1. MemoryInv => LosesOnlyUnsent
  BY DEF MemoryInv, ClientHolds, ServerHolds, DestHolds, LosesOnlyUnsent, Unsent, Live, Programs
<1>. QED
  BY <1>1, BuffersHeld, PTL

=============================================================================

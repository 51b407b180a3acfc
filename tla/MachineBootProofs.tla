------------------------- MODULE MachineBootProofs -------------------------
(***************************************************************************)
(* For any machine, any sizes of the entries of the table and any size of  *)
(* the device: the guest finds what was registered, and no read leaves the *)
(* device.  For any packets and any width of the integers: no conversion   *)
(* of a flat number divides by zero, and where the numbers fit the         *)
(* work-items cover the range, each point once.                            *)
(***************************************************************************)
EXTENDS MachineBoot, FiniteSetTheorems, SequenceTheorems, TLAPS

USE TopologyAssumption

----------------------------------------------------------------------------
(* The table *)

\* What a byte of the device is not: the answer outside of it.
Inside(byte) == byte[1] # "outside"

Bytes(s) == \E S : s \in Seq(S) /\ \A b \in S : Inside(b)

LEMMA HeaderTotal ==
  ASSUME Len(agents) \in Nat, Len(regions) \in Nat, Len(links) \in Nat
  PROVE  Header.total_size \in Nat \ {0}
<1>1. header_size \in Nat \ {0} /\ agent_size * Len(agents) \in Nat
      /\ region_size * Len(regions) \in Nat /\ link_size * Len(links) \in Nat
  OBVIOUS
<1>2. Header.total_size = header_size + agent_size * Len(agents)
                            + region_size * Len(regions) + link_size * Len(links)
  BY DEF Header
<1> DEFINE a == agent_size * Len(agents)
           r == region_size * Len(regions)
           l == link_size * Len(links)
<1>3. a \in Nat /\ r \in Nat /\ l \in Nat /\ Header.total_size = header_size + a + r + l
  BY <1>1, <1>2
<1> HIDE DEF a, r, l
<1> QED BY <1>1, <1>3

\* The bytes of the entries are in the list from an offset on.
EntriesAt(list, base, kind, entries, size) ==
    \A k \in 1 .. Len(entries), j \in 0 .. size - 1 :
        /\ base + (size * (k - 1) + j + 1) \in 1 .. Len(list)
        /\ list[base + (size * (k - 1) + j + 1)] = <<kind, entries[k], j>>

\* Entries of one size laid out one after the other.
LEMMA CopiedBytes ==
  ASSUME NEW kind, kind # "outside", NEW entries, Len(entries) \in Nat, NEW size \in Nat \ {0}
  PROVE  /\ Bytes(Copied(kind, entries, size))
         /\ Len(Copied(kind, entries, size)) = size * Len(entries)
         /\ EntriesAt(Copied(kind, entries, size), 0, kind, entries, size)
<1> DEFINE n == Len(entries) * size
           c == Copied(kind, entries, size)
           S == {<<kind, entries[(b - 1) \div size + 1], (b - 1) % size>> : b \in 1 .. n}
<1>1. n \in Nat /\ n = size * Len(entries)
  OBVIOUS
<1>2. c = [b \in 1 .. n |-> <<kind, entries[(b - 1) \div size + 1], (b - 1) % size>>]
  BY DEF Copied
<1> HIDE DEF n
<1>3. c \in [1 .. n -> S]
  BY <1>2
<1>4. c \in Seq(S) /\ Len(c) = n
  <2> HIDE DEF c, S
  <2> QED BY <1>1, <1>3
<1>5. \A b \in S : Inside(b)
  BY DEF Inside
<1>6. ASSUME NEW k \in 1 .. Len(entries), NEW j \in 0 .. size - 1
      PROVE  /\ size * (k - 1) + j + 1 \in 1 .. n
             /\ c[size * (k - 1) + j + 1] = <<kind, entries[k], j>>
  <2> DEFINE m == size * (k - 1) + j
  <2>1. m \in Nat /\ m < n
    <3>1. k - 1 \in Nat /\ k - 1 <= Len(entries) - 1
      OBVIOUS
    <3>2. size * (k - 1) <= size * (Len(entries) - 1)
      BY <3>1
    <3> QED BY <1>1, <3>1, <3>2
  <2>2. m \div size = k - 1 /\ m % size = j
    OBVIOUS
  <2> HIDE DEF m
  <2>3. m + 1 \in 1 .. n /\ (m + 1) - 1 = m
    BY <1>1, <2>1
  <2>4. c[m + 1] = <<kind, entries[((m + 1) - 1) \div size + 1], ((m + 1) - 1) % size>>
    BY <1>2, <2>3
  <2>5. (k - 1) + 1 = k
    OBVIOUS
  <2>6. c[m + 1] = <<kind, entries[k], j>>
    BY <2>2, <2>3, <2>4, <2>5
  <2> QED BY <2>3, <2>6 DEF m
<1>7. Bytes(c)
  BY <1>4, <1>5 DEF Bytes
<1>8. EntriesAt(c, 0, kind, entries, size)
  <2> SUFFICES ASSUME NEW k \in 1 .. Len(entries), NEW j \in 0 .. size - 1
               PROVE  /\ 0 + (size * (k - 1) + j + 1) \in 1 .. Len(c)
                      /\ c[0 + (size * (k - 1) + j + 1)] = <<kind, entries[k], j>>
    BY DEF EntriesAt
  <2>1. 0 + (size * (k - 1) + j + 1) = size * (k - 1) + j + 1
    BY <1>6
  <2> HIDE DEF c
  <2> QED BY <1>4, <1>6, <2>1
<1>9. Len(c) = size * Len(entries)
  BY <1>1, <1>4
<1> QED BY <1>7, <1>8, <1>9

\* Two parts of the table, one after the other.
LEMMA TwoParts ==
  ASSUME NEW s, NEW t, Bytes(s), Bytes(t)
  PROVE  /\ Bytes(s \o t) /\ Len(s) \in Nat /\ Len(t) \in Nat
         /\ Len(s \o t) = Len(s) + Len(t)
         /\ \A b \in 1 .. Len(s) : (s \o t)[b] = s[b]
         /\ \A b \in 1 .. Len(t) : (s \o t)[Len(s) + b] = t[b]
<1>1. PICK S : s \in Seq(S) /\ \A b \in S : Inside(b)
  BY DEF Bytes
<1>2. PICK T : t \in Seq(T) /\ \A b \in T : Inside(b)
  BY DEF Bytes
<1> DEFINE U == S \cup T
<1>3. s \in Seq(U) /\ t \in Seq(U) /\ \A b \in U : Inside(b)
  BY <1>1, <1>2
<1> HIDE DEF U
<1>4. s \o t \in Seq(U) /\ Len(s \o t) = Len(s) + Len(t) /\ Len(s) \in Nat /\ Len(t) \in Nat
  BY <1>3
<1>5. /\ \A b \in 1 .. Len(s) : (s \o t)[b] = s[b]
      /\ \A b \in 1 .. Len(t) : (s \o t)[Len(s) + b] = t[b]
  BY <1>3, <1>4
<1> QED BY <1>3, <1>4, <1>5 DEF Bytes

AmountsOK == Len(agents) \in Nat /\ Len(regions) \in Nat /\ Len(links) \in Nat

RegionsAt == header_size + agent_size * Len(agents)
LinksAt == RegionsAt + region_size * Len(regions)

\* The entries are where the header says (gen_topology).
LEMMA TableBytes ==
  ASSUME AmountsOK
  PROVE  /\ Bytes(gen_topology) /\ Len(gen_topology) = Header.total_size
         /\ EntriesAt(gen_topology, header_size, "agent", agents, agent_size)
         /\ EntriesAt(gen_topology, RegionsAt, "region", regions, region_size)
         /\ EntriesAt(gen_topology, LinksAt, "link", links, link_size)
<1> DEFINE H == Copied("header", <<Header>>, header_size)
           A == Copied("agent", agents, agent_size)
           R == Copied("region", regions, region_size)
           L == Copied("link", links, link_size)
           a == agent_size * Len(agents)
           r == region_size * Len(regions)
           l == link_size * Len(links)
<1>1. /\ header_size \in Nat \ {0} /\ agent_size \in Nat \ {0}
      /\ region_size \in Nat \ {0} /\ link_size \in Nat \ {0}
  OBVIOUS
<1>2. Bytes(H) /\ Len(H) = header_size
  <2>1. Len(<<Header>>) = 1
    OBVIOUS
  <2>2. Bytes(H) /\ Len(H) = header_size * Len(<<Header>>)
    BY <1>1, <2>1, CopiedBytes
  <2> QED BY <1>1, <2>1, <2>2
<1>3. /\ Bytes(A) /\ Len(A) = a
      /\ EntriesAt(A, 0, "agent", agents, agent_size)
  BY <1>1, CopiedBytes DEF AmountsOK
<1>4. /\ Bytes(R) /\ Len(R) = r
      /\ EntriesAt(R, 0, "region", regions, region_size)
  BY <1>1, CopiedBytes DEF AmountsOK
<1>5. /\ Bytes(L) /\ Len(L) = l
      /\ EntriesAt(L, 0, "link", links, link_size)
  BY <1>1, CopiedBytes DEF AmountsOK
<1>6. gen_topology = ((H \o A) \o R) \o L
  BY DEF gen_topology
<1>7. /\ a \in Nat /\ r \in Nat /\ l \in Nat
      /\ RegionsAt = header_size + a /\ LinksAt = header_size + a + r
      /\ Header.total_size = header_size + a + r + l
  BY <1>1 DEF AmountsOK, RegionsAt, LinksAt, Header
<1> HIDE DEF H, A, R, L, a, r, l
<1>8. /\ Bytes(H \o A) /\ Len(H \o A) = header_size + a
      /\ \A b \in 1 .. a : (H \o A)[header_size + b] = A[b]
  BY <1>2, <1>3, TwoParts
<1>9. /\ Bytes((H \o A) \o R) /\ Len((H \o A) \o R) = header_size + a + r
      /\ \A b \in 1 .. header_size + a : ((H \o A) \o R)[b] = (H \o A)[b]
      /\ \A b \in 1 .. r : ((H \o A) \o R)[header_size + a + b] = R[b]
  BY <1>4, <1>8, TwoParts
<1> DEFINE T == ((H \o A) \o R) \o L
<1>10. /\ Bytes(T) /\ Len(T) = header_size + a + r + l
       /\ \A b \in 1 .. header_size + a + r : T[b] = ((H \o A) \o R)[b]
       /\ \A b \in 1 .. l : T[header_size + a + r + b] = L[b]
  <2> DEFINE S == (H \o A) \o R
  <2>1. Bytes(S) /\ Len(S) = header_size + a + r
    BY <1>9
  <2> HIDE DEF S
  <2>2. /\ Bytes(S \o L) /\ Len(S \o L) = Len(S) + Len(L)
        /\ \A b \in 1 .. Len(S) : (S \o L)[b] = S[b]
        /\ \A b \in 1 .. Len(L) : (S \o L)[Len(S) + b] = L[b]
    BY <1>5, <2>1, TwoParts
  <2> QED BY <1>5, <2>1, <2>2 DEF S
<1>11. ASSUME NEW base, NEW list, NEW kind, NEW entries, NEW size \in Nat, Len(entries) \in Nat,
              Len(list) \in Nat, EntriesAt(list, 0, kind, entries, size), base \in Nat,
              \A b \in 1 .. Len(list) : base + b \in 1 .. Len(T) /\ T[base + b] = list[b]
       PROVE  EntriesAt(T, base, kind, entries, size)
  <2> SUFFICES ASSUME NEW k \in 1 .. Len(entries), NEW j \in 0 .. size - 1
               PROVE  /\ base + (size * (k - 1) + j + 1) \in 1 .. Len(T)
                      /\ T[base + (size * (k - 1) + j + 1)] = <<kind, entries[k], j>>
    BY DEF EntriesAt
  <2> DEFINE b == size * (k - 1) + j + 1
  <2>1. 0 + b \in 1 .. Len(list) /\ list[0 + b] = <<kind, entries[k], j>>
    BY <1>11 DEF EntriesAt
  <2>2. b \in Int
    OBVIOUS
  <2> HIDE DEF b, T
  <2>3. b \in 1 .. Len(list) /\ list[b] = <<kind, entries[k], j>>
    BY <2>1, <2>2
  <2>4. base + b \in 1 .. Len(T) /\ T[base + b] = <<kind, entries[k], j>>
    BY <1>11, <2>3
  <2> QED BY <2>4 DEF b
<1>12. ASSUME NEW b \in 1 .. a PROVE header_size + b \in 1 .. Len(T) /\ T[header_size + b] = A[b]
  <2>1. header_size + b \in 1 .. header_size + a /\ header_size + b \in 1 .. header_size + a + r
    BY <1>1, <1>7
  <2> QED BY <1>1, <1>7, <1>8, <1>9, <1>10, <2>1
<1>13. ASSUME NEW b \in 1 .. r PROVE RegionsAt + b \in 1 .. Len(T) /\ T[RegionsAt + b] = R[b]
  <2>1. header_size + a + b \in 1 .. header_size + a + r
    BY <1>1, <1>7
  <2> DEFINE x == header_size + a + b
  <2> HIDE DEF T
  <2>2. ((H \o A) \o R)[x] = R[b]
    BY <1>9
  <2>3. T[x] = ((H \o A) \o R)[x]
    BY <1>10, <2>1
  <2>4. RegionsAt + b = x /\ Len(T) = header_size + a + r + l
    BY <1>7, <1>10
  <2>5. x \in 1 .. header_size + a + r + l
    BY <1>1, <1>7, <2>1
  <2> QED BY <2>2, <2>3, <2>4, <2>5
<1>14. ASSUME NEW b \in 1 .. l PROVE LinksAt + b \in 1 .. Len(T) /\ T[LinksAt + b] = L[b]
  <2>1. header_size + a + r + b \in 1 .. header_size + a + r + l
    BY <1>1, <1>7
  <2> QED BY <1>1, <1>7, <1>10, <2>1
<1>15. gen_topology = T
  BY <1>6
<1> HIDE DEF T
<1>16. EntriesAt(T, header_size, "agent", agents, agent_size)
  BY <1>1, <1>3, <1>7, <1>11, <1>12 DEF AmountsOK
<1>17. EntriesAt(T, RegionsAt, "region", regions, region_size)
  <2>1. RegionsAt \in Nat
    BY <1>1, <1>7
  <2>2. Len(regions) \in Nat /\ Len(R) \in Nat
    BY <1>4, <1>7 DEF AmountsOK
  <2>3. \A b \in 1 .. Len(R) : RegionsAt + b \in 1 .. Len(T) /\ T[RegionsAt + b] = R[b]
    BY <1>4, <1>13
  <2> QED BY <1>1, <1>4, <1>11, <2>1, <2>2, <2>3
<1>18. EntriesAt(T, LinksAt, "link", links, link_size)
  <2>1. LinksAt \in Nat
    BY <1>1, <1>7
  <2>2. Len(links) \in Nat /\ Len(L) \in Nat
    BY <1>5, <1>7 DEF AmountsOK
  <2>3. \A b \in 1 .. Len(L) : LinksAt + b \in 1 .. Len(T) /\ T[LinksAt + b] = L[b]
    BY <1>5, <1>14
  <2> QED BY <1>1, <1>5, <1>11, <2>1, <2>2, <2>3
<1> QED BY <1>7, <1>10, <1>15, <1>16, <1>17, <1>18

\* The device's memory, of which the table is the beginning.
LEMMA DeviceBytes ==
  ASSUME AmountsOK, TableFits, NEW d,
         d = gen_topology \o [b \in 1 .. HSA_MMIO_SIZE - Len(gen_topology) |-> Zero]
  PROVE  /\ Bytes(d) /\ Len(d) = HSA_MMIO_SIZE
         /\ \A b \in 1 .. Header.total_size : d[b] = gen_topology[b]
<1> DEFINE n == HSA_MMIO_SIZE - Len(gen_topology)
           zeros == [b \in 1 .. n |-> Zero]
<1>1. Bytes(gen_topology) /\ Len(gen_topology) = Header.total_size
  BY TableBytes
<1>2. n \in Nat /\ Header.total_size \in Nat
  BY <1>1, HeaderTotal DEF AmountsOK, TableFits
<1>3. Bytes(zeros) /\ Len(zeros) = n
  <2>1. zeros \in Seq({Zero}) /\ Len(zeros) = n
    <3> DEFINE S == {Zero}
    <3>1. zeros \in [1 .. n -> S]
      OBVIOUS
    <3>2. n \in Nat
      BY <1>2
    <3> HIDE DEF zeros, n, S
    <3>3. zeros \in Seq(S)
      BY <3>1, <3>2
    <3>4. DOMAIN zeros = 1 .. n
      BY <3>1
    <3>5. Len(zeros) \in Nat /\ DOMAIN zeros = 1 .. Len(zeros)
      BY <3>3
    <3> QED BY <3>2, <3>3, <3>4, <3>5 DEF S
  <2>2. Inside(Zero)
    BY DEF Inside, Zero
  <2> DEFINE S == {Zero}
  <2>3. zeros \in Seq(S) /\ \A b \in S : Inside(b)
    BY <2>1, <2>2
  <2> HIDE DEF S, zeros
  <2>4. Bytes(zeros)
    BY <2>3 DEF Bytes
  <2> QED BY <2>1, <2>4
<1>4. n + Header.total_size = HSA_MMIO_SIZE
  BY <1>1, <1>2
<1> HIDE DEF n, zeros
<1> QED BY <1>1, <1>2, <1>3, <1>4, TwoParts DEF n, zeros

----------------------------------------------------------------------------
(* The machine boots and the guest reads *)

Lists ==
    /\ \E S : agents \in Seq(S)
    /\ \E S : regions \in Seq(S)
    /\ \E S : links \in Seq(S)

\* The device shows the table of what was registered, which fits.
Table ==
    \/ data = Off
    \/ /\ head = Header /\ TableFits
       /\ data = gen_topology \o [b \in 1 .. HSA_MMIO_SIZE - Len(gen_topology) |-> Zero]

\* The answer to a read.
Read(addr, size) ==
    [addr |-> addr, size |-> size,
     value |-> IF InTable(addr, size) /\ size # 3
               THEN [j \in 1 .. size |-> Byte(addr + j - 1)]
               ELSE <<Zero>>]

Answered ==
    \/ answer = NoAnswer
    \/ /\ data # Off
       /\ \E addr \in 0 .. HSA_MMIO_SIZE - 1, size \in {1, 2, 3, 4, 8} : answer = Read(addr, size)

\* The inductive invariant of the table.
TopologyIInv == Lists /\ Table /\ Answered

LEMMA TopologyInitial == TopologyInit => TopologyIInv
<1> SUFFICES ASSUME TopologyInit PROVE TopologyIInv
  OBVIOUS
<1>1. \A S : <<>> \in Seq(S)
  OBVIOUS
<1>2. Lists
  BY <1>1 DEF Lists, TopologyInit
<1> QED BY <1>2 DEF TopologyIInv, TopologyInit, Table, Answered

LEMMA Appended == ASSUME NEW l, NEW x, \E S : l \in Seq(S)
                  PROVE  \E S : Append(l, x) \in Seq(S)
<1>1. PICK S : l \in Seq(S)
  OBVIOUS
<1>2. Append(l, x) \in Seq(S \cup {x})
  BY <1>1
<1> QED BY <1>2

\* Where the table stays, so do the lists and what the device shows.
LEMMA TablesStay == ASSUME TopologyIInv, UNCHANGED tables
                    PROVE  Lists' /\ Table'
<1>1. Lists'
  BY DEF TopologyIInv, Lists, tables
<1>2. Table'
  BY DEF TopologyIInv, Table, tables, Header, TableFits, gen_topology, Copied
<1> QED BY <1>1, <1>2

LEMMA TopologyUnchanged == TopologyIInv /\ UNCHANGED topologyVars => TopologyIInv'
<1> SUFFICES ASSUME TopologyIInv, UNCHANGED topologyVars PROVE TopologyIInv'
  OBVIOUS
<1>1. UNCHANGED tables /\ answer' = answer /\ data' = data /\ head' = head
  BY DEF topologyVars, tables
<1>2. Answered'
  BY <1>1 DEF TopologyIInv, Answered, Read, InTable, Byte
<1> QED BY <1>1, <1>2, TablesStay DEF TopologyIInv

LEMMA TopologyForgets == TopologyIInv /\ UNCHANGED tables /\ answer' = NoAnswer => TopologyIInv'
<1> SUFFICES ASSUME TopologyIInv, UNCHANGED tables, answer' = NoAnswer PROVE TopologyIInv'
  OBVIOUS
<1>1. Answered'
  BY DEF Answered, NoAnswer
<1> QED BY <1>1, TablesStay DEF TopologyIInv

LEMMA TopologyStep == TopologyIInv /\ TopologyNext => TopologyIInv'
<1> SUFFICES ASSUME TopologyIInv, TopologyNext PROVE TopologyIInv'
  OBVIOUS
<1>1. CASE registe_agent
  <2>1. /\ data' = Off /\ data = Off /\ answer' = answer
        /\ regions' = regions /\ links' = links
        /\ agents' = Append(agents, Head(calls).ptr)
    BY <1>1 DEF registe_agent, Call
  <2>2. Lists'
    BY <2>1, Appended DEF TopologyIInv, Lists
  <2> QED BY <2>1, <2>2 DEF TopologyIInv, Table, Answered, NoAnswer
<1>2. CASE registe_region
  <2>1. /\ data' = Off /\ data = Off /\ answer' = answer
        /\ agents' = agents /\ links' = links
        /\ regions' = Append(regions, Head(calls).ptr)
    BY <1>2 DEF registe_region, Call
  <2>2. Lists'
    BY <2>1, Appended DEF TopologyIInv, Lists
  <2> QED BY <2>1, <2>2 DEF TopologyIInv, Table, Answered, NoAnswer
<1>3. CASE agent_link_memory
  <2>1. /\ data' = Off /\ data = Off /\ answer' = answer
        /\ agents' = agents /\ regions' = regions
        /\ \E l : links' = Append(links, l)
    BY <1>3 DEF agent_link_memory, Call
  <2>2. \E S : links' \in Seq(S)
    BY <2>1, Appended DEF TopologyIInv, Lists
  <2>3. Lists'
    BY <2>1, <2>2 DEF TopologyIInv, Lists
  <2> QED BY <2>1, <2>3 DEF TopologyIInv, Table, Answered, NoAnswer
<1>4. CASE hsa_dev_init_sysbus
  <2>1. /\ data = Off /\ answer' = answer /\ UNCHANGED <<agents, regions, links>>
        /\ head' = Header /\ TableFits
        /\ data' = gen_topology \o [b \in 1 .. HSA_MMIO_SIZE - Len(gen_topology) |-> Zero]
    BY <1>4 DEF hsa_dev_init_sysbus
  <2>2. Lists'
    <3>1. agents' = agents /\ regions' = regions /\ links' = links
      BY <2>1
    <3> QED BY <3>1 DEF TopologyIInv, Lists
  <2>3. Table'
    BY <2>1 DEF Table, Header, TableFits, gen_topology, Copied
  <2>4. Answered'
    BY <2>1 DEF TopologyIInv, Answered, NoAnswer
  <2> QED BY <2>2, <2>3, <2>4 DEF TopologyIInv
<1>5. CASE hsa_dev_read
  <2>1. UNCHANGED tables /\ data # Off /\ data' = data /\ head' = head
    BY <1>5 DEF hsa_dev_read, tables
  <2>2. \E addr \in 0 .. HSA_MMIO_SIZE - 1, size \in {1, 2, 3, 4, 8} : answer' = Read(addr, size)
    BY <1>5 DEF hsa_dev_read, Read
  <2>3. Answered'
    BY <2>1, <2>2 DEF Answered, Read, InTable, Byte
  <2> QED BY <2>1, <2>3, TablesStay DEF TopologyIInv
<1>6. CASE hsa_dev_write
  BY <1>6, TopologyForgets DEF hsa_dev_write
<1> QED BY <1>1, <1>2, <1>3, <1>4, <1>5, <1>6 DEF TopologyNext

\* A device that is there is full of bytes, the table first.
LEMMA DeviceFull ==
  ASSUME TopologyIInv, data # Off
  PROVE  /\ AmountsOK /\ TableFits /\ head = Header
         /\ Bytes(data) /\ Len(data) = HSA_MMIO_SIZE
         /\ \A b \in 1 .. Header.total_size : data[b] = gen_topology[b]
<1>1. AmountsOK
  <2>1. Len(agents) \in Nat
    BY DEF TopologyIInv, Lists
  <2>2. Len(regions) \in Nat
    BY DEF TopologyIInv, Lists
  <2>3. Len(links) \in Nat
    BY DEF TopologyIInv, Lists
  <2> QED BY <2>1, <2>2, <2>3 DEF AmountsOK
<1>2. /\ head = Header /\ TableFits
      /\ data = gen_topology \o [b \in 1 .. HSA_MMIO_SIZE - Len(gen_topology) |-> Zero]
  BY DEF TopologyIInv, Table
<1>3. /\ Bytes(data) /\ Len(data) = HSA_MMIO_SIZE
      /\ \A b \in 1 .. Header.total_size : data[b] = gen_topology[b]
  BY <1>1, <1>2, DeviceBytes
<1> QED BY <1>1, <1>2, <1>3

LEMMA Stays == TopologyIInv => ReadsStayInside
<1> SUFFICES ASSUME TopologyIInv, NEW j \in DOMAIN answer.value
             PROVE  answer.value[j][1] # "outside"
  BY DEF ReadsStayInside
<1>1. CASE answer = NoAnswer
  BY <1>1 DEF NoAnswer
<1>2. ASSUME data # Off, NEW addr \in 0 .. HSA_MMIO_SIZE - 1, NEW size \in {1, 2, 3, 4, 8},
             answer = Read(addr, size)
      PROVE  answer.value[j][1] # "outside"
  <2>1. CASE ~(InTable(addr, size) /\ size # 3)
    BY <1>2, <2>1 DEF Read, Zero
  <2>2. CASE InTable(addr, size) /\ size # 3
    <3>1. answer.value = [k \in 1 .. size |-> Byte(addr + k - 1)]
      BY <1>2, <2>2 DEF Read
    <3>2. j \in 1 .. size /\ answer.value[j] = Byte(addr + j - 1)
      BY <3>1
    <3>3. addr + size - 1 < HSA_MMIO_SIZE
      <4>1. TableFits /\ head = Header /\ AmountsOK
        BY <1>2, DeviceFull
      <4>2. head.total_size \in Nat /\ head.total_size < HSA_MMIO_SIZE
        BY <4>1, HeaderTotal DEF TableFits, AmountsOK
      <4> QED BY <2>2, <4>2 DEF InTable
    <3>4. addr + j - 1 \in Nat /\ addr + j - 1 < HSA_MMIO_SIZE
      BY <3>2, <3>3
    <3>5. Bytes(data) /\ Len(data) = HSA_MMIO_SIZE
      BY <1>2, DeviceFull
    <3> DEFINE b == addr + j - 1
    <3> HIDE DEF b
    <3>6. Byte(b) = data[b + 1] /\ b + 1 \in 1 .. Len(data)
      BY <3>4, <3>5 DEF Byte, b
    <3>7. Inside(data[b + 1])
      BY <3>5, <3>6 DEF Bytes
    <3> QED BY <3>2, <3>6, <3>7 DEF b, Inside
  <2> QED BY <2>1, <2>2
<1> QED BY <1>1, <1>2 DEF TopologyIInv, Answered

\* A read of one byte of an entry answers that byte.
LEMMA EntryRead ==
  ASSUME TopologyIInv, NEW addr \in Nat, addr + 1 \in 1 .. Header.total_size, NEW byte,
         gen_topology[addr + 1] = byte, answer.size = 1, answer.addr = addr
  PROVE  answer.value = <<byte>>
<1>1. answer # NoAnswer
  BY DEF NoAnswer
<1>2. data # Off /\ answer = Read(addr, 1)
  BY <1>1 DEF TopologyIInv, Answered, Read
<1>3. /\ TableFits /\ head = Header /\ AmountsOK /\ Len(data) = HSA_MMIO_SIZE
      /\ \A b \in 1 .. Header.total_size : data[b] = gen_topology[b]
  BY <1>2, DeviceFull
<1>4. Header.total_size \in Nat /\ Header.total_size < HSA_MMIO_SIZE
  BY <1>3, HeaderTotal DEF TableFits, AmountsOK
<1>5. InTable(addr, 1)
  BY <1>3, <1>4 DEF InTable
<1>6. Byte(addr) = byte
  BY <1>3, <1>4 DEF Byte
<1>7. answer.value = [j \in 1 .. 1 |-> Byte(addr + j - 1)]
  BY <1>2, <1>5 DEF Read
<1>8. addr + 1 - 1 = addr /\ \A j \in 1 .. 1 : j = 1
  OBVIOUS
<1>9. [j \in 1 .. 1 |-> Byte(addr + j - 1)] = [j \in 1 .. 1 |-> byte]
  BY <1>6, <1>8
<1>10. <<byte>> = [j \in 1 .. 1 |-> byte]
  OBVIOUS
<1> QED BY <1>7, <1>9, <1>10

LEMMA Walks == TopologyIInv => TableIsWalkable
<1> SUFFICES ASSUME TopologyIInv, answer.size = 1 PROVE TableIsWalkable
  BY DEF TableIsWalkable
<1>1. data # Off
  BY DEF TopologyIInv, Answered, NoAnswer
<1>2. AmountsOK /\ head = Header
  BY <1>1, DeviceFull
<1>3. /\ head.header_size = header_size /\ head.agent_size = agent_size
      /\ head.agent_amount = Len(agents) /\ head.region_size = region_size
      /\ head.region_amount = Len(regions) /\ head.link_size = link_size
  BY <1>2 DEF Header
<1>4. /\ header_size \in Nat \ {0} /\ agent_size \in Nat \ {0}
      /\ region_size \in Nat \ {0} /\ link_size \in Nat \ {0}
  OBVIOUS
<1>5. /\ Len(gen_topology) = Header.total_size
      /\ EntriesAt(gen_topology, header_size, "agent", agents, agent_size)
      /\ EntriesAt(gen_topology, RegionsAt, "region", regions, region_size)
      /\ EntriesAt(gen_topology, LinksAt, "link", links, link_size)
  BY <1>2, TableBytes
<1>6. RegionsAt \in Nat /\ LinksAt \in Nat
  BY <1>2, <1>4 DEF AmountsOK, RegionsAt, LinksAt
<1>7. /\ DOMAIN agents = 1 .. Len(agents) /\ DOMAIN regions = 1 .. Len(regions)
      /\ DOMAIN links = 1 .. Len(links)
  <2>1. DOMAIN agents = 1 .. Len(agents)
    BY DEF TopologyIInv, Lists
  <2>2. DOMAIN regions = 1 .. Len(regions)
    BY DEF TopologyIInv, Lists
  <2>3. DOMAIN links = 1 .. Len(links)
    BY DEF TopologyIInv, Lists
  <2> QED BY <2>1, <2>2, <2>3
<1>8. ASSUME NEW k \in 1 .. Len(agents), NEW j \in 0 .. agent_size - 1,
             answer.addr = AgentByte(k - 1, j)
      PROVE  answer.value = <<<<"agent", agents[k], j>>>>
  <2> DEFINE m == agent_size * (k - 1)
             addr == header_size + m + j
             byte == <<"agent", agents[k], j>>
  <2>1. header_size + (m + j + 1) \in 1 .. Header.total_size
        /\ gen_topology[header_size + (m + j + 1)] = byte
    BY <1>5 DEF EntriesAt
  <2>2. answer.addr = header_size + m + j
    BY <1>3, <1>8 DEF AgentByte
  <2>3. m \in Nat /\ j \in Nat /\ header_size \in Nat
    <3>1. k - 1 \in Nat
      BY <1>2 DEF AmountsOK
    <3> QED BY <1>4, <1>6, <3>1
  <2> HIDE DEF m, byte
  <2>4. addr \in Nat /\ header_size + (m + j + 1) = addr + 1
    BY <2>3
  <2> HIDE DEF addr
  <2>5. addr + 1 \in 1 .. Header.total_size /\ gen_topology[addr + 1] = byte
    BY <2>1, <2>4
  <2>6. answer.addr = addr
    BY <2>2 DEF addr
  <2>7. answer.value = <<byte>>
    BY <2>4, <2>5, <2>6, EntryRead
  <2> QED BY <2>7 DEF byte
<1>9. ASSUME NEW k \in 1 .. Len(regions), NEW j \in 0 .. region_size - 1,
             answer.addr = RegionByte(k - 1, j)
      PROVE  answer.value = <<<<"region", regions[k], j>>>>
  <2> DEFINE m == region_size * (k - 1)
             addr == RegionsAt + m + j
             byte == <<"region", regions[k], j>>
  <2>1. RegionsAt + (m + j + 1) \in 1 .. Header.total_size
        /\ gen_topology[RegionsAt + (m + j + 1)] = byte
    BY <1>5 DEF EntriesAt
  <2>2. answer.addr = RegionsAt + m + j
    BY <1>3, <1>9 DEF RegionByte, RegionsAt
  <2>3. m \in Nat /\ j \in Nat /\ RegionsAt \in Nat
    <3>1. k - 1 \in Nat
      BY <1>2 DEF AmountsOK
    <3> QED BY <1>4, <1>6, <3>1
  <2> HIDE DEF m, byte
  <2>4. addr \in Nat /\ RegionsAt + (m + j + 1) = addr + 1
    BY <2>3
  <2> HIDE DEF addr
  <2>5. addr + 1 \in 1 .. Header.total_size /\ gen_topology[addr + 1] = byte
    BY <2>1, <2>4
  <2>6. answer.addr = addr
    BY <2>2 DEF addr
  <2>7. answer.value = <<byte>>
    BY <2>4, <2>5, <2>6, EntryRead
  <2> QED BY <2>7 DEF byte
<1>10. ASSUME NEW k \in 1 .. Len(links), NEW j \in 0 .. link_size - 1,
             answer.addr = LinkByte(k - 1, j)
      PROVE  answer.value = <<<<"link", links[k], j>>>>
  <2> DEFINE m == link_size * (k - 1)
             addr == LinksAt + m + j
             byte == <<"link", links[k], j>>
  <2>1. LinksAt + (m + j + 1) \in 1 .. Header.total_size
        /\ gen_topology[LinksAt + (m + j + 1)] = byte
    BY <1>5 DEF EntriesAt
  <2>2. answer.addr = LinksAt + m + j
    BY <1>3, <1>10 DEF LinkByte, RegionsAt, LinksAt
  <2>3. m \in Nat /\ j \in Nat /\ LinksAt \in Nat
    <3>1. k - 1 \in Nat
      BY <1>2 DEF AmountsOK
    <3> QED BY <1>4, <1>6, <3>1
  <2> HIDE DEF m, byte
  <2>4. addr \in Nat /\ LinksAt + (m + j + 1) = addr + 1
    BY <2>3
  <2> HIDE DEF addr
  <2>5. addr + 1 \in 1 .. Header.total_size /\ gen_topology[addr + 1] = byte
    BY <2>1, <2>4
  <2>6. answer.addr = addr
    BY <2>2 DEF addr
  <2>7. answer.value = <<byte>>
    BY <2>4, <2>5, <2>6, EntryRead
  <2> QED BY <2>7 DEF byte
<1> QED BY <1>7, <1>8, <1>9, <1>10 DEF TableIsWalkable

HIDE TopologyAssumption

----------------------------------------------------------------------------
(* Numbers that are cut to an int or a uint32_t *)

Half == IntWidth \div 2

LEMMA Widths == Half \in Nat \ {0} /\ IntWidth = 2 * Half /\ IntWidth \in Nat \ {0}
BY GeometryAssumption DEF Half

\* Two numbers of a range as wide as w that differ by a multiple of w are equal.
LEMMA SameResidue ==
  ASSUME NEW w \in Nat \ {0}, NEW low \in Int, NEW q \in Int,
         NEW m \in low .. low + w - 1, NEW n \in low .. low + w - 1, m = n + (q * w)
  PROVE  m = n
<1>1. q * w < w /\ -w < q * w
  OBVIOUS
<1>2. q = 0
  BY <1>1
<1> QED BY <1>2

Congruent(m, n) == \E q \in Int : m = n + (q * IntWidth)

LEMMA UnsignedCuts ==
  ASSUME NEW n \in Int
  PROVE  Unsigned(n) \in Uint /\ \E q \in Int : n = Unsigned(n) + (q * IntWidth)
<1> DEFINE d == n \div IntWidth
<1>1. /\ n = (n % IntWidth) + (d * IntWidth) /\ n % IntWidth \in 0 .. IntWidth - 1
      /\ d \in Int
  BY Widths
<1> HIDE DEF d
<1> QED BY <1>1 DEF Unsigned, Uint

\* Cutting a number again, or one that differs by a multiple of the width, gives
\* the same number.
LEMMA UnsignedSame ==
  ASSUME NEW m \in Int, NEW n \in Int, Congruent(m, n)
  PROVE  Unsigned(m) = Unsigned(n)
<1>0. PICK q \in Int : m = n + (q * IntWidth)
  BY DEF Congruent
<1>1. PICK a \in Int : m = Unsigned(m) + (a * IntWidth)
  BY UnsignedCuts
<1>2. PICK b \in Int : n = Unsigned(n) + (b * IntWidth)
  BY UnsignedCuts
<1>3. Unsigned(m) \in Uint /\ Unsigned(n) \in Uint
  BY UnsignedCuts
<1> DEFINE x == Unsigned(m)
           y == Unsigned(n)
           k == b + q - a
<1> HIDE DEF x, y
<1>4. x = y + (k * IntWidth) /\ k \in Int
  BY <1>0, <1>1, <1>2, <1>3, Widths DEF x, y, Uint
<1> HIDE DEF k
<1>5. x \in 0 .. 0 + IntWidth - 1 /\ y \in 0 .. 0 + IntWidth - 1
  BY <1>3, Widths DEF x, y, Uint
<1>6. x = y
  BY <1>4, <1>5, Widths, SameResidue
<1> QED BY <1>6 DEF x, y

LEMMA UnsignedIs == ASSUME NEW n \in Uint PROVE Unsigned(n) = n
<1>1. n \in 0 .. IntWidth - 1 /\ n \in Int /\ Unsigned(n) \in 0 .. IntWidth - 1
  BY Widths, UnsignedCuts DEF Uint
<1>2. PICK q \in Int : n = Unsigned(n) + (q * IntWidth)
  BY <1>1, UnsignedCuts
<1> DEFINE u == Unsigned(n)
<1> HIDE DEF u
<1>3. u \in 0 .. 0 + IntWidth - 1 /\ n \in 0 .. 0 + IntWidth - 1 /\ n = u + (q * IntWidth)
  BY <1>1, <1>2, Widths DEF u
<1>4. n = u
  BY <1>3, Widths, SameResidue
<1> QED BY <1>4 DEF u

LEMMA SignedCuts ==
  ASSUME NEW n \in Int
  PROVE  /\ Signed(n) \in Int32
         /\ Congruent(Signed(n), n)
<1>1. PICK d \in Int : n = Unsigned(n) + (d * IntWidth)
  BY UnsignedCuts
<1> DEFINE u == Unsigned(n)
<1>2. u \in 0 .. IntWidth - 1
  BY UnsignedCuts DEF Uint
<1>3. Signed(n) = IF u < Half THEN u ELSE u - IntWidth
  BY DEF Signed, Half
<1>4. n = u + (d * IntWidth)
  BY <1>1
<1> HIDE DEF u
<1>5. Signed(n) \in -Half .. Half - 1
  BY <1>2, <1>3, Widths
<1>6. CASE u < Half
  <2>1. Signed(n) = n + ((-d) * IntWidth) /\ -d \in Int
    BY <1>2, <1>3, <1>4, <1>6, Widths
  <2> QED BY <1>5, <2>1 DEF Int32, Half, Congruent
<1>7. CASE ~(u < Half)
  <2>1. Signed(n) = n + ((-d - 1) * IntWidth) /\ -d - 1 \in Int
    BY <1>2, <1>3, <1>4, <1>7, Widths
  <2> QED BY <1>5, <2>1 DEF Int32, Half, Congruent
<1> QED BY <1>6, <1>7

\* Where the number fits, nothing is cut.
LEMMA SignedIs ==
  ASSUME NEW n \in 0 .. Half PROVE Signed(n) = IF n < Half THEN n ELSE -Half
<1>1. n \in Uint
  BY Widths DEF Uint
<1>2. Unsigned(n) = n
  BY <1>1, UnsignedIs
<1> QED BY <1>2, Widths DEF Signed, Half

LEMMA SignedSame ==
  ASSUME NEW m \in Int, NEW n \in Int, Congruent(m, n)
  PROVE  Signed(m) = Signed(n)
BY UnsignedSame DEF Signed

----------------------------------------------------------------------------
(* Division *)

LEMMA DivUnique ==
  ASSUME NEW n \in Nat \ {0}, NEW q \in Int, NEW r \in 0 .. n - 1, NEW m \in Int, m = (n * q) + r
  PROVE  m \div n = q /\ m % n = r
OBVIOUS

\* What the division of ints computes: the bounds of its results.
LEMMA Divides ==
  ASSUME NEW m \in Int32, NEW n \in Int32, n # 0
  PROVE  /\ Quotient(m, n) \in Int /\ Remainder(m, n) \in Int32
         /\ ~Traps(m, n) => Quotient(m, n) \in Int32
         /\ Remainder(m, n) # -Half
<1> DEFINE a == Abs(m)
           b == Abs(n)
           t == a \div b
           p == b * t
           q == Quotient(m, n)
           r == Remainder(m, n)
<1>1. m \in -Half .. Half - 1 /\ n \in -Half .. Half - 1
  BY DEF Int32, Half
<1>2. a \in 0 .. Half /\ b \in 1 .. Half /\ (m < 0 => a = -m) /\ (~(m < 0) => a = m)
      /\ (n < 0 => b = -n) /\ (~(n < 0) => b = n)
  BY <1>1, Widths DEF Abs
<1>3. q = IF (m < 0) = (n < 0) THEN t ELSE -t
  BY DEF Quotient
<1>4. r = m - (n * q)
  BY DEF Remainder
<1> HIDE DEF a, b, q, r
<1>5. t \in Nat /\ t <= a /\ p <= a /\ a < p + b /\ p \in Nat
  BY <1>2, Widths
<1>6. a > 0 /\ b > 1 => t < a
  BY <1>2, Widths
<1> HIDE DEF t
<1>7. q \in Int
  BY <1>3, <1>5
<1>8. ~(m < 0) => r = a - p
  <2>1. CASE n < 0
    BY <1>1, <1>2, <1>3, <1>4, <1>5, <2>1
  <2>2. CASE ~(n < 0)
    BY <1>1, <1>2, <1>3, <1>4, <1>5, <2>2
  <2> QED BY <2>1, <2>2
<1>9. m < 0 => r = p - a
  <2>1. CASE n < 0
    BY <1>1, <1>2, <1>3, <1>4, <1>5, <2>1
  <2>2. CASE ~(n < 0)
    BY <1>1, <1>2, <1>3, <1>4, <1>5, <2>2
  <2> QED BY <2>1, <2>2
<1> HIDE DEF p
<1>10. r \in -(Half - 1) .. Half - 1
  BY <1>1, <1>2, <1>5, <1>8, <1>9, Widths
<1>11. r \in Int32 /\ r # -Half
  BY <1>10, Widths DEF Int32, Half
<1>12. ASSUME ~Traps(m, n) PROVE q \in Int32
  <2>1. ~(m = -Half /\ n = -1)
    BY <1>12 DEF Traps, Half
  <2>2. q \in -Half .. Half - 1
    <3>1. CASE a = Half /\ b = 1
      <4>1. m < 0 /\ m = -Half
        BY <1>1, <1>2, <3>1, Widths
      <4>2. ~(n < 0)
        BY <1>1, <1>2, <2>1, <3>1, <4>1
      <4> QED BY <1>2, <1>3, <1>5, <4>1, <4>2, Widths
    <3>2. CASE ~(a = Half /\ b = 1)
      <4>1. t <= Half - 1
        BY <1>2, <1>5, <1>6, <3>2, Widths
      <4> QED BY <1>3, <1>5, <4>1, Widths
    <3> QED BY <3>1, <3>2
  <2> QED BY <2>2 DEF Int32, Half
<1> QED BY <1>7, <1>11, <1>12 DEF q, r

\* On numbers that fit, and where only the divisor may be one too large.
LEMMA DividesNat ==
  ASSUME NEW m \in 0 .. Half - 1, NEW n \in 1 .. Half
  PROVE  /\ Quotient(m, Signed(n)) = m \div n
         /\ Remainder(m, Signed(n)) = m % n
<1>1. CASE n < Half
  <2>1. Signed(n) = n
    BY <1>1, SignedIs
  <2>2. Abs(m) = m /\ Abs(n) = n /\ ~(m < 0) /\ ~(n < 0)
    BY DEF Abs
  <2>3. Quotient(m, n) = m \div n
    BY <2>2 DEF Quotient
  <2>4. m - (n * (m \div n)) = m % n
    BY Widths
  <2> QED BY <2>1, <2>3, <2>4 DEF Remainder
<1>2. CASE n = Half
  <2>1. Signed(n) = -Half
    BY <1>2, SignedIs
  <2>2. Abs(m) = m /\ Abs(-Half) = Half /\ ~(m < 0) /\ -Half < 0
    BY Widths DEF Abs
  <2>3. m \div Half = 0 /\ m % Half = m
    BY Widths
  <2>4. Quotient(m, -Half) = 0
    BY <2>2, <2>3 DEF Quotient
  <2>5. Remainder(m, -Half) = m
    BY <2>4, Widths DEF Remainder
  <2> QED BY <1>2, <2>1, <2>3, <2>4, <2>5
<1> QED BY <1>1, <1>2, Widths

----------------------------------------------------------------------------
(* Flat numbers and coordinates *)

\* The flat number of a place, and the place of a flat number, in natural numbers.
Flat(s, c) == c[0] + (s[0] * (c[1] + (s[1] * c[2])))
Place(n, s) ==
    [d \in Dim |-> CASE d = 2 -> n \div (s[0] * s[1])
                     [] d = 1 -> (n % (s[0] * s[1])) \div s[0]
                     [] d = 0 -> (n % (s[0] * s[1])) % s[0]]
Product(s) == s[0] * s[1] * s[2]

LEMMA Dims == ASSUME NEW d \in Dim PROVE d = 0 \/ d = 1 \/ d = 2
BY DEF Dim

LEMMA Products ==
  ASSUME NEW a \in Nat \ {0}, NEW b \in Nat \ {0}, NEW c \in Nat \ {0}
  PROVE  /\ a * b \in Nat \ {0} /\ a * b * c \in Nat \ {0}
         /\ a <= a * b * c /\ b <= a * b * c /\ c <= a * b * c /\ a * b <= a * b * c
<1> DEFINE x == a * b
<1>1. x \in Nat \ {0} /\ a <= x /\ b <= x
  OBVIOUS
<1> HIDE DEF x
<1>2. x * c \in Nat \ {0} /\ x <= x * c /\ c <= x * c
  BY <1>1
<1>3. a <= x * c /\ b <= x * c
  BY <1>1, <1>2
<1> QED BY <1>1, <1>2, <1>3 DEF x

LEMMA FlatBound ==
  ASSUME NEW s \in [Dim -> Nat \ {0}], NEW c \in [Dim -> Nat], \A d \in Dim : c[d] < s[d]
  PROVE  /\ Flat(s, c) \in 0 .. Product(s) - 1
         /\ Place(Flat(s, c), s) = c
<1> DEFINE a == s[0]
           b == s[1]
           e == s[2]
           m == c[1] + b * c[2]
           n == c[0] + a * m
           low == c[0] + a * c[1]
<1>1. 0 \in Dim /\ 1 \in Dim /\ 2 \in Dim
  BY DEF Dim
<1>2. /\ a \in Nat \ {0} /\ b \in Nat \ {0} /\ e \in Nat \ {0}
      /\ c[0] \in 0 .. a - 1 /\ c[1] \in 0 .. b - 1 /\ c[2] \in 0 .. e - 1
  BY <1>1
<1> HIDE DEF a, b, e
<1>3. m \in 0 .. (b * e) - 1
  <2>1. b * c[2] <= b * (e - 1) /\ b * c[2] \in Nat /\ b * (e - 1) = (b * e) - b /\ b * e \in Nat
    BY <1>2
  <2> QED BY <1>2, <2>1
<1>4. n \in 0 .. (a * b * e) - 1
  <2> DEFINE k == b * e
  <2>1. k \in Nat /\ m \in 0 .. k - 1
    BY <1>2, <1>3
  <2> HIDE DEF k, m
  <2>2. a * m <= a * (k - 1) /\ a * m \in Nat /\ a * (k - 1) = (a * k) - a /\ a * k \in Nat
    BY <1>2, <2>1
  <2>3. n \in 0 .. (a * k) - 1
    BY <1>2, <2>1, <2>2
  <2>4. a * k = a * b * e
    BY <1>2 DEF k
  <2> QED BY <2>3, <2>4
<1>5. low \in 0 .. (a * b) - 1 /\ low \div a = c[1] /\ low % a = c[0]
  <2>1. a * c[1] <= a * (b - 1) /\ a * c[1] \in Nat /\ a * (b - 1) = (a * b) - a /\ a * b \in Nat
    BY <1>2
  <2>2. low \in 0 .. (a * b) - 1
    BY <1>2, <2>1
  <2>3. low = (a * c[1]) + c[0] /\ low \in Int /\ c[1] \in Int
    BY <1>2, <2>1
  <2> HIDE DEF low
  <2> DEFINE u == c[0]
             v == c[1]
  <2>4. /\ a \in Nat \ {0} /\ u \in 0 .. a - 1 /\ v \in Int /\ low \in Int
        /\ low = (a * v) + u
    BY <1>2, <2>3
  <2> HIDE DEF u, v
  <2>5. low \div a = v /\ low % a = u
    BY <2>4, DivUnique, Zenon
  <2> QED BY <2>2, <2>5 DEF u, v
<1>6. n = (a * b) * c[2] + low /\ n \in Int
  BY <1>2, <1>3
<1>7. n \div (a * b) = c[2] /\ n % (a * b) = low
  <2> DEFINE k == a * b
  <2>1. k \in Nat \ {0} /\ low \in 0 .. k - 1 /\ n = k * c[2] + low /\ c[2] \in Int /\ n \in Int
    BY <1>2, <1>5, <1>6
  <2> HIDE DEF k, low, n
  <2>2. n \div k = c[2] /\ n % k = low
    BY <2>1, DivUnique, Zenon
  <2> QED BY <2>2 DEF k
<1>8. n = Flat(s, c) /\ Product(s) = a * b * e
  BY DEF Flat, Product, a, b, e
<1> HIDE DEF n, low, m
<1>9. Place(n, s) = [d \in Dim |-> CASE d = 2 -> n \div (a * b)
                                     [] d = 1 -> (n % (a * b)) \div a
                                     [] d = 0 -> (n % (a * b)) % a]
  BY DEF Place, a, b
<1>10. ASSUME NEW d \in Dim PROVE Place(n, s)[d] = c[d]
  <2>1. CASE d = 0
    BY <1>5, <1>7, <1>9, <2>1
  <2>2. CASE d = 1
    BY <1>5, <1>7, <1>9, <2>2
  <2>3. CASE d = 2
    BY <1>5, <1>7, <1>9, <2>3
  <2> QED BY <2>1, <2>2, <2>3, Dims
<1>11. Place(n, s) = c
  <2> DEFINE p == Place(n, s)
  <2>1. p = [d \in Dim |-> p[d]]
    BY <1>9
  <2> HIDE DEF p
  <2>2. \A d \in Dim : p[d] = c[d]
    BY <1>10 DEF p
  <2>3. p = [d \in Dim |-> c[d]]
    BY <2>1, <2>2
  <2> QED BY <2>3 DEF p
<1> QED BY <1>4, <1>8, <1>11

LEMMA PlaceBound ==
  ASSUME NEW s \in [Dim -> Nat \ {0}], NEW n \in 0 .. Product(s) - 1
  PROVE  /\ Place(n, s) \in [Dim -> Nat] /\ \A d \in Dim : Place(n, s)[d] < s[d]
         /\ Flat(s, Place(n, s)) = n
<1> DEFINE a == s[0]
           b == s[1]
           e == s[2]
           k == a * b
           z == n \div k
           tmp == n % k
           y == tmp \div a
           x == tmp % a
<1>1. a \in Nat \ {0} /\ b \in Nat \ {0} /\ e \in Nat \ {0}
  BY DEF Dim
<1>2. Place(n, s) = [d \in Dim |-> CASE d = 2 -> z [] d = 1 -> y [] d = 0 -> x]
  BY DEF Place
<1>3. n \in 0 .. (k * e) - 1
  BY DEF Product
<1> HIDE DEF a, b, e
<1>4. k \in Nat \ {0}
  BY <1>1
<1> HIDE DEF k
<1>5. n \in Nat /\ n = k * z + tmp /\ tmp \in 0 .. k - 1 /\ z \in Nat
  <2>1. k * e \in Nat
    BY <1>1, <1>4
  <2>2. n \in Nat
    BY <1>3, <2>1
  <2> QED BY <1>4, <2>2
<1>6. z < e
  <2>1. n < k * e
    BY <1>1, <1>3, <1>4, <1>5
  <2> HIDE DEF z, tmp
  <2>2. k * z < k * e
    BY <1>1, <1>4, <1>5, <2>1
  <2> QED BY <1>1, <1>4, <1>5, <2>2
<1> HIDE DEF z, tmp
<1>7. tmp = a * y + x /\ x \in 0 .. a - 1 /\ y \in Nat
  BY <1>1, <1>4, <1>5
<1>8. y < b
  <2>1. tmp < a * b
    BY <1>1, <1>4, <1>5 DEF k
  <2> HIDE DEF y, x
  <2>2. a * y < a * b
    BY <1>1, <1>5, <1>7, <2>1
  <2> QED BY <1>1, <1>7, <2>2
<1> HIDE DEF x, y
<1>9. n = x + (a * (y + (b * z)))
  <2>1. (a * b) * z = a * (b * z) /\ a * (y + (b * z)) = a * y + a * (b * z)
    BY <1>1, <1>5, <1>7
  <2> QED BY <1>1, <1>5, <1>7, <2>1 DEF k
<1>10. /\ Place(n, s)[0] = x /\ Place(n, s)[1] = y /\ Place(n, s)[2] = z
  BY <1>2 DEF Dim
<1>11. Flat(s, Place(n, s)) = n
  BY <1>9, <1>10 DEF Flat, a, b
<1>12. Place(n, s) \in [Dim -> Nat]
  <2>1. ASSUME NEW d \in Dim PROVE Place(n, s)[d] \in Nat
    BY <1>1, <1>5, <1>7, <1>10, Dims
  <2> QED BY <1>2, <2>1
<1>13. ASSUME NEW d \in Dim PROVE Place(n, s)[d] < s[d]
  BY <1>1, <1>5, <1>6, <1>7, <1>8, <1>10, Dims DEF a, b, e
<1> QED BY <1>11, <1>12, <1>13

----------------------------------------------------------------------------
(* The range of a dispatch *)

\* The monitor did not refuse the packet.
Asked == packet \in Packets /\ \A d \in Dim : packet.grid[d] # 0 /\ packet.group[d] # 0

Sides == packet.group
Blocks == [d \in Dim |-> Groups(d)]
Extent(d) == Groups(d) * packet.group[d]
Covers == Points([d \in Dim |-> Extent(d)])

\* A group never overflows: it is not larger than the contexts of a CU.
LEMMA GroupFacts ==
  ASSUME Asked
  PROVE  /\ packet.grid \in [Dim -> Uint \ {0}]
         /\ Sides \in [Dim -> Nat \ {0}]
         /\ \A d \in Dim : Sides[d] \in 1 .. Half - 1
         /\ Product(Sides) \in 1 .. Half - 1 /\ Sides[0] * Sides[1] \in 1 .. Half - 1
<1>1. packet.grid \in [Dim -> Uint] /\ packet.group \in [Dim -> Uint]
  BY GeometryAssumption DEF Asked
<1>2. packet.group[0] * packet.group[1] * packet.group[2] <= MAX_WORKGROUP_SIZE
      /\ MAX_WORKGROUP_SIZE \in -Half .. Half - 1
  BY GeometryAssumption DEF Asked, Int32, Half
<1>3. \A d \in Dim : packet.grid[d] \in Uint \ {0} /\ packet.group[d] \in Uint \ {0}
  BY <1>1 DEF Asked
<1>4. \A n \in Uint \ {0} : n \in Nat \ {0}
  BY Widths DEF Uint
<1>5. packet.grid \in [Dim -> Uint \ {0}] /\ packet.group \in [Dim -> Nat \ {0}]
  BY <1>1, <1>3, <1>4
<1> DEFINE a == packet.group[0]
           b == packet.group[1]
           c == packet.group[2]
<1>6. a \in Nat \ {0} /\ b \in Nat \ {0} /\ c \in Nat \ {0}
  BY <1>5 DEF Dim
<1>7. a * b * c <= Half - 1
  BY <1>2, <1>6, Widths
<1> HIDE DEF a, b, c
<1>8. /\ a * b \in Nat \ {0} /\ a * b * c \in Nat \ {0}
      /\ a <= a * b * c /\ b <= a * b * c /\ c <= a * b * c /\ a * b <= a * b * c
  BY <1>6, Products
<1>9. /\ a * b * c \in 1 .. Half - 1 /\ a * b \in 1 .. Half - 1
      /\ a \in 1 .. Half - 1 /\ b \in 1 .. Half - 1 /\ c \in 1 .. Half - 1
  <2> DEFINE x == a * b * c
             y == a * b
  <2>1. x \in Nat \ {0} /\ y \in Nat \ {0} /\ a <= x /\ b <= x /\ c <= x /\ y <= x /\ x <= Half - 1
    BY <1>7, <1>8
  <2> HIDE DEF x, y
  <2>2. x \in 1 .. Half - 1 /\ y \in 1 .. Half - 1
        /\ a \in 1 .. Half - 1 /\ b \in 1 .. Half - 1 /\ c \in 1 .. Half - 1
    BY <1>6, <2>1, Widths
  <2> QED BY <2>2 DEF x, y
<1>10. \A d \in Dim : Sides[d] \in 1 .. Half - 1
  BY <1>9, Dims DEF Sides, a, b, c
<1> QED BY <1>5, <1>9, <1>10 DEF Sides, Product, a, b, c

\* The number of blocks of y that hold x.
LEMMA RoundsUp ==
  ASSUME NEW x \in Nat \ {0}, NEW y \in Nat \ {0}
  PROVE  /\ (x + y - 1) \div y \in Nat \ {0}
         /\ x <= ((x + y - 1) \div y) * y /\ ((x + y - 1) \div y) * y <= x + y - 1
<1> DEFINE q == (x + y - 1) \div y
           p == q * y
<1>1. q \in Nat /\ p <= x + y - 1 /\ x + y - 1 < p + y /\ p \in Nat
  OBVIOUS
<1>2. x <= p
  BY <1>1
<1>3. q # 0
  BY <1>2
<1> QED BY <1>1, <1>2, <1>3

LEMMA BlockFacts ==
  ASSUME Asked, Fits
  PROVE  /\ Blocks \in [Dim -> Nat \ {0}]
         /\ \A d \in Dim : Blocks[d] \in 1 .. Half
         /\ Product(Blocks) \in 1 .. Half /\ Blocks[0] * Blocks[1] \in 1 .. Half
         /\ \A d \in Dim : /\ Extent(d) \in Uint /\ packet.grid[d] <= Extent(d)
                           /\ ALIGNMENT_DEV(packet.grid[d], packet.group[d]) = Groups(d)
<1>1. \A d \in Dim : packet.grid[d] \in Nat \ {0} /\ packet.group[d] \in Nat \ {0}
  BY GroupFacts, Widths DEF Uint, Sides
<1>2. ASSUME NEW d \in Dim
      PROVE  /\ Groups(d) \in Nat \ {0} /\ Extent(d) \in Uint /\ packet.grid[d] <= Extent(d)
             /\ ALIGNMENT_DEV(packet.grid[d], packet.group[d]) = Groups(d)
  <2> DEFINE x == packet.grid[d]
             y == packet.group[d]
  <2>1. x \in Nat \ {0} /\ y \in Nat \ {0} /\ x + y - 1 \in Uint
    BY <1>1 DEF Fits
  <2>2. Groups(d) = (x + y - 1) \div y /\ Extent(d) = ((x + y - 1) \div y) * y
    BY DEF Groups, Extent
  <2>3. ALIGNMENT_DEV(x, y) = Unsigned(x + y - 1) \div y
    BY DEF ALIGNMENT_DEV
  <2> HIDE DEF x, y
  <2>4. Unsigned(x + y - 1) = x + y - 1
    BY <2>1, UnsignedIs
  <2>5. /\ (x + y - 1) \div y \in Nat \ {0}
        /\ x <= ((x + y - 1) \div y) * y /\ ((x + y - 1) \div y) * y <= x + y - 1
    BY <2>1, RoundsUp
  <2> DEFINE e == ((x + y - 1) \div y) * y
  <2>6. e \in Int
    BY <2>1, <2>5
  <2> HIDE DEF e
  <2>7. x <= e /\ e <= x + y - 1
    BY <2>5 DEF e
  <2>8. e \in Uint
    BY <2>1, <2>6, <2>7, Widths DEF Uint
  <2> QED BY <2>2, <2>3, <2>4, <2>5, <2>7, <2>8 DEF x, y, e
<1> DEFINE a == Groups(0)
           b == Groups(1)
           c == Groups(2)
<1>3. a \in Nat \ {0} /\ b \in Nat \ {0} /\ c \in Nat \ {0}
  BY <1>2 DEF Dim
<1>4. a * b * c - 1 \in -Half .. Half - 1
  BY DEF Fits, Int32, Half
<1>5. Blocks \in [Dim -> Nat \ {0}] /\ Blocks[0] = a /\ Blocks[1] = b /\ Blocks[2] = c
  BY <1>2 DEF Blocks, Dim
<1> HIDE DEF a, b, c
<1>6. /\ a * b \in Nat \ {0} /\ a * b * c \in Nat \ {0}
      /\ a <= a * b * c /\ b <= a * b * c /\ c <= a * b * c /\ a * b <= a * b * c
  BY <1>3, Products
<1>7. /\ a * b * c \in 1 .. Half /\ a * b \in 1 .. Half
      /\ a \in 1 .. Half /\ b \in 1 .. Half /\ c \in 1 .. Half
  <2> DEFINE x == a * b * c
             y == a * b
  <2>1. x \in Nat \ {0} /\ y \in Nat \ {0} /\ a <= x /\ b <= x /\ c <= x /\ y <= x /\ x - 1 <= Half - 1
    BY <1>4, <1>6, Widths
  <2> HIDE DEF x, y
  <2>2. x \in 1 .. Half /\ y \in 1 .. Half /\ a \in 1 .. Half /\ b \in 1 .. Half /\ c \in 1 .. Half
    BY <1>3, <2>1, Widths
  <2> QED BY <2>2 DEF x, y
<1>8. \A d \in Dim : Blocks[d] \in 1 .. Half
  BY <1>5, <1>7, Dims
<1>9. Product(Blocks) \in 1 .. Half /\ Blocks[0] * Blocks[1] \in 1 .. Half
  BY <1>5, <1>7 DEF Product
<1> QED BY <1>2, <1>5, <1>8, <1>9

\* The point of the range that work-item n of group f works on, and the order in
\* which the points are worked on.
Point(f, n) == [d \in Dim |-> (Place(f, Blocks)[d] * Sides[d]) + Place(n, Sides)[d]]
Ord(a) == (Flat(Blocks, [d \in Dim |-> a[d] \div Sides[d]]) * Product(Sides))
            + Flat(Sides, [d \in Dim |-> a[d] % Sides[d]])

\* A point is in a block of the range.
LEMMA InBlock ==
  ASSUME NEW x \in Nat, NEW g \in Nat \ {0}, NEW n \in Nat \ {0}
  PROVE  /\ x \div g \in Nat /\ x % g \in 0 .. g - 1 /\ x = ((x \div g) * g) + (x % g)
         /\ x < n * g => x \div g < n
<1> DEFINE q == x \div g
<1>1. q \in Nat /\ x % g \in 0 .. g - 1 /\ x = (q * g) + (x % g)
  OBVIOUS
<1> HIDE DEF q
<1>2. ASSUME x < n * g PROVE q < n
  <2>1. q * g < n * g
    BY <1>1, <1>2
  <2> QED BY <1>1, <2>1
<1> QED BY <1>1, <1>2 DEF q

\* Its block and its place in the block.
LEMMA BlockOf ==
  ASSUME Asked, Fits, NEW a \in Covers
  PROVE  /\ [d \in Dim |-> a[d] \div Sides[d]] \in [Dim -> Nat]
         /\ [d \in Dim |-> a[d] % Sides[d]] \in [Dim -> Nat]
         /\ \A d \in Dim : /\ a[d] \div Sides[d] < Blocks[d] /\ a[d] % Sides[d] < Sides[d]
                           /\ a[d] = ((a[d] \div Sides[d]) * Sides[d]) + (a[d] % Sides[d])
<1>1. ASSUME NEW d \in Dim
      PROVE  /\ a[d] \div Sides[d] \in Nat /\ a[d] % Sides[d] \in Nat
             /\ a[d] \div Sides[d] < Blocks[d] /\ a[d] % Sides[d] < Sides[d]
             /\ a[d] = ((a[d] \div Sides[d]) * Sides[d]) + (a[d] % Sides[d])
  <2> DEFINE x == a[d]
             g == Sides[d]
             n == Blocks[d]
  <2>1. x \in Nat /\ x < Extent(d)
    BY Widths DEF Covers, Points, Uint
  <2>2. Extent(d) = n * g
    BY DEF Extent, Blocks, Sides
  <2>3. g \in Nat \ {0} /\ n \in Nat \ {0}
    BY GroupFacts, BlockFacts
  <2> HIDE DEF x, g, n
  <2>4. x \div g \in Nat /\ x % g \in 0 .. g - 1 /\ x = ((x \div g) * g) + (x % g)
    BY <2>1, <2>3, InBlock
  <2>5. x < n * g
    BY <2>1, <2>2
  <2>6. x \div g < n
    BY <2>1, <2>3, <2>5, InBlock
  <2>7. x % g \in Nat /\ x % g < g
    BY <2>3, <2>4
  <2> QED BY <2>4, <2>6, <2>7 DEF x, g, n
<1> QED BY <1>1

\* The points come one after the other.
LEMMA OrdBound ==
  ASSUME Asked, Fits, NEW a \in Covers
  PROVE  Ord(a) \in 0 .. (Product(Blocks) * Product(Sides)) - 1
<1> DEFINE F == Product(Blocks)
           P == Product(Sides)
           x == Flat(Blocks, [d \in Dim |-> a[d] \div Sides[d]])
           y == Flat(Sides, [d \in Dim |-> a[d] % Sides[d]])
<1>1. x \in 0 .. F - 1
  BY BlockOf, BlockFacts, FlatBound
<1>2. y \in 0 .. P - 1
  BY BlockOf, GroupFacts, FlatBound
<1>3. F \in Nat \ {0} /\ P \in Nat \ {0}
  BY BlockFacts, GroupFacts, Widths
<1>4. Ord(a) = (x * P) + y
  BY DEF Ord
<1> HIDE DEF F, P, x, y
<1>5. x * P <= (F - 1) * P /\ (F - 1) * P = (F * P) - P /\ x * P \in Nat /\ F * P \in Nat
  BY <1>1, <1>3
<1>6. Ord(a) \in 0 .. (F * P) - 1
  BY <1>1, <1>2, <1>3, <1>4, <1>5
<1> QED BY <1>6 DEF F, P

LEMMA PointOrd ==
  ASSUME Asked, Fits, NEW f \in 0 .. Product(Blocks) - 1, NEW n \in 0 .. Product(Sides) - 1
  PROVE  /\ Point(f, n) \in Covers
         /\ \A a \in Covers : Ord(a) = (f * Product(Sides)) + n <=> a = Point(f, n)
<1> DEFINE P == Product(Sides)
           p == Point(f, n)
           b == Place(f, Blocks)
           w == Place(n, Sides)
<1>1. /\ b \in [Dim -> Nat] /\ \A d \in Dim : b[d] < Blocks[d]
      /\ Flat(Blocks, b) = f
  BY BlockFacts, PlaceBound
<1>2. /\ w \in [Dim -> Nat] /\ \A d \in Dim : w[d] < Sides[d]
      /\ Flat(Sides, w) = n
  BY GroupFacts, PlaceBound
<1>3. Sides \in [Dim -> Nat \ {0}] /\ Blocks \in [Dim -> Nat \ {0}] /\ P \in Nat \ {0}
  BY GroupFacts, BlockFacts, Widths
<1>4. p = [d \in Dim |-> (b[d] * Sides[d]) + w[d]]
  BY DEF Point
<1> HIDE DEF b, w, p, P
<1>5. ASSUME NEW d \in Dim
      PROVE  /\ p[d] \in Uint /\ p[d] < Extent(d)
             /\ p[d] \div Sides[d] = b[d] /\ p[d] % Sides[d] = w[d]
  <2> DEFINE x == b[d]
             y == w[d]
             s == Sides[d]
             g == Blocks[d]
             m == (x * s) + y
  <2>1. /\ x \in Nat /\ y \in Nat /\ s \in Nat \ {0} /\ g \in Nat \ {0}
        /\ x < g /\ y < s
    BY <1>1, <1>2, <1>3
  <2>2. Extent(d) = g * s /\ p[d] = m
    BY <1>4 DEF Extent, Blocks, Sides
  <2> HIDE DEF x, y, s, g
  <2>3. x * s <= (g - 1) * s /\ (g - 1) * s = (g * s) - s /\ x * s \in Nat /\ g * s \in Nat
    BY <2>1
  <2>4. m \in Nat /\ m < g * s
    BY <2>1, <2>3
  <2>5. m = (s * x) + y
    BY <2>1
  <2> HIDE DEF m
  <2>6. m \div s = x /\ m % s = y
    BY <2>1, <2>4, <2>5, DivUnique
  <2>7. Extent(d) \in 0 .. IntWidth - 1
    BY BlockFacts DEF Uint
  <2>8. p[d] \in Uint /\ p[d] < Extent(d)
    BY <2>2, <2>4, <2>7, Widths DEF Uint
  <2> QED BY <2>2, <2>6, <2>8 DEF x, y, s
<1>6. p \in Covers
  <2>1. p \in [Dim -> Uint]
    BY <1>4, <1>5
  <2> QED BY <1>5, <2>1 DEF Covers, Points
<1>7. Ord(p) = (f * P) + n
  <2>1. [d \in Dim |-> p[d] \div Sides[d]] = b
    BY <1>1, <1>5
  <2>2. [d \in Dim |-> p[d] % Sides[d]] = w
    BY <1>2, <1>5
  <2> QED BY <1>1, <1>2, <2>1, <2>2 DEF Ord, P
<1>8. ASSUME NEW a \in Covers, Ord(a) = (f * P) + n PROVE a = p
  <2> DEFINE c == [d \in Dim |-> a[d] \div Sides[d]]
             v == [d \in Dim |-> a[d] % Sides[d]]
             x == Flat(Blocks, c)
             y == Flat(Sides, v)
  <2>1. /\ c \in [Dim -> Nat] /\ v \in [Dim -> Nat]
        /\ \A d \in Dim : c[d] < Blocks[d] /\ v[d] < Sides[d]
        /\ \A d \in Dim : a[d] = (c[d] * Sides[d]) + v[d]
    BY BlockOf
  <2>2. Ord(a) = (x * P) + y
    BY DEF Ord, P
  <2> HIDE DEF c, v
  <2>3. x \in 0 .. Product(Blocks) - 1 /\ Place(x, Blocks) = c
    BY <1>3, <2>1, FlatBound
  <2>4. y \in 0 .. P - 1 /\ Place(y, Sides) = v
    BY <1>3, <2>1, FlatBound DEF P
  <2> HIDE DEF x, y
  <2>5. x = f /\ y = n
    <3> DEFINE m == (f * P) + n
    <3>1. /\ f \in Int /\ x \in Int /\ m \in Int /\ n \in 0 .. P - 1
          /\ m = (P * f) + n /\ m = (P * x) + y
      <4>1. f \in Int /\ x \in Int /\ n \in 0 .. P - 1
        BY <2>3, BlockFacts DEF P
      <4> QED BY <1>3, <1>8, <2>2, <2>4, <4>1
    <3> HIDE DEF m
    <3>2. m \div P = f
      BY <1>3, <3>1, DivUnique
    <3>3. m \div P = x
      BY <1>3, <2>4, <3>1, DivUnique
    <3>4. x = f
      BY <3>2, <3>3
    <3>5. y = n
      <4> DEFINE k == P * f
      <4>1. k \in Int /\ m = k + n /\ m = k + y
        BY <1>3, <3>1, <3>4
      <4> HIDE DEF k
      <4> QED BY <2>4, <3>1, <4>1
    <3> QED BY <3>4, <3>5
  <2>6. c = b /\ v = w
    BY <2>3, <2>4, <2>5 DEF b, w
  <2>7. a \in [Dim -> Uint]
    BY DEF Covers, Points
  <2> QED BY <1>4, <2>1, <2>6, <2>7
<1>9. ASSUME NEW a \in Covers PROVE Ord(a) = (f * P) + n <=> a = p
  BY <1>7, <1>8
<1> QED BY <1>6, <1>9 DEF p, P

----------------------------------------------------------------------------
(* What the code computes of sizes that fit *)

\* A product of numbers that were cut differs by a multiple of the width from the
\* product of the numbers.
LEMMA CutProduct ==
  ASSUME NEW a \in Int, NEW b \in Int, NEW x \in Int, NEW y \in Int,
         Congruent(x, a), Congruent(y, b)
  PROVE  Congruent(x * y, a * b)
<1>0. PICK p \in Int, q \in Int : x = a + (p * IntWidth) /\ y = b + (q * IntWidth)
  BY DEF Congruent
<1> DEFINE w == IntWidth
           u == p * w
           v == q * w
           r == (a * q) + (p * b) + (p * v)
<1>1. w \in Int
  BY Widths
<1>2. x = a + u /\ y = b + v
  BY <1>0
<1> HIDE DEF w
<1>3. u \in Int /\ v \in Int /\ r \in Int
  BY <1>1
<1>4. a * v = (a * q) * w /\ u * b = (p * b) * w /\ u * v = (p * v) * w
  BY <1>1
<1>5. r * w = ((a * q) * w) + ((p * b) * w) + ((p * v) * w)
  <2>1. a * q \in Int /\ p * b \in Int /\ p * v \in Int
    BY <1>1, <1>3
  <2> DEFINE k == a * q
             l == p * b
             m == p * v
  <2> HIDE DEF k, l, m
  <2>2. (k + l + m) * w = (k * w) + (l * w) + (m * w)
    BY <1>1, <2>1 DEF k, l, m
  <2> QED BY <2>2 DEF k, l, m
<1> HIDE DEF u, v, r
<1>6. x * y = (a * b) + (a * v) + (u * b) + (u * v)
  BY <1>2, <1>3
<1>7. x * y = (a * b) + (r * w)
  <2>1. /\ a * b \in Int /\ (a * q) * w \in Int /\ (p * b) * w \in Int
        /\ (p * v) * w \in Int /\ r * w \in Int
    BY <1>1, <1>3
  <2> QED BY <1>4, <1>5, <1>6, <2>1
<1> QED BY <1>3, <1>7 DEF w, Congruent

LEMMA Converts ==
  ASSUME NEW s \in [Dim -> Nat \ {0}], Product(s) \in 1 .. Half, s[0] * s[1] \in 1 .. Half,
         \A d \in Dim : s[d] \in 1 .. Half,
         NEW size, size = [d \in Dim |-> Signed(s[d])]
  PROVE  /\ xy_size(size) # 0 /\ size[0] # 0 /\ SIZE_DIM2FLAT(size) = Product(s)
         /\ \A n \in 0 .. Product(s) - 1 :
               /\ cvt_flat_to_dim3(n, size) = Place(n, s)
               /\ ~Traps(Signed(n), xy_size(size))
<1> DEFINE a == s[0]
           b == s[1]
           c == s[2]
           xy == a * b
<1>1. size[0] = Signed(a) /\ size[1] = Signed(b) /\ size[2] = Signed(c)
  BY DEF Dim
<1>2. a \in 1 .. Half /\ b \in 1 .. Half /\ c \in 1 .. Half /\ xy \in 1 .. Half
  BY DEF Dim
<1>3. Product(s) = xy * c
  BY DEF Product
<1> HIDE DEF a, b, c
<1>4. a \in Int /\ b \in Int /\ c \in Int /\ xy \in Int
  BY <1>2, Widths
<1> HIDE DEF xy
<1> DEFINE x == Signed(a)
           y == Signed(b)
           z == Signed(c)
           yx == x * y
<1>5. \A n \in Int : Signed(n) \in Int
  BY SignedCuts, Widths DEF Int32, Half
<1>6. /\ x \in Int /\ y \in Int /\ z \in Int
      /\ Congruent(x, a) /\ Congruent(y, b) /\ Congruent(z, c)
  BY <1>4, <1>5, SignedCuts
<1> HIDE DEF x, y, z
<1>7. Congruent(yx, xy) /\ yx \in Int
  BY <1>4, <1>6, CutProduct DEF xy
<1> HIDE DEF yx
<1>13. Signed(yx) = Signed(xy)
  BY <1>4, <1>7, SignedSame
<1>14. xy_size(size) = Signed(xy)
  BY <1>1, <1>13 DEF xy_size, x, y, yx
<1>15. Signed(xy) # 0 /\ Signed(a) # 0
  BY <1>2, SignedIs, Widths
<1>16. SIZE_DIM2FLAT(size) = Product(s)
  <2>1. Congruent(yx * z, xy * c) /\ yx * z \in Int /\ xy * c \in Int
    BY <1>4, <1>6, <1>7, CutProduct
  <2>2. Unsigned(yx * z) = Unsigned(xy * c)
    BY <2>1, UnsignedSame
  <2>3. xy * c \in Uint
    BY <1>3, Widths DEF Uint
  <2>4. Unsigned(xy * c) = xy * c
    BY <2>3, UnsignedIs
  <2> QED BY <1>1, <1>3, <2>2, <2>4 DEF SIZE_DIM2FLAT, x, y, z, yx
<1>17. ASSUME NEW n \in 0 .. Product(s) - 1
       PROVE  cvt_flat_to_dim3(n, size) = Place(n, s) /\ ~Traps(Signed(n), xy_size(size))
  <2>1. n \in 0 .. Half - 1
    BY Widths
  <2>2. Signed(n) = n
    BY <2>1, SignedIs, Widths
  <2> DEFINE tmp == n % xy
  <2>3. tmp \in 0 .. Half - 1
    BY <1>2, <2>1, Widths
  <2>4. Quotient(n, Signed(xy)) = n \div xy /\ Remainder(n, Signed(xy)) = tmp
    BY <1>2, <2>1, DividesNat
  <2> HIDE DEF tmp
  <2>5. Quotient(tmp, Signed(a)) = tmp \div a /\ Remainder(tmp, Signed(a)) = tmp % a
    BY <1>2, <2>3, DividesNat
  <2> DEFINE Z == Quotient(Signed(n), xy_size(size))
             R == Remainder(Signed(n), xy_size(size))
             Y == Quotient(R, size[0])
             X == Remainder(R, size[0])
  <2>6. cvt_flat_to_dim3(n, size) = [d \in Dim |-> CASE d = 2 -> Z [] d = 1 -> Y [] d = 0 -> X]
    BY DEF cvt_flat_to_dim3
  <2>7. Z = n \div xy /\ R = tmp /\ Y = tmp \div a /\ X = tmp % a
    <3>1. Z = n \div xy /\ R = tmp
      BY <1>14, <2>2, <2>4
    <3>2. Y = tmp \div a /\ X = tmp % a
      <4> HIDE DEF R
      <4> QED BY <1>1, <2>5, <3>1
    <3> QED BY <3>1, <3>2
  <2> HIDE DEF Z, Y, X
  <2> HIDE DEF tmp
  <2>8. Place(n, s) = [d \in Dim |-> CASE d = 2 -> n \div xy
                                       [] d = 1 -> tmp \div a
                                       [] d = 0 -> tmp % a]
    BY DEF Place, tmp, xy, a, b
  <2>9. ~Traps(n, Signed(xy))
    BY <1>15, <2>1, Widths DEF Traps, Half
  <2>10. cvt_flat_to_dim3(n, size) = Place(n, s)
    <3> DEFINE f == cvt_flat_to_dim3(n, size)
               g == Place(n, s)
    <3>1. f = [d \in Dim |-> f[d]] /\ g = [d \in Dim |-> g[d]]
      BY <2>6, <2>8
    <3>2. f[2] = Z /\ f[1] = Y /\ f[0] = X
      BY <2>6 DEF Dim
    <3>3. g[2] = n \div xy /\ g[1] = tmp \div a /\ g[0] = tmp % a
      BY <2>8 DEF Dim
    <3> HIDE DEF f, g
    <3>4. \A d \in Dim : f[d] = g[d]
      BY <2>7, <3>2, <3>3, Dims
    <3>5. f = g
      BY <3>1, <3>4
    <3> QED BY <3>5 DEF f, g
  <2> QED BY <1>14, <2>2, <2>9, <2>10
<1> QED BY <1>1, <1>14, <1>15, <1>16, <1>17

----------------------------------------------------------------------------
(* The invariant of a dispatch *)

Started == {"fetch", "items", "done", "trapped"}

\* What hsa_prepare_code_cache set, and how far the groups are given out.
Prepared ==
    /\ Asked /\ group_size = Sides
    /\ grid_size = [d \in Dim |-> Signed(ALIGNMENT_DEV(packet.grid[d], packet.group[d]))]
    /\ flat_group_size = Product(Sides)
    /\ flat_grid_size = SIZE_DIM2FLAT(grid_size)
    /\ finish_id <= flat_grid_size
    /\ pc = "items" => i <= flat_group_size
    /\ pc = "done" => finish_id = flat_grid_size

\* The points that come before the n-th.
Before(n) == {a \in Covers : Ord(a) < n}

\* Where the sizes fit, the work-items so far worked on the first points of the
\* range, each once.
Covered ==
    /\ pc # "trapped"
    /\ IsFiniteSet(executed) /\ ran = Cardinality(executed)
    /\ pc = "items" =>
          /\ finish_id > 0 /\ id = cvt_flat_to_dim3(finish_id - 1, grid_size)
          /\ executed = Before(((finish_id - 1) * Product(Sides)) + i)
    /\ pc # "items" => executed = Before(finish_id * Product(Sides))

\* The inductive invariant of a dispatch.
GeometryIInv ==
    /\ TypeOK
    /\ pc = "prepare" => executed = {} /\ ran = 0
    /\ pc \in Started => Prepared /\ (Fits => Covered)

LEMMA Zeros == Nowhere \in [Dim -> Int32] /\ 0 \in Uint /\ 0 \in Int32
BY Widths DEF Nowhere, Int32, Uint, Half

LEMMA FlatUint == ASSUME NEW s \in [Dim -> Int32] PROVE SIZE_DIM2FLAT(s) \in Uint
<1>1. s[0] \in Int /\ s[1] \in Int /\ s[2] \in Int
  BY Widths DEF Dim, Int32, Half
<1>2. s[0] * s[1] * s[2] \in Int
  BY <1>1
<1> QED BY <1>2, UnsignedCuts DEF SIZE_DIM2FLAT

\* A kernel that was asked for is prepared with sizes in their types.
LEMMA GridTyped ==
  ASSUME Asked
  PROVE  [d \in Dim |-> Signed(ALIGNMENT_DEV(packet.grid[d], packet.group[d]))] \in [Dim -> Int32]
<1>1. ASSUME NEW d \in Dim
      PROVE  Signed(ALIGNMENT_DEV(packet.grid[d], packet.group[d])) \in Int32
  <2>1. packet.grid[d] \in Int /\ packet.group[d] \in Nat \ {0}
    BY GroupFacts, Widths DEF Uint, Sides
  <2>2. Unsigned(packet.grid[d] + packet.group[d] - 1) \in Int
    <3>1. packet.grid[d] + packet.group[d] - 1 \in Int
      BY <2>1
    <3>2. \A n \in Uint : n \in Int
      BY Widths DEF Uint
    <3> QED BY <3>1, <3>2, UnsignedCuts
  <2>3. ALIGNMENT_DEV(packet.grid[d], packet.group[d]) \in Int
    BY <2>1, <2>2 DEF ALIGNMENT_DEV
  <2> QED BY <2>3, SignedCuts
<1> QED BY <1>1

\* The division of hsa_get_work is one where a group is left: the number of groups
\* is 0 where the product of two sides is.
LEMMA GridDivides ==
  ASSUME NEW s \in [Dim -> Int32], SIZE_DIM2FLAT(s) # 0
  PROVE  s[0] # 0 /\ xy_size(s) # 0
<1> DEFINE x == s[0]
           y == s[1]
           z == s[2]
           xy == x * y
<1>1. x \in Int /\ y \in Int /\ z \in Int
  BY Widths DEF Dim, Int32, Half
<1>2. xy_size(s) = Signed(xy) /\ SIZE_DIM2FLAT(s) = Unsigned(xy * z)
  BY DEF xy_size, SIZE_DIM2FLAT
<1>3. 0 \in Uint /\ Unsigned(0) = 0 /\ 0 \in 0 .. Half /\ Signed(0) = 0
  BY Zeros, UnsignedIs, SignedIs, Widths
<1> HIDE DEF x, y, z
<1>4. xy \in Int
  BY <1>1
<1>5. x = 0 => xy = 0
  BY <1>1
<1> HIDE DEF xy
<1>6. Signed(xy) # 0
  <2> SUFFICES ASSUME Signed(xy) = 0 PROVE FALSE
    OBVIOUS
  <2>1. Congruent(0, xy)
    BY <1>4, SignedCuts
  <2>2. PICK q \in Int : 0 = xy + (q * IntWidth)
    BY <2>1 DEF Congruent
  <2>3. xy * z = 0 + ((-(q * z)) * IntWidth) /\ -(q * z) \in Int /\ xy * z \in Int
    <3> DEFINE w == IntWidth
    <3>1. w \in Int
      BY Widths
    <3>2. 0 = xy + (q * w)
      BY <2>2
    <3> HIDE DEF w
    <3>3. xy = -(q * w)
      BY <1>4, <3>1, <3>2
    <3>4. (-(q * w)) * z = (-(q * z)) * w
      BY <1>1, <3>1
    <3>5. xy * z = 0 + ((-(q * z)) * w)
      BY <1>1, <3>1, <3>3, <3>4
    <3> QED BY <1>1, <1>4, <3>5 DEF w
  <2>4. Congruent(xy * z, 0)
    BY <2>3 DEF Congruent
  <2>5. Unsigned(xy * z) = 0
    BY <1>3, <2>3, <2>4, UnsignedSame
  <2> QED BY <1>2, <2>5
<1>7. x # 0
  BY <1>3, <1>5, <1>6
<1> QED BY <1>2, <1>6, <1>7 DEF x

\* The coordinates of a group are ints.
LEMMA CoordinatesTyped ==
  ASSUME NEW n \in Int, NEW s \in [Dim -> Int32], s[0] # 0, xy_size(s) # 0,
         ~Traps(Signed(n), xy_size(s))
  PROVE  cvt_flat_to_dim3(n, s) \in [Dim -> Int32]
<1> DEFINE m == Signed(n)
           xy == xy_size(s)
           x == s[0]
           tmp == Remainder(m, xy)
<1>1. x \in Int32 /\ s[1] \in Int32
  BY DEF Dim
<1>2. s[0] * s[1] \in Int
  BY <1>1, Widths DEF Int32, Half
<1>3. m \in Int32 /\ xy \in Int32
  BY <1>2, SignedCuts DEF xy_size
<1>4. cvt_flat_to_dim3(n, s) = [d \in Dim |-> CASE d = 2 -> Quotient(m, xy)
                                                [] d = 1 -> Quotient(tmp, x)
                                                [] d = 0 -> Remainder(tmp, x)]
  BY DEF cvt_flat_to_dim3
<1>5. xy # 0 /\ x # 0 /\ ~Traps(m, xy)
  OBVIOUS
<1> HIDE DEF m, xy, x
<1>6. Quotient(m, xy) \in Int32 /\ tmp \in Int32 /\ tmp # -Half
  BY <1>3, <1>5, Divides
<1> HIDE DEF tmp
<1>7. ~Traps(tmp, x)
  BY <1>5, <1>6 DEF Traps, Half
<1>8. Quotient(tmp, x) \in Int32 /\ Remainder(tmp, x) \in Int32
  BY <1>1, <1>5, <1>6, <1>7, Divides
<1>9. ASSUME NEW d \in Dim PROVE cvt_flat_to_dim3(n, s)[d] \in Int32
  BY <1>4, <1>6, <1>8, Dims
<1> QED BY <1>4, <1>9

\* A group is converted without a division by zero.
LEMMA SidesConvert ==
  ASSUME Asked
  PROVE  /\ Sides[0] # 0 /\ xy_size(Sides) # 0
         /\ \A n \in 0 .. Product(Sides) - 1 : cvt_flat_to_dim3(n, Sides) = Place(n, Sides)
<1> DEFINE s == Sides
<1>1. /\ s \in [Dim -> Nat \ {0}] /\ \A d \in Dim : s[d] \in 1 .. Half - 1
      /\ Product(s) \in 1 .. Half - 1 /\ s[0] * s[1] \in 1 .. Half - 1
  BY GroupFacts
<1> HIDE DEF s
<1>2. /\ Product(s) \in 1 .. Half /\ s[0] * s[1] \in 1 .. Half
      /\ \A d \in Dim : s[d] \in 1 .. Half /\ s[d] \in 0 .. Half /\ s[d] < Half
  BY <1>1, Widths
<1>3. s = [d \in Dim |-> Signed(s[d])]
  <2>1. \A d \in Dim : Signed(s[d]) = s[d]
    BY <1>2, SignedIs
  <2> QED BY <1>1, <2>1
<1>4. /\ xy_size(s) # 0 /\ s[0] # 0
      /\ \A n \in 0 .. Product(s) - 1 : cvt_flat_to_dim3(n, s) = Place(n, s)
  BY <1>1, <1>2, <1>3, Converts
<1> QED BY <1>4 DEF s

\* Where the sizes fit, so are the blocks.
LEMMA BlocksConvert ==
  ASSUME Prepared, Fits
  PROVE  /\ flat_grid_size = Product(Blocks)
         /\ \A n \in 0 .. Product(Blocks) - 1 :
               /\ cvt_flat_to_dim3(n, grid_size) = Place(n, Blocks)
               /\ ~Traps(Signed(n), xy_size(grid_size))
         /\ \A d \in Dim : WorkNDRangesize(d) = Extent(d)
<1> DEFINE s == Blocks
<1>1. Asked
  BY DEF Prepared
<1>2. /\ s \in [Dim -> Nat \ {0}] /\ \A d \in Dim : s[d] \in 1 .. Half
      /\ Product(s) \in 1 .. Half /\ s[0] * s[1] \in 1 .. Half
      /\ \A d \in Dim : /\ Extent(d) \in Uint
                        /\ ALIGNMENT_DEV(packet.grid[d], packet.group[d]) = Groups(d)
  BY <1>1, BlockFacts
<1>3. grid_size = [d \in Dim |-> Signed(s[d])]
  BY <1>2 DEF Prepared, Blocks
<1>4. \A d \in Dim : Extent(d) = s[d] * Sides[d]
  BY DEF Extent, Blocks, Sides
<1> HIDE DEF s
<1>5. /\ SIZE_DIM2FLAT(grid_size) = Product(s)
      /\ \A n \in 0 .. Product(s) - 1 :
            /\ cvt_flat_to_dim3(n, grid_size) = Place(n, s)
            /\ ~Traps(Signed(n), xy_size(grid_size))
  BY <1>2, <1>3, Converts
<1>6. ASSUME NEW d \in Dim PROVE WorkNDRangesize(d) = Extent(d)
  <2> DEFINE b == s[d]
             g == Sides[d]
             x == Signed(b)
  <2>1. b \in Int /\ g \in Int
    BY <1>1, <1>2, GroupFacts, Widths
  <2>2. WorkNDRangesize(d) = Unsigned(x * g)
    BY <1>3 DEF WorkNDRangesize, Prepared
  <2>3. Extent(d) = b * g /\ Extent(d) \in Uint
    BY <1>2, <1>4
  <2> HIDE DEF b, g
  <2>4. x \in Int /\ Congruent(x, b)
    BY <2>1, SignedCuts, Widths DEF Int32, Half
  <2> HIDE DEF x
  <2>5. g = g + (0 * IntWidth)
    BY <2>1, Widths
  <2>6. Congruent(g, g)
    BY <2>5 DEF Congruent
  <2>7. Congruent(x * g, b * g) /\ x * g \in Int /\ b * g \in Int
    BY <2>1, <2>4, <2>6, CutProduct
  <2>8. Unsigned(x * g) = Unsigned(b * g)
    BY <2>7, UnsignedSame
  <2> QED BY <2>2, <2>3, <2>8, UnsignedIs
<1> QED BY <1>5, <1>6 DEF s, Prepared

----------------------------------------------------------------------------
(* The steps of a dispatch *)

\* What is asked for does not change after the packet was read.
LEMMA PacketStays ==
  ASSUME packet' = packet
  PROVE  /\ Asked' <=> Asked
         /\ Fits' <=> Fits
         /\ Sides' = Sides
         /\ \A n : Before(n)' = Before(n)
BY DEF Asked, Fits, Groups, Sides, Before, Covers, Points, Extent, Ord, Blocks, Flat, Product

\* The work-item that runs next is at the next point.
LEMMA NextPoint ==
  ASSUME TypeOK, Prepared, Fits, Covered, pc = "items", i < flat_group_size
  PROVE  /\ WorkItemAId = Point(finish_id - 1, i)
         /\ finish_id - 1 \in 0 .. Product(Blocks) - 1 /\ i \in 0 .. Product(Sides) - 1
<1>1. Asked /\ group_size = Sides
  BY DEF Prepared
<1>2. finish_id \in Nat /\ i \in Nat
  BY Widths DEF TypeOK, Uint
<1>3. Product(Blocks) \in Nat /\ Product(Sides) \in Nat
  BY <1>1, GroupFacts, BlockFacts, Widths
<1>4. flat_grid_size = Product(Blocks)
  BY BlocksConvert
<1>5. finish_id - 1 \in 0 .. Product(Blocks) - 1
  BY <1>2, <1>3, <1>4 DEF Prepared, Covered
<1>6. i \in 0 .. Product(Sides) - 1
  BY <1>2, <1>3 DEF Prepared
<1>7. id = Place(finish_id - 1, Blocks)
  BY <1>5, BlocksConvert DEF Covered
<1>8. WorkItemId = Place(i, Sides)
  BY <1>1, <1>6, SidesConvert DEF WorkItemId
<1>9. Point(finish_id - 1, i) \in [Dim -> Uint]
  BY <1>1, <1>5, <1>6, PointOrd DEF Covers, Points
<1>10. ASSUME NEW d \in Dim
       PROVE  Unsigned(id[d] * group_size[d] + WorkItemId[d]) = Point(finish_id - 1, i)[d]
  <2>1. Point(finish_id - 1, i)[d] = (id[d] * group_size[d]) + WorkItemId[d]
    BY <1>1, <1>7, <1>8 DEF Point
  <2>2. Point(finish_id - 1, i)[d] \in Uint
    BY <1>9
  <2> QED BY <2>1, <2>2, UnsignedIs
<1>11. WorkItemAId = Point(finish_id - 1, i)
  <2> DEFINE p == Point(finish_id - 1, i)
             a == WorkItemAId
  <2>1. p = [d \in Dim |-> p[d]]
    BY DEF Point
  <2>2. a = [d \in Dim |-> a[d]]
    BY DEF WorkItemAId
  <2>3. \A d \in Dim : a[d] = p[d]
    BY <1>10 DEF WorkItemAId
  <2> HIDE DEF p, a
  <2>4. a = p
    BY <2>1, <2>2, <2>3
  <2> QED BY <2>4 DEF p, a
<1> QED BY <1>5, <1>6, <1>11

\* It was not worked on before, and with it the first points are one more.
LEMMA OneMore ==
  ASSUME Asked, Fits, NEW f \in 0 .. Product(Blocks) - 1, NEW n \in 0 .. Product(Sides) - 1
  PROVE  /\ Point(f, n) \notin Before((f * Product(Sides)) + n)
         /\ Before((f * Product(Sides)) + n) \cup {Point(f, n)}
              = Before((f * Product(Sides)) + (n + 1))
<1> DEFINE m == (f * Product(Sides)) + n
           p == Point(f, n)
<1>1. p \in Covers /\ \A a \in Covers : Ord(a) = m <=> a = p
  BY PointOrd
<1>2. \A a \in Covers : Ord(a) \in Int
  BY OrdBound
<1>3. m \in Int /\ (f * Product(Sides)) + (n + 1) = m + 1
  BY GroupFacts, BlockFacts, Widths
<1> HIDE DEF m, p
<1>4. Ord(p) = m
  BY <1>1
<1>5. p \notin Before(m)
  BY <1>3, <1>4 DEF Before
<1>6. Before(m) \cup {p} = Before(m + 1)
  <2>1. ASSUME NEW a \in Covers PROVE Ord(a) < m + 1 <=> Ord(a) < m \/ a = p
    BY <1>1, <1>2, <1>3
  <2> QED BY <1>1, <2>1 DEF Before
<1> QED BY <1>3, <1>5, <1>6 DEF m, p

LEMMA RefuseKeeps == GeometryIInv /\ Refuse => GeometryIInv'
<1> SUFFICES ASSUME GeometryIInv, Refuse PROVE GeometryIInv'
  OBVIOUS
<1>1. TypeOK'
  BY DEF GeometryIInv, TypeOK, Refuse, sizes
<1> QED BY <1>1 DEF GeometryIInv, Refuse, Started

LEMMA PrepareKeeps == GeometryIInv /\ Prepare => GeometryIInv'
<1> SUFFICES ASSUME GeometryIInv, Prepare PROVE GeometryIInv'
  OBVIOUS
<1>1. /\ pc' = "fetch" /\ finish_id' = 0 /\ UNCHANGED <<packet, id, i, executed, ran>>
      /\ executed = {} /\ ran = 0 /\ TypeOK
      /\ group_size' = [d \in Dim |-> Signed(packet.group[d])]
      /\ flat_group_size' = SIZE_DIM2FLAT(group_size')
      /\ grid_size' = [d \in Dim |-> Signed(ALIGNMENT_DEV(packet.grid[d], packet.group[d]))]
      /\ flat_grid_size' = SIZE_DIM2FLAT(grid_size')
  BY DEF GeometryIInv, Prepare
<1>2. Asked
  BY DEF GeometryIInv, TypeOK, Prepare, Asked
<1>3. /\ \A d \in Dim : Sides[d] \in 0 .. Half /\ Sides[d] < Half
      /\ Sides \in [Dim -> Nat \ {0}] /\ Product(Sides) \in Uint
      /\ \A d \in Dim : Sides[d] \in Int32
  BY <1>2, GroupFacts, Widths DEF Uint, Int32, Half
<1>4. group_size' = Sides
  <2>1. \A d \in Dim : Signed(packet.group[d]) = packet.group[d]
    BY <1>3, SignedIs DEF Sides
  <2> QED BY <1>1, <1>3, <2>1 DEF Sides
<1>5. flat_group_size' = Product(Sides)
  BY <1>1, <1>3, <1>4, UnsignedIs DEF SIZE_DIM2FLAT, Product
<1>6. grid_size' \in [Dim -> Int32] /\ flat_grid_size' \in Uint
  <2>1. grid_size' \in [Dim -> Int32]
    BY <1>1, <1>2, GridTyped
  <2>2. \A s \in [Dim -> Int32] : SIZE_DIM2FLAT(s) \in Uint
    BY FlatUint
  <2> QED BY <1>1, <2>1, <2>2
<1>7. TypeOK'
  <2>1. group_size' \in [Dim -> Int32]
    BY <1>3, <1>4
  <2> QED BY <1>1, <1>3, <1>5, <1>6, <2>1, Zeros DEF TypeOK
<1>8. Prepared'
  <2>1. finish_id' <= flat_grid_size'
    BY <1>1, <1>6, Widths DEF Uint
  <2>2. Asked' /\ Sides' = Sides
    BY <1>1, <1>2, PacketStays
  <2>3. Product(Sides)' = Product(Sides)
    BY <2>2 DEF Product
  <2>4. grid_size' = [d \in Dim |-> Signed(ALIGNMENT_DEV(packet'.grid[d], packet'.group[d]))]
    BY <1>1
  <2>5. flat_grid_size' = SIZE_DIM2FLAT(grid_size)'
    BY <1>1 DEF SIZE_DIM2FLAT
  <2> QED BY <1>1, <1>4, <1>5, <2>1, <2>2, <2>3, <2>4, <2>5 DEF Prepared
<1>9. Fits' => Covered'
  <2> SUFFICES ASSUME Fits' PROVE Covered'
    OBVIOUS
  <2>1. Fits
    BY <1>1, PacketStays
  <2>2. \A a \in Covers : ~(Ord(a) < 0)
    BY <1>2, <2>1, OrdBound
  <2>3. 0 * Product(Sides) = 0 /\ Before(0) = {}
    BY <1>2, <2>2, GroupFacts, Widths DEF Before
  <2>4. (finish_id * Product(Sides))' = 0
    BY <1>1, <2>3 DEF Sides, Product
  <2>5. Before(finish_id * Product(Sides))' = {}
    BY <1>1, <2>3, <2>4, PacketStays DEF Before, Covers, Points, Extent, Ord, Groups, Blocks, Flat, Sides, Product
  <2> QED BY <1>1, <2>5, FS_EmptySet DEF Covered
<1> QED BY <1>1, <1>7, <1>8, <1>9 DEF GeometryIInv

\* A dispatch whose sizes do not change stays prepared, with the same range.
LEMMA PreparedStays ==
  ASSUME TypeOK, Prepared, UNCHANGED <<packet, sizes>>,
         finish_id' <= flat_grid_size, pc' = "items" => i' <= flat_group_size,
         pc' = "done" => finish_id' = flat_grid_size
  PROVE  Prepared'
<1>1. /\ packet' = packet /\ group_size' = group_size /\ grid_size' = grid_size
      /\ flat_group_size' = flat_group_size /\ flat_grid_size' = flat_grid_size
  BY DEF sizes
<1>2. Asked' /\ Sides' = Sides
  BY <1>1, PacketStays DEF Prepared
<1>3. Product(Sides)' = Product(Sides) /\ SIZE_DIM2FLAT(grid_size)' = SIZE_DIM2FLAT(grid_size)
  BY <1>1, <1>2 DEF Product, SIZE_DIM2FLAT
<1>4. grid_size' = [d \in Dim |-> Signed(ALIGNMENT_DEV(packet'.grid[d], packet'.group[d]))]
  BY <1>1 DEF Prepared
<1> QED BY <1>1, <1>2, <1>3, <1>4 DEF Prepared

LEMMA CoversStay ==
  ASSUME packet' = packet
  PROVE  /\ Covers' = Covers /\ Product(Sides)' = Product(Sides)
         /\ \A a : Ord(a)' = Ord(a)
BY DEF Groups, Sides, Covers, Points, Extent, Ord, Blocks, Flat, Product

\* How far the range is covered before and after a step between two groups.
LEMMA CoveredAt ==
  ASSUME packet' = packet, IsFiniteSet(executed'), ran' = Cardinality(executed'),
         pc' # "trapped",
         pc' = "items" => /\ finish_id' > 0
                          /\ id' = cvt_flat_to_dim3(finish_id' - 1, grid_size')
                          /\ executed' = Before(((finish_id' - 1) * Product(Sides)) + i'),
         pc' # "items" => executed' = Before(finish_id' * Product(Sides))
  PROVE  Covered'
<1>1. /\ Covers' = Covers /\ Product(Sides)' = Product(Sides)
      /\ \A a : Ord(a)' = Ord(a)
  BY CoversStay
<1>2. pc' = "items" => executed' = Before(((finish_id - 1) * Product(Sides)) + i)'
  BY <1>1 DEF Before
<1>3. pc' # "items" => executed' = Before(finish_id * Product(Sides))'
  BY <1>1 DEF Before
<1>4. pc' = "items" => id' = cvt_flat_to_dim3(finish_id - 1, grid_size)'
  BY DEF cvt_flat_to_dim3, xy_size
<1> QED BY <1>2, <1>3, <1>4 DEF Covered

LEMMA GetWorkKeeps == GeometryIInv /\ GetWork => GeometryIInv'
<1> SUFFICES ASSUME GeometryIInv, GetWork PROVE GeometryIInv'
  OBVIOUS
<1>1. /\ pc = "fetch" /\ pc' = "items" /\ i' = 0 /\ finish_id # flat_grid_size
      /\ ~Traps(Signed(finish_id), xy_size(grid_size))
      /\ id' = cvt_flat_to_dim3(finish_id, grid_size)
      /\ finish_id' = Unsigned(finish_id + 1)
      /\ UNCHANGED <<packet, sizes, executed, ran>>
      /\ UNCHANGED <<group_size, grid_size, flat_group_size, flat_grid_size>>
  BY DEF GetWork, sizes
<1>2. TypeOK /\ Prepared /\ (Fits => Covered)
  BY <1>1 DEF GeometryIInv, Started
<1>3. finish_id \in Nat /\ flat_grid_size \in 0 .. IntWidth - 1 /\ finish_id <= flat_grid_size
  BY <1>2, Widths DEF TypeOK, Prepared, Uint
<1>4. finish_id + 1 \in Uint /\ finish_id + 1 <= flat_grid_size
  BY <1>1, <1>3, Widths DEF Uint
<1>5. finish_id' = finish_id + 1
  BY <1>1, <1>4, UnsignedIs
<1>6. flat_grid_size # 0
  BY <1>1, <1>3
<1>7. id' \in [Dim -> Int32]
  <2>1. grid_size \in [Dim -> Int32] /\ SIZE_DIM2FLAT(grid_size) # 0
    BY <1>2, <1>6 DEF TypeOK, Prepared
  <2>2. grid_size[0] # 0 /\ xy_size(grid_size) # 0
    BY <2>1, GridDivides
  <2>3. finish_id \in Int
    BY <1>3
  <2> QED BY <1>1, <2>1, <2>2, <2>3, CoordinatesTyped
<1>8. TypeOK'
  BY <1>1, <1>2, <1>4, <1>5, <1>7, Zeros DEF TypeOK
<1>9. Prepared'
  <2>1. 0 <= flat_group_size
    BY <1>2, Widths DEF TypeOK, Uint
  <2> QED BY <1>1, <1>2, <1>4, <1>5, <2>1, PreparedStays
<1>10. ASSUME Fits' PROVE Covered'
  <2>1. Fits /\ Covered
    BY <1>1, <1>2, <1>10, PacketStays
  <2>2. finish_id' - 1 = finish_id /\ finish_id' > 0
    BY <1>3, <1>5
  <2>3. Product(Sides) \in Nat
    BY <1>2, GroupFacts, Widths DEF Prepared
  <2>4. ((finish_id' - 1) * Product(Sides)) + i' = finish_id * Product(Sides)
    BY <1>1, <1>3, <2>2, <2>3
  <2>5. executed' = Before(((finish_id' - 1) * Product(Sides)) + i')
    BY <1>1, <2>1, <2>4 DEF Covered
  <2> QED BY <1>1, <2>1, <2>2, <2>5, CoveredAt DEF Covered
<1> QED BY <1>1, <1>8, <1>9, <1>10 DEF GeometryIInv

LEMMA GetWorkTrapsKeeps == GeometryIInv /\ GetWorkTraps => GeometryIInv'
<1> SUFFICES ASSUME GeometryIInv, GetWorkTraps PROVE GeometryIInv'
  OBVIOUS
<1>1. /\ pc = "fetch" /\ pc' = "trapped" /\ finish_id # flat_grid_size
      /\ Traps(Signed(finish_id), xy_size(grid_size))
      /\ UNCHANGED <<packet, sizes, finish_id, id, i, executed, ran>>
  BY DEF GetWorkTraps
<1>2. TypeOK /\ Prepared /\ (Fits => Covered)
  BY <1>1 DEF GeometryIInv, Started
<1>3. TypeOK'
  BY <1>1, <1>2 DEF TypeOK, sizes
<1>4. Prepared'
  BY <1>1, <1>2, PreparedStays DEF Prepared
<1>5. ~Fits'
  <2> SUFFICES ASSUME Fits PROVE FALSE
    BY <1>1, PacketStays
  <2>1. Product(Blocks) \in Nat /\ finish_id \in Nat
    BY <1>2, BlockFacts, Widths DEF Prepared, TypeOK, Uint
  <2>2. finish_id <= Product(Blocks) /\ finish_id # Product(Blocks)
    BY <1>1, <1>2, BlocksConvert DEF Prepared
  <2>3. finish_id \in 0 .. Product(Blocks) - 1
    BY <2>1, <2>2
  <2> QED BY <1>1, <1>2, <2>3, BlocksConvert
<1> QED BY <1>1, <1>3, <1>4, <1>5 DEF GeometryIInv

LEMMA NoWorkKeeps == GeometryIInv /\ NoWork => GeometryIInv'
<1> SUFFICES ASSUME GeometryIInv, NoWork PROVE GeometryIInv'
  OBVIOUS
<1>1. /\ pc = "fetch" /\ pc' = "done" /\ finish_id = flat_grid_size
      /\ UNCHANGED <<packet, sizes, finish_id, id, i, executed, ran>>
  BY DEF NoWork
<1>2. TypeOK /\ Prepared /\ (Fits => Covered)
  BY <1>1 DEF GeometryIInv, Started
<1>3. TypeOK'
  BY <1>1, <1>2 DEF TypeOK, sizes
<1>4. Prepared'
  BY <1>1, <1>2, PreparedStays DEF Prepared
<1>5. ASSUME Fits' PROVE Covered'
  <2>1. Fits /\ Covered
    BY <1>1, <1>2, <1>5, PacketStays
  <2>2. executed' = Before(finish_id' * Product(Sides))
    BY <1>1, <2>1 DEF Covered
  <2> QED BY <1>1, <2>1, <2>2, CoveredAt DEF Covered
<1> QED BY <1>1, <1>3, <1>4, <1>5 DEF GeometryIInv

LEMMA ExecuteKeeps == GeometryIInv /\ Execute => GeometryIInv'
<1> SUFFICES ASSUME GeometryIInv, Execute PROVE GeometryIInv'
  OBVIOUS
<1>1. /\ pc = "items" /\ pc' = "items" /\ i < flat_group_size
      /\ executed' = executed \cup {WorkItemAId}
      /\ ran' = ran + 1 /\ i' = i + 1
      /\ UNCHANGED <<packet, sizes, finish_id, id>>
      /\ UNCHANGED <<group_size, grid_size, flat_group_size, flat_grid_size>>
  BY DEF Execute, sizes
<1>2. TypeOK /\ Prepared /\ (Fits => Covered)
  BY <1>1 DEF GeometryIInv, Started
<1>3. i \in Nat /\ flat_group_size \in 0 .. IntWidth - 1
  BY <1>2, Widths DEF TypeOK, Uint
<1>4. i' \in Uint /\ i' <= flat_group_size
  BY <1>1, <1>3, Widths DEF Uint
<1>5. WorkItemAId \in [Dim -> Uint]
  <2>1. Asked /\ group_size = Sides /\ flat_group_size = Product(Sides)
    BY <1>2 DEF Prepared
  <2>2. i \in 0 .. Product(Sides) - 1
    BY <1>1, <1>3, <2>1
  <2>3. WorkItemId \in [Dim -> Nat]
    BY <2>1, <2>2, SidesConvert, GroupFacts, PlaceBound DEF WorkItemId
  <2>4. ASSUME NEW d \in Dim PROVE Unsigned(id[d] * group_size[d] + WorkItemId[d]) \in Uint
    <3>1. id[d] \in Int /\ group_size[d] \in Int /\ WorkItemId[d] \in Int
      BY <1>2, <2>3, Widths DEF TypeOK, Int32, Half
    <3>2. id[d] * group_size[d] + WorkItemId[d] \in Int
      BY <3>1
    <3> QED BY <3>2, UnsignedCuts
  <2> QED BY <2>4 DEF WorkItemAId
<1>6. TypeOK'
  BY <1>1, <1>2, <1>4, <1>5 DEF TypeOK
<1>7. Prepared'
  BY <1>1, <1>2, <1>4, PreparedStays DEF Prepared
<1>8. ASSUME Fits' PROVE Covered'
  <2>1. Fits /\ Covered /\ Asked
    BY <1>1, <1>2, <1>8, PacketStays DEF Prepared
  <2> DEFINE f == finish_id - 1
             p == Point(f, i)
             m == (f * Product(Sides)) + i
  <2>2. /\ WorkItemAId = p
        /\ f \in 0 .. Product(Blocks) - 1 /\ i \in 0 .. Product(Sides) - 1
    BY <1>1, <1>2, <2>1, NextPoint
  <2>3. executed = Before(m) /\ IsFiniteSet(executed) /\ ran = Cardinality(executed)
    BY <1>1, <2>1 DEF Covered
  <2> HIDE DEF f
  <2>4. p \notin Before(m) /\ Before(m) \cup {p} = Before((f * Product(Sides)) + (i + 1))
    BY <2>1, <2>2, OneMore
  <2>5. executed' = Before((f * Product(Sides)) + (i + 1))
    BY <1>1, <2>2, <2>3, <2>4
  <2>6. IsFiniteSet(executed') /\ ran' = Cardinality(executed')
    <3>1. executed' = executed \cup {p} /\ p \notin executed
      BY <1>1, <2>2, <2>3, <2>4
    <3> HIDE DEF p
    <3> QED BY <1>1, <2>3, <3>1, FS_AddElement
  <2>7. executed' = Before(((finish_id' - 1) * Product(Sides)) + i')
    BY <1>1, <2>5 DEF f
  <2>8. finish_id' > 0 /\ id' = cvt_flat_to_dim3(finish_id' - 1, grid_size')
    BY <1>1, <2>1 DEF Covered
  <2> QED BY <1>1, <2>6, <2>7, <2>8, CoveredAt
<1> QED BY <1>1, <1>6, <1>7, <1>8 DEF GeometryIInv

LEMMA EndGroupKeeps == GeometryIInv /\ EndGroup => GeometryIInv'
<1> SUFFICES ASSUME GeometryIInv, EndGroup PROVE GeometryIInv'
  OBVIOUS
<1>1. /\ pc = "items" /\ pc' = "fetch" /\ i = flat_group_size
      /\ UNCHANGED <<packet, sizes, finish_id, id, i, executed, ran>>
  BY DEF EndGroup
<1>2. TypeOK /\ Prepared /\ (Fits => Covered)
  BY <1>1 DEF GeometryIInv, Started
<1>3. TypeOK'
  BY <1>1, <1>2 DEF TypeOK, sizes
<1>4. Prepared'
  BY <1>1, <1>2, PreparedStays DEF Prepared
<1>5. ASSUME Fits' PROVE Covered'
  <2>1. Fits /\ Covered
    BY <1>1, <1>2, <1>5, PacketStays
  <2>2. finish_id \in Int /\ Product(Sides) \in Int /\ i = Product(Sides)
    BY <1>1, <1>2, GroupFacts, Widths DEF TypeOK, Uint, Prepared
  <2>3. ((finish_id - 1) * Product(Sides)) + i = finish_id * Product(Sides)
    BY <2>2
  <2>4. executed' = Before(finish_id' * Product(Sides))
    BY <1>1, <2>1, <2>3 DEF Covered
  <2> QED BY <1>1, <2>1, <2>4, CoveredAt DEF Covered
<1> QED BY <1>1, <1>3, <1>4, <1>5 DEF GeometryIInv

LEMMA GeometryStep == GeometryIInv /\ Next => GeometryIInv'
BY RefuseKeeps, PrepareKeeps, GetWorkKeeps, GetWorkTrapsKeeps, NoWorkKeeps, ExecuteKeeps,
   EndGroupKeeps DEF Next

LEMMA GeometryUnchanged == GeometryIInv /\ UNCHANGED vars => GeometryIInv'
<1> SUFFICES ASSUME GeometryIInv, UNCHANGED vars PROVE GeometryIInv'
  OBVIOUS
<1>1. /\ pc' = pc /\ finish_id' = finish_id /\ id' = id /\ i' = i /\ executed' = executed
      /\ ran' = ran /\ UNCHANGED <<packet, sizes>>
      /\ UNCHANGED <<group_size, grid_size, flat_group_size, flat_grid_size>>
  BY DEF vars, sizes
<1>2. TypeOK'
  BY <1>1 DEF GeometryIInv, TypeOK
<1>3. ASSUME pc \in Started PROVE Prepared' /\ (Fits' => Covered')
  <2>1. TypeOK /\ Prepared /\ (Fits => Covered)
    BY <1>3 DEF GeometryIInv
  <2>2. Prepared'
    BY <1>1, <2>1, PreparedStays DEF Prepared
  <2>3. ASSUME Fits' PROVE Covered'
    <3>1. Covered
      BY <1>1, <2>1, <2>3, PacketStays
    <3> QED BY <1>1, <3>1, CoveredAt DEF Covered
  <2> QED BY <2>2, <2>3
<1> QED BY <1>1, <1>2, <1>3 DEF GeometryIInv

----------------------------------------------------------------------------
(* The machine *)

\* Nothing was computed before the guest has a dispatch.
Fresh ==
    /\ pc = "boot" /\ packet = NoPacket
    /\ group_size = Nowhere /\ grid_size = Nowhere
    /\ flat_group_size = 0 /\ flat_grid_size = 0
    /\ finish_id = 0 /\ id = Nowhere /\ i = 0 /\ executed = {} /\ ran = 0

\* The inductive invariant.
IInv == TopologyIInv /\ (Fresh \/ GeometryIInv)

\* The table stays while the guest dispatches.
LEMMA SubmitKeeps == IInv /\ Submit => IInv'
<1> SUFFICES ASSUME IInv, Submit PROVE IInv'
  OBVIOUS
<1>1. /\ pc = "boot" /\ pc' = "prepare" /\ packet' \in Packets /\ answer' = NoAnswer
      /\ UNCHANGED <<sizes, finish_id, id, i, executed, ran, tables>>
  BY DEF Submit
<1>2. TopologyIInv'
  BY <1>1, TopologyForgets DEF IInv
<1>3. Fresh
  BY <1>1 DEF IInv, GeometryIInv, TypeOK
<1>4. TypeOK'
  BY <1>1, <1>3, Zeros DEF Fresh, TypeOK, sizes
<1> QED BY <1>1, <1>2, <1>3, <1>4 DEF IInv, Fresh, GeometryIInv, Started

\* IInv is an invariant of the machine.
THEOREM Invariance == MachineSpec => []IInv
<1>1. MachineInit => IInv
  <2>1. MachineInit => Fresh
    BY DEF MachineInit, Fresh
  <2> QED BY <2>1, TopologyInitial DEF MachineInit, IInv
<1>2. IInv /\ [MachineNext]_machineVars => IInv'
  <2> SUFFICES ASSUME IInv, [MachineNext]_machineVars PROVE IInv'
    OBVIOUS
  <2>1. CASE pc = "boot" /\ TopologyNext /\ UNCHANGED vars
    <3>1. TopologyIInv'
      BY <2>1, TopologyStep DEF IInv
    <3>2. Fresh'
      <4>1. Fresh
        BY <2>1 DEF IInv, GeometryIInv, TypeOK
      <4> QED BY <2>1, <4>1 DEF Fresh, vars, sizes
    <3> QED BY <3>1, <3>2 DEF IInv
  <2>2. CASE Submit
    BY <2>2, SubmitKeeps
  <2>3. CASE Next /\ UNCHANGED topologyVars
    <3>1. TopologyIInv'
      BY <2>3, TopologyUnchanged DEF IInv
    <3>2. ~Fresh
      BY <2>3 DEF Fresh, Next, Refuse, Prepare, GetWork, GetWorkTraps, NoWork, Execute, EndGroup
    <3> QED BY <2>3, <3>1, <3>2, GeometryStep DEF IInv
  <2>4. CASE UNCHANGED machineVars
    <3>1. UNCHANGED topologyVars /\ UNCHANGED vars
      BY <2>4 DEF machineVars
    <3>2. TopologyIInv'
      BY <3>1, TopologyUnchanged DEF IInv
    <3>3. Fresh => Fresh'
      BY <3>1 DEF Fresh, vars, sizes
    <3> QED BY <3>1, <3>2, <3>3, GeometryUnchanged DEF IInv
  <2> QED BY <2>1, <2>2, <2>3, <2>4 DEF MachineNext
<1> QED BY <1>1, <1>2, PTL DEF MachineSpec

\* The state has its types, and the table fills the device (pqemu-dev.c:132-138).
THEOREM MachineTypesHold == MachineSpec => []MachineTypeOK
<1>1. IInv => MachineTypeOK
  <2> SUFFICES ASSUME IInv PROVE MachineTypeOK
    OBVIOUS
  <2>1. data = Off \/ Len(data) = HSA_MMIO_SIZE
    BY DeviceFull DEF IInv
  <2> QED BY <2>1 DEF IInv, MachineTypeOK, Fresh, GeometryIInv
<1> QED BY <1>1, Invariance, PTL

\* A guest that walks the table by the amounts and sizes of its header finds what
\* was registered, whatever the machine and the sizes are (topology.c:150-215,
\* pqemu-dev.c:22-66).
THEOREM TheTableIsWalkable == MachineSpec => []TableIsWalkable
<1>1. IInv => TableIsWalkable
  BY Walks DEF IInv
<1> QED BY <1>1, Invariance, PTL

\* No read is answered from outside the device (pqemu-dev.c:30-33,132).
THEOREM TheReadsStayInside == MachineSpec => []ReadsStayInside
<1>1. IInv => ReadsStayInside
  BY Stays DEF IInv
<1> QED BY <1>1, Invariance, PTL

\* No conversion of a flat number divides by zero, whatever the packet asks for
\* (hsa_cu.c:54-63,126-144; hsa_agent.c:352-361).
THEOREM NoDivisionByZero == MachineSpec => []DivisorsNonZero
<1>1. IInv => DivisorsNonZero
  <2> SUFFICES ASSUME IInv, pc \in {"fetch", "items"} PROVE DivisorsNonZero
    BY DEF DivisorsNonZero
  <2>1. TypeOK /\ Prepared
    BY DEF IInv, Fresh, GeometryIInv, Started
  <2>2. ASSUME finish_id # flat_grid_size PROVE grid_size[0] # 0 /\ xy_size(grid_size) # 0
    <3>1. finish_id \in Nat /\ finish_id <= flat_grid_size /\ flat_grid_size \in Nat
      BY <2>1, Widths DEF TypeOK, Prepared, Uint
    <3>2. SIZE_DIM2FLAT(grid_size) # 0
      BY <2>1, <2>2, <3>1 DEF Prepared
    <3>3. grid_size \in [Dim -> Int32]
      BY <2>1 DEF TypeOK
    <3> QED BY <3>2, <3>3, GridDivides
  <2>3. group_size[0] # 0 /\ xy_size(group_size) # 0
    BY <2>1, SidesConvert DEF Prepared
  <2> QED BY <2>2, <2>3 DEF DivisorsNonZero
<1> QED BY <1>1, Invariance, PTL

\* The work-items of a dispatch cover the range, each point once, whenever the
\* numbers of its groups fit an int (hsa_agent.c:347-361, hsa_cu.c:54-63,134-136,
\* 213-230, hsa_help_info.c:87-125).
THEOREM TheRangeIsExecuted == MachineSpec => []RangeIsExecuted
<1>1. IInv => RangeIsExecuted
  <2> SUFFICES ASSUME IInv, pc \in {"done", "trapped"}, Fits PROVE Complete
    BY DEF RangeIsExecuted
  <2>1. TypeOK /\ Prepared /\ Covered
    BY DEF IInv, Fresh, GeometryIInv, Started
  <2>2. Asked
    BY <2>1 DEF Prepared
  <2>3. finish_id = Product(Blocks)
    BY <2>1, BlocksConvert DEF Covered, Prepared
  <2>4. executed = Before(Product(Blocks) * Product(Sides))
    BY <2>1, <2>3 DEF Covered
  <2>5. \A a \in Covers : Ord(a) < Product(Blocks) * Product(Sides)
    <3>1. Product(Blocks) * Product(Sides) \in Int
      BY <2>2, BlockFacts, GroupFacts, Widths
    <3> QED BY <2>2, <3>1, OrdBound
  <2>6. executed = Covers
    BY <2>4, <2>5 DEF Before
  <2>7. [d \in Dim |-> WorkNDRangesize(d)] = [d \in Dim |-> Extent(d)]
    BY <2>1, BlocksConvert
  <2>8. Points(packet.grid) \subseteq Covers
    <3> SUFFICES ASSUME NEW a \in Points(packet.grid) PROVE a \in Covers
      OBVIOUS
    <3>1. a \in [Dim -> Uint] /\ \A d \in Dim : a[d] < packet.grid[d]
      BY DEF Points
    <3>2. ASSUME NEW d \in Dim PROVE a[d] < Extent(d)
      <4>1. a[d] \in Int /\ packet.grid[d] \in Int /\ Extent(d) \in Int
        BY <2>2, <3>1, GroupFacts, BlockFacts, Widths DEF Uint
      <4> QED BY <2>2, <3>1, <4>1, BlockFacts
    <3> QED BY <3>1, <3>2 DEF Covers, Points
  <2> QED BY <2>1, <2>6, <2>7, <2>8 DEF Complete, Covers, Covered
<1> QED BY <1>1, Invariance, PTL

=============================================================================

------------------------------ MODULE WiiImage ------------------------------
(***************************************************************************)
(* WiiImage: a partition of a Wii disc is an array of clusters, encrypted  *)
(* and hashed.  H0 of a cluster hashes its data, H1 the H0 of the clusters *)
(* of a subgroup, H2 the H1 of the subgroups of a group; all three are in  *)
(* the header of every cluster.  H3 has the hash of each group, H4, in the *)
(* signed title metadata, that of H3.  wii_write_data_file writes a range  *)
(* of bytes group by group: it reads a group, changes it and writes it     *)
(* back, and at the end H3, H4 and the signature.                          *)
(*                                                                         *)
(* A hash is what it was computed from, so hashes never collide.  The data *)
(* of a cluster is chained to its encrypted header, which therefore has to *)
(* be the one it was written with (seal): with another one the first unit  *)
(* of the cluster decrypts to garbage.  A unit is the number of the write  *)
(* that wrote it, 0 before any.                                            *)
(***************************************************************************)
EXTENDS Integers, FiniteSets

CONSTANTS
  Sub,        \* NB_CLUSTER_SUBGROUP: clusters of a subgroup, subgroups of a group
  Count,      \* wii_nb_cluster
  Units,      \* units of data in a cluster
  Starts, Ends, \* where what is written may start, and end
  MaxWrites   \* bound on the writes

ASSUME SizesAssumption ==
  /\ Sub \in Nat \ {0} /\ Count \in Nat \ {0} /\ Units \in Nat \ {0}
  /\ MaxWrites \in Nat /\ Starts \subseteq Nat /\ Ends \subseteq 1 .. Count * Units

Group == Sub * Sub     \* NB_CLUSTER_GROUP
Clusters == 0 .. Count - 1
GroupOf(c) == c \div Group
Groups == {GroupOf(c) : c \in Clusters}
InGroup(g) == {c \in Clusters : GroupOf(c) = g}

Zero == -1      \* a byte of a buffer that was not filled
Garbage == -2   \* what decrypts wrongly, or is read uninitialised
Values == {Zero, Garbage} \union (0 .. MaxWrites)

Filled(v) == [u \in 0 .. Units - 1 |-> v]
Table(x) == [i \in 0 .. Sub - 1 |-> x]

VARIABLES
  data, header, seal,  \* the clusters
  h3, h4, signed,      \* the tables above them; the H4 the metadata is signed with
  buffer,              \* wii_write_clusters: the group in memory
  m_h3,                \* H3 in memory
  call,                \* the call of wii_write_data_file
  writes,              \* their number so far
  cache,               \* decryptBlock: the cluster decrypted last, and the writes before that
  suspect,             \* clusters of groups that were not written to the end
  behind,              \* groups written in a call that did not write H3
  intended,            \* what callers may expect to read; Garbage: anything
  rootLost             \* a call ended after H3 was written and before it was signed

disc == <<data, header, seal, h3, h4, signed>>
ghosts == <<suspect, behind, intended, rootLost>>
vars == <<data, header, seal, h3, h4, signed, buffer, m_h3, call, writes, cache,
          suspect, behind, intended, rootLost>>

None == -1
Idle == [pc |-> "idle", from |-> 0, size |-> 0, written |-> 0, at |-> 0, todo |-> 0]
NoBuffer == [data |-> <<>>, header |-> <<>>]
NoCache == [block |-> None, data |-> Filled(Zero), at |-> 0]

-----------------------------------------------------------------------------
(* Reading                                                                 *)

Plain(c) == IF seal[c] = header[c] THEN data[c] ELSE [data[c] EXCEPT ![0] = Garbage]

(* wii_read_cluster for a whole group                                      *)
GroupRead(g) ==
  [data |-> [c \in InGroup(g) |-> Plain(c)], header |-> [c \in InGroup(g) |-> header[c]]]

(* What checkPartition computes from the data of a group.                  *)
FirstOf(g, i) == g * Group + i * Sub
H1Of(g, i) == [j \in 0 .. Sub - 1 |-> header[FirstOf(g, i) + j].h0]
H2Of(g) == [i \in 0 .. Sub - 1 |-> H1Of(g, i)]

FullGroups == {g \in Groups : Cardinality(InGroup(g)) = Group}

VerifiesGroup(g) ==
  /\ \A c \in InGroup(g) :
       /\ header[c].h0 = Plain(c)
       /\ header[c].h2 = H2Of(g)
       /\ header[c].h1 = H1Of(g, (c % Group) \div Sub)
  /\ h3[g] = H2Of(g)

Decrypted(c) == [block |-> c, data |-> Plain(c), at |-> writes]

(* Mutated: whatever was decrypted last will do.                           *)
CachedAny(c) == IF cache.block # None THEN [cache EXCEPT !.block = c] ELSE Decrypted(c)

(* decryptBlock: the block decrypted last is not decrypted again.          *)
Cached(c) == IF cache.block = c THEN cache ELSE Decrypted(c)

Read(c) ==
  /\ call.pc = "idle"
  /\ cache' = Cached(c)
  /\ UNCHANGED <<data, header, seal, h3, h4, signed, buffer, m_h3, call, writes>>
  /\ UNCHANGED ghosts

-----------------------------------------------------------------------------
(* wii_write_clusters: the group as it will be, with `got' of the `n'      *)
(* units asked for delivered by the stream of the caller                   *)

Covers(from, n, c) == from < (c + 1) * Units /\ c * Units < from + n

(* Mutated: what fills a subgroup is taken for a whole group.              *)
NewDataNotRead(old, from, n, got) ==
  [c \in DOMAIN old |->
    [u \in 0 .. Units - 1 |->
      IF from <= c * Units + u /\ c * Units + u < from + got THEN writes
      ELSE IF n >= Sub * Units THEN Zero ELSE old[c][u]]]

NewData(old, from, n, got) ==
  [c \in DOMAIN old |->
    [u \in 0 .. Units - 1 |->
      IF from <= c * Units + u /\ c * Units + u < from + got THEN writes
      ELSE IF n = Group * Units THEN Zero ELSE old[c][u]]]

NewH0(old, new, from, n) ==
  [c \in DOMAIN old |-> IF Covers(from, n, c) THEN new[c] ELSE old[c].h0]

(* Mutated: only the clusters written get the new hashes.                  *)
NewH1Own(old, h0, from, n) ==
  [c \in DOMAIN old |->
    [j \in 0 .. Sub - 1 |->
      LET member == (c \div Sub) * Sub + j
      IN IF Covers(from, n, member) /\ Covers(from, n, c) THEN h0[member] ELSE old[c].h1[j]]]

(* The tables of a subgroup get the hashes of the clusters written only.   *)
NewH1(old, h0, from, n) ==
  [c \in DOMAIN old |->
    [j \in 0 .. Sub - 1 |->
      LET member == (c \div Sub) * Sub + j
      IN IF Covers(from, n, member) THEN h0[member] ELSE old[c].h1[j]]]

(* The first subgroup after the last cluster is hashed too, from an empty  *)
(* header; those behind it are left uninitialised.                         *)
NewH2(h1, g) ==
  LET n == Cardinality(DOMAIN h1)
  IN [i \in 0 .. Sub - 1 |->
       IF i * Sub > n THEN Table(Filled(Garbage))
       ELSE IF i * Sub = n THEN Table(Filled(Zero)) ELSE h1[FirstOf(g, i)]]

NewGroup(g, from, n, got) ==
  LET old == GroupRead(g)
      new == NewData(old.data, from, n, got)
      h0 == NewH0(old.header, new, from, n)
      h1 == NewH1(old.header, h0, from, n)
      h2 == NewH2(h1, g)
  IN [data |-> new,
      header |-> [c \in InGroup(g) |-> [h0 |-> h0[c], h1 |-> h1[c], h2 |-> h2]]]

-----------------------------------------------------------------------------
(* wii_write_data_file                                                     *)

BeginWrite(from, size) ==
  /\ call.pc = "idle"
  /\ writes < MaxWrites
  /\ writes' = writes + 1
  /\ call' = [pc |-> "loop", from |-> from, size |-> size, written |-> 0, at |-> from, todo |-> 0]
  /\ m_h3' = h3
  /\ UNCHANGED <<data, header, seal, h3, h4, signed, buffer, cache>>
  /\ UNCHANGED ghosts

(* The units of the next group: up to its end if the position is inside,   *)
(* at most a whole group otherwise.                                        *)
ToEndOfGroup(at) == (GroupOf(at \div Units) + 1) * Group * Units - at
ToWrite == LET left == call.size - call.written
               room == ToEndOfGroup(call.at)
           IN IF left < room THEN left ELSE room

CurrentGroup == GroupOf(call.at \div Units)

(* The stream may end early; nobody looks at what it returned.             *)
BeginGroup ==
  /\ call.pc = "loop"
  /\ call.written < call.size
  /\ \E got \in {ToWrite, ToWrite - 1} :
       LET new == NewGroup(CurrentGroup, call.at, ToWrite, got)
       IN /\ buffer' = new
          /\ m_h3' = [m_h3 EXCEPT ![CurrentGroup] = new.header[CurrentGroup * Group].h2]
          /\ intended' = [u \in DOMAIN intended |->
               IF u \in call.at .. call.at + got - 1 THEN writes
               ELSE IF u \in call.at .. call.at + ToWrite - 1 THEN Garbage ELSE intended[u]]
  /\ call' = [call EXCEPT !.pc = "header", !.todo = CurrentGroup * Group]
  /\ UNCHANGED <<disc, writes, cache, suspect, behind, rootLost>>

WriteHeader ==
  /\ call.pc = "header"
  /\ header' = [header EXCEPT ![call.todo] = buffer.header[call.todo]]
  /\ call' = [call EXCEPT !.pc = "data"]
  /\ UNCHANGED <<data, seal, h3, h4, signed, buffer, m_h3, writes, cache>>
  /\ UNCHANGED ghosts

(* With the last cluster the group is done and the next one begins.        *)
LastOfGroup == call.todo + 1 \notin DOMAIN buffer.data

WriteData ==
  /\ call.pc = "data"
  /\ data' = [data EXCEPT ![call.todo] = buffer.data[call.todo]]
  /\ seal' = [seal EXCEPT ![call.todo] = buffer.header[call.todo]]
  /\ IF LastOfGroup
     THEN /\ call' = [call EXCEPT !.pc = "loop", !.written = @ + ToWrite, !.at = @ + ToWrite]
          /\ buffer' = NoBuffer
          /\ suspect' = {c \in suspect : ~ Covers(call.at, ToWrite, c)}
          /\ behind' = behind \union {CurrentGroup}
     ELSE /\ call' = [call EXCEPT !.pc = "header", !.todo = @ + 1]
          /\ UNCHANGED <<buffer, suspect, behind>>
  /\ UNCHANGED <<header, h3, h4, signed, m_h3, writes, cache, intended, rootLost>>

(* Mutated: only the hash of the last group is written.                    *)
NewH3Last == [h3 EXCEPT ![GroupOf((call.at - 1) \div Units)] = m_h3[GroupOf((call.at - 1) \div Units)]]

NewH3 == m_h3

WriteH3 ==
  /\ call.pc = "loop"
  /\ call.written = call.size
  /\ h3' = NewH3
  /\ behind' = behind \ {GroupOf(u \div Units) : u \in call.from .. call.from + call.size - 1}
  /\ rootLost' = TRUE
  /\ call' = [call EXCEPT !.pc = "h4"]
  /\ UNCHANGED <<data, header, seal, h4, signed, buffer, m_h3, writes, cache, suspect, intended>>

WriteH4 ==
  /\ call.pc = "h4"
  /\ h4' = m_h3
  /\ call' = [call EXCEPT !.pc = "sign"]
  /\ UNCHANGED <<data, header, seal, h3, signed, buffer, m_h3, writes, cache>>
  /\ UNCHANGED ghosts

(* wii_trucha_signing; nobody looks at its result.                         *)
Sign ==
  /\ call.pc = "sign"
  /\ \/ signed' = h4 /\ rootLost' = FALSE
     \/ UNCHANGED <<signed, rootLost>>
  /\ call' = Idle
  /\ UNCHANGED <<data, header, seal, h3, h4, buffer, m_h3, writes, cache, suspect, behind, intended>>

(* A call that ends in the middle of a group leaves its clusters in doubt, *)
(* and also a cluster whose header was written and whose data was not; of  *)
(* that one the units `torn' decrypt to garbage.                           *)
Abandon(torn) ==
  LET open == call.pc \in {"header", "data"}
      range == {c \in Clusters : Covers(call.at, ToWrite, c) /\ GroupOf(c) = CurrentGroup}
      lost == torn \union (call.at .. call.at + ToWrite - 1)
  IN /\ suspect' = IF open THEN suspect \union range \union {u \div Units : u \in torn} ELSE suspect
     /\ behind' = IF open THEN behind \union {CurrentGroup} ELSE behind
     /\ intended' = [u \in DOMAIN intended |->
                      IF open /\ u \in lost THEN Garbage ELSE intended[u]]
     /\ call' = Idle
     /\ buffer' = NoBuffer
     /\ UNCHANGED <<header, h3, h4, signed, writes, rootLost>>

FirstUnit == IF call.pc = "data" THEN {call.todo * Units} ELSE {}

(* The listener asked to stop before the next group.                       *)
Stop ==
  /\ call.pc = "loop"
  /\ call.written < call.size
  /\ Abandon({})
  /\ UNCHANGED <<data, seal, m_h3, cache>>

(* An error of writeDirect that wrote nothing.                             *)
WriteError ==
  /\ call.pc \in {"header", "data", "h4"} \/ (call.pc = "loop" /\ call.written = call.size)
  /\ Abandon(FirstUnit)
  /\ UNCHANGED <<data, seal, m_h3, cache>>

(* An error in the middle of the data of a cluster: the old units that     *)
(* follow the new ones are chained to what was there before.               *)
TornWrite ==
  /\ call.pc = "data"
  /\ \E k \in 1 .. Units - 1 :
       /\ data' = [data EXCEPT ![call.todo] =
            [u \in 0 .. Units - 1 |->
              IF u < k THEN buffer.data[call.todo][u] ELSE IF u = k THEN Garbage ELSE @[u]]]
       /\ Abandon({call.todo * Units + k})
  /\ seal' = [seal EXCEPT ![call.todo] = buffer.header[call.todo]]
  /\ UNCHANGED <<m_h3, cache>>

(* The process dies and is started again: the memory is lost.              *)
Crash ==
  /\ call.pc # "idle"
  /\ Abandon(FirstUnit)
  /\ m_h3' = h3
  /\ cache' = NoCache
  /\ UNCHANGED <<data, seal>>

-----------------------------------------------------------------------------
Original == Filled(0)
InitHeader == [h0 |-> Original, h1 |-> Table(Original), h2 |-> Table(Table(Original))]

Init ==
  /\ data = [c \in Clusters |-> Original]
  /\ header = [c \in Clusters |-> InitHeader]
  /\ seal = header
  /\ h3 = [g \in Groups |-> InitHeader.h2]
  /\ h4 = h3 /\ signed = h3 /\ m_h3 = h3
  /\ buffer = NoBuffer
  /\ call = Idle
  /\ writes = 0
  /\ cache = NoCache
  /\ suspect = {} /\ behind = {} /\ rootLost = FALSE
  /\ intended = [u \in 0 .. Count * Units - 1 |-> 0]

Next ==
  \/ \E c \in Clusters : Read(c)
  \/ \E from \in Starts, end \in Ends : from < end /\ BeginWrite(from, end - from)
  \/ BeginGroup \/ WriteHeader \/ WriteData
  \/ WriteH3 \/ WriteH4 \/ Sign
  \/ Stop \/ WriteError \/ TornWrite \/ Crash

Spec == Init /\ [][Next]_vars
-----------------------------------------------------------------------------
(* Properties                                                              *)

(* When no call runs, what decrypts wrongly or fails checkPartition is     *)
(* known: a group verifies, through every level of hashes, unless a call   *)
(* ended in the middle of it and the clusters it was to write, or the one  *)
(* it tore, were not written again, or it did not get to write H3.  (That  *)
(* repeating the call mends a partition, and that writing elsewhere in the *)
(* group does not.)                                                        *)
UnverifiedKnown ==
  call.pc = "idle" =>
    \A g \in FullGroups : VerifiesGroup(g) \/ suspect \cap InGroup(g) # {} \/ g \in behind

(* No call changes the data of another file, whatever groups they share    *)
(* and however the call ends, but for the one cluster whose header was     *)
(* written without its data.                                               *)
ContentKept ==
  call.pc = "idle" =>
    \A c \in Clusters : \A u \in 0 .. Units - 1 :
      intended[c * Units + u] = Garbage \/ Plain(c)[u] = intended[c * Units + u]

(* What checkPartition does not look at: H4 is the hash of H3 and what the *)
(* metadata is signed for, unless a call ended between writing H3 and      *)
(* signing; so a failed call leaves them as they were or is in doubt, and  *)
(* the next that succeeds repairs them.                                    *)
RootIsSigned ==
  call.pc = "idle" /\ ~ rootLost => h4 = h3 /\ signed = h4

(* A read returns, for every unit, the last write to it, whatever calls    *)
(* succeeded, failed or were torn since, unless that write came after the  *)
(* cluster was decrypted: the one cached is not forgotten when the         *)
(* partition is written, but it is no older than when it was decrypted.    *)
(* writeFileTest of WiiImageTests compares what it reads back.             *)
ReadsBack ==
  call.pc = "idle" /\ cache.block # None =>
    \A u \in 0 .. Units - 1 :
      LET written == intended[cache.block * Units + u]
      IN written \in {Garbage, cache.data[u]} \/ written > cache.at
=============================================================================

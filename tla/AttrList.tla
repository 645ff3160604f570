------------------------------ MODULE AttrList ------------------------------
(***************************************************************************)
(* Lists of length-prefixed records and the macros that build and walk     *)
(* them: messages and attributes of netlink (netlink.h, rtnetlink.h,       *)
(* netfilter/nfnetlink_compat.h), events of fanotify (fanotify.h), TLVs of *)
(* TIPC (tipc_config.h), the rules and matches of netfilter's tables       *)
(* (x_tables.h, ebtables.h) and the tags of the ARM boot (asm/setup.h).    *)
(*                                                                         *)
(* A program builds a list in a buffer, record after record.  The reader   *)
(* gets the first `size' bytes of it: a receive buffer that is too small   *)
(* cuts a list of netlink or fanotify anywhere, and an ebtables table may  *)
(* be given with a size that ends within a rule.  It walks the list, or    *)
(* the inside of a nested attribute or of a rule, with                     *)
(*        for (r = start; OK(r, len); r = NEXT(r, len)).                   *)
(* The skb functions, the functions the tables' loops call and the loops   *)
(* over netlink, fanotify and TIPC lists are external.                     *)
(***************************************************************************)
EXTENDS Integers, Sequences, FiniteSets

CONSTANTS
  Family,    \* the kinds of lists: a subset of DOMAIN Sizeof
  Payload,   \* sizes of the data of a record
  LongData,  \* and sizes with which a list of TLVs, or a nested attribute, gets
             \* longer than 65535 bytes
  MaxRecs,   \* bound on the number of records of a list
  Junk,      \* what a read beyond the end of the data may return
  Skips      \* how many rules XT_ENTRY_ITERATE_CONTINUE is told to pass over

(* sizeof of struct nlmsghdr, rtattr, nfattr, rtnexthop,                   *)
(* fanotify_event_metadata, tlv_desc, ipt_entry, ebt_entries (the head of  *)
(* a chain) and tag_header                                                 *)
Sizeof == [NLMSG |-> 16, RTA |-> 4, NFA |-> 4, RTNH |-> 8, FAN |-> 24, TLV |-> 4,
           XT |-> 112, EBT |-> 48, TAG |-> 8]

(* What lies before the records inside a nested attribute or a rule (struct *)
(* ebt_entry), the header of such a record, and what follows them: the     *)
(* standard target of a rule.                                              *)
Before == [NFA |-> 4, XT |-> 112, EBT |-> 112]
Inner  == [NFA |-> 4, XT |-> 32, EBT |-> 40]
Behind == [NFA |-> 0, XT |-> 40, EBT |-> 48]
Tables == {"XT", "EBT"}

ASSUME FamilyAssumption == Family \subseteq DOMAIN Sizeof
ASSUME SizeAssumption ==
  /\ Payload \subseteq Nat /\ \A n \in LongData : n \in Nat /\ n <= 65531
  /\ MaxRecs \in Nat /\ Junk \subseteq Nat /\ Skips \subseteq Nat

(* Each single record fits the __u16 of rta_len, nfa_len, rtnh_len, tlv_len *)
(* and match_size, header and padding included.                            *)
ASSUME PayloadAssumption == \A n \in Payload : n <= 65500

VARIABLES
  fam,       \* the kind of the list
  recs,      \* the offsets of its records ...
  length,    \* ... the length field of each ...
  parent,    \* ... and the nested attribute each is in, or -1
  nested,    \* the attributes with NFNL_NFA_NEST in their type
  tail,      \* the number of bytes built
  nests,     \* the nested attributes that are still open
  overlong,  \* history: one was completed whose length nfa_len cannot hold
  size,      \* the number of bytes the reader has got
  root,      \* the attribute whose inside it walks, or -1
  off, len,  \* the reader's position and what it takes to be left
  skip, nth, \* how many records to pass over, and have been met
  seen,      \* the records it has visited
  reader,    \* "waits", "walks", "done"
  ret        \* the value of a table's loop: 0, -EINVAL (-22), or a callback's

listVars == <<fam, recs, length, parent, nested, tail, nests, overlong>>
walkVars == <<size, root, off, len, skip, nth, seen, reader, ret>>
vars     == <<listVars, walkVars>>

(* What a __u16 keeps of a number, and whether that is not all of it. *)
U16(n) == n % 65536
Exceeds16(n) == n > 65535

Align4(n) == ((n + 3) \div 4) * 4

(* NLMSG_LENGTH, RTA_LENGTH, NFA_LENGTH, RTNH_LENGTH, TLV_LENGTH *)
LENGTH(n) == (IF nests = <<>> THEN Sizeof[fam] ELSE Inner[fam]) + n

(* NLMSG_SPACE, ...: what a record takes in the buffer.  Events of         *)
(* fanotify are not aligned; the sizes in tables and tags already are.     *)
Whole == {"XT", "EBT", "TAG"}
SPACE(n) == IF fam = "FAN" THEN LENGTH(n) ELSE Align4(LENGTH(n))
Field(n) == IF fam \in Whole THEN SPACE(n) ELSE LENGTH(n)

(* What NEXT adds to the pointer and takes from len; TLV_LIST_STEP keeps   *)
(* it in a __u16.                                                          *)
Step(l) ==
  CASE fam \in {"FAN"} \cup Whole -> l
    [] fam = "TLV" -> Align4(l) % 65536
    [] OTHER -> Align4(l)

NLMSG_OK(l, n) == n >= 16 /\ l >= 16 /\ l <= n

(* Mutant: the length field is not compared with what is left. *)
RTA_OK_unbounded(l, n) == n >= 4 /\ l >= 4

RTA_OK(l, n) == n >= 4 /\ l >= 4 /\ l <= n
NFA_OK(l, n) == n > 0 /\ l >= 4 /\ l <= n
RTNH_OK(l, n) == l >= 8 /\ l <= n
FAN_EVENT_OK(l, n) == n >= 24 /\ l >= 24 /\ l <= n

(* TLV_LIST_EMPTY and TLV_LIST_CHECK: tlv_space is passed as a __u16.      *)
TLV_OK(l, n) == n # 0 /\ n % 65536 >= 4 /\ l <= n % 65536

(* XT_MATCH_ITERATE, XT_ENTRY_ITERATE, EBT_MATCH_ITERATE and               *)
(* EBT_ENTRY_ITERATE compare __i with the end; for_each_tag looks for a    *)
(* tag of size 0.                                                          *)
ITERATE(n) == n > 0
for_each_tag(l) == l # 0

Ok(l, n) ==
  \/ fam = "NLMSG" /\ NLMSG_OK(l, n)
  \/ fam = "RTA" /\ RTA_OK(l, n)
  \/ fam = "NFA" /\ NFA_OK(l, n)
  \/ fam = "RTNH" /\ RTNH_OK(l, n)
  \/ fam = "FAN" /\ FAN_EVENT_OK(l, n)
  \/ fam = "TLV" /\ TLV_OK(l, n)
  \/ fam \in Tables /\ ITERATE(n)
  \/ fam = "TAG" /\ for_each_tag(l)

TypeOK ==
  /\ fam \in Family
  /\ recs \subseteq Nat
  /\ length \in [recs -> Nat]
  /\ parent \in [recs -> recs \cup {-1}]
  /\ nested \subseteq recs
  /\ tail \in Nat
  /\ nests \in Seq(nested)
  /\ size \in 0..tail
  /\ root \in nested \cup {-1}
  /\ off \in Nat /\ len \in Int /\ (fam = "TLV" => len \in Nat)
  /\ skip \in Skips \cup {0} /\ nth \in 0..MaxRecs
  /\ seen \subseteq recs
  /\ reader \in {"waits", "walks", "done"}
  /\ ret \in {0, 1, -22}

Init ==
  /\ fam \in Family
  /\ recs = {} /\ nested = {} /\ tail = 0 /\ nests = <<>>
  /\ length = <<>> /\ parent = <<>> /\ overlong = FALSE
  /\ size = 0 /\ root = -1 /\ off = 0 /\ len = 0 /\ seen = {}
  /\ skip = 0 /\ nth = 0
  /\ reader = "waits" /\ ret = 0

Parent == IF nests = <<>> THEN -1 ELSE nests[Len(nests)]

-----------------------------------------------------------------------------
(* A record is put at the end of the list, of l bytes that take s. *)
PutRecord(l, s) ==
  /\ reader = "waits"
  /\ Cardinality(recs) < MaxRecs
  /\ recs' = recs \cup {tail}
  /\ length' = [o \in recs' |-> IF o = tail THEN l ELSE length[o]]
  /\ parent' = [o \in recs' |-> IF o = tail THEN Parent ELSE parent[o]]
  /\ tail' = tail + s

(* A message, an attribute, ..., a match of a rule, or the head of a chain *)
(* of ebtables, which has no data.                                         *)
Put(n) ==
  /\ n \in LongData => fam \in {"TLV", "NFA"}
  /\ fam = "XT" => nests # <<>>
  /\ fam = "EBT" /\ nests = <<>> => n = 0
  /\ PutRecord(Field(n), SPACE(n))
  /\ UNCHANGED <<fam, nested, nests, overlong, walkVars>>

(* A rule: its matches follow, and at last its target.  next_offset of a   *)
(* rule of x_tables is a __u16: no longer rule is made.                    *)
BeginRule ==
  /\ fam \in Tables /\ nests = <<>>
  /\ PutRecord(Before[fam], Before[fam])
  /\ nested' = nested \cup {tail}
  /\ nests' = Append(nests, tail)
  /\ UNCHANGED <<fam, overlong, walkVars>>

EndRule ==
  /\ fam \in Tables /\ reader = "waits" /\ nests # <<>>
  /\ tail' = tail + Behind[fam]
  /\ fam = "XT" => ~Exceeds16(tail' - Parent)
  /\ length' = [length EXCEPT ![Parent] = tail' - Parent]
  /\ nests' = <<>>
  /\ UNCHANGED <<fam, recs, parent, nested, overlong, walkVars>>

(* NFA_NEST: an attribute without data, to be completed. *)
NFA_NEST ==
  /\ fam = "NFA"
  /\ PutRecord(LENGTH(0), SPACE(0))
  /\ nested' = nested \cup {tail}
  /\ nests' = Append(nests, tail)
  /\ UNCHANGED <<fam, overlong, walkVars>>

(* Mutant: the length of the contents, without the header. *)
NEST_END_contents ==
  /\ fam = "NFA" /\ reader = "waits" /\ nests # <<>>
  /\ length' = [length EXCEPT ![Parent] = U16(tail - (Parent + 4))]
  /\ overlong' = (overlong \/ Exceeds16(tail - Parent))
  /\ nests' = SubSeq(nests, 1, Len(nests) - 1)
  /\ UNCHANGED <<fam, recs, parent, nested, tail, walkVars>>

(* What lies between the attribute and the tail goes into its nfa_len, a   *)
(* __u16.                                                                  *)
NFA_NEST_END ==
  /\ fam = "NFA" /\ reader = "waits" /\ nests # <<>>
  /\ length' = [length EXCEPT ![Parent] = U16(tail - Parent)]
  /\ overlong' = (overlong \/ Exceeds16(tail - Parent))
  /\ nests' = SubSeq(nests, 1, Len(nests) - 1)
  /\ UNCHANGED <<fam, recs, parent, nested, tail, walkVars>>

(* skb_trim back to any of the attributes that are open. *)
NFA_NEST_CANCEL ==
  /\ fam = "NFA" /\ reader = "waits"
  /\ \E i \in 1..Len(nests) :
       /\ tail' = nests[i]
       /\ recs' = {o \in recs : o < nests[i]}
       /\ nested' = {o \in nested : o < nests[i]}
       /\ nests' = SubSeq(nests, 1, i - 1)
  /\ length' = [o \in recs' |-> length[o]]
  /\ parent' = [o \in recs' |-> parent[o]]
  /\ UNCHANGED <<fam, overlong, walkVars>>

(* Where a list may be cut: anywhere in a header and in the last bytes of a *)
(* record, which stand for the rest of its data.  The builder of a list of *)
(* TLVs, of rules or of tags hands it over whole, but an ebtables table is *)
(* one the loop itself checks, once the headers it reads are there.        *)
Cuts ==
  IF fam \in {"TLV", "XT", "TAG"} THEN {tail}
  ELSE IF fam = "EBT"
  THEN {n \in {tail} \cup {o + length[o] - 8 : o \in recs} :
          \A o \in recs : o >= n \/ o + (IF o \in nested THEN 112 ELSE 48) <= n}
  ELSE {n \in {o + d : o \in recs \cup {tail}, d \in -4..Sizeof[fam]} : n \in 0..tail}

(* The list is sent; the reader gets the first n bytes, and starts to walk. *)
Start(r, from, left, k) ==
  /\ root' = r /\ off' = from /\ len' = left
  /\ seen' = {} /\ skip' = k /\ nth' = 0
  /\ reader' = "walks" /\ ret' = 0

Deliver(n, k) ==
  /\ reader = "waits" /\ nests = <<>>
  /\ fam # "XT" => k = 0
  /\ size' = n
  /\ Start(-1, 0, n, k)
  /\ UNCHANGED listVars

(* The reader walks the inside of a nested attribute or rule it has seen:  *)
(* NFA_DATA and NFA_PAYLOAD; sizeof(type) up to target_offset.             *)
Descend(o) ==
  /\ reader = "done" /\ o \in nested /\ o + length[o] <= size
  /\ Start(o, o + Before[fam], length[o] - Before[fam] - Behind[fam], 0)
  /\ UNCHANGED <<listVars, size>>

(* The length field of the record at off, as the reader finds it; the list *)
(* of tags ends with ATAG_NONE.  The data of records are zeros: a reader   *)
(* gets into them after a nested attribute whose length was cut.           *)
Fields ==
  IF off \in recs /\ (fam \in Tables \/ off + Sizeof[fam] <= size) THEN {length[off]}
  ELSE IF fam = "TAG" \/ (off \notin recs /\ off < size) THEN {0} ELSE Junk

Visit == seen' = IF nth < skip THEN seen ELSE seen \cup {off}

Walk ==
  /\ reader = "walks"
  /\ \E l \in Fields :
       /\ Ok(l, len)
       /\ off' = off + Step(l) /\ len' = len - Step(l)
  /\ Visit
  /\ nth' = nth + 1
  /\ UNCHANGED <<listVars, size, root, skip, reader, ret>>

(* The function a table's loop calls returns something else than 0. *)
Break ==
  /\ reader = "walks" /\ fam \in Tables /\ ITERATE(len) /\ nth >= skip
  /\ Visit
  /\ reader' = "done" /\ ret' = 1
  /\ UNCHANGED <<listVars, size, root, off, len, skip, nth>>

(* Mutant: the loop waits for len to become 0, as with TLV_LIST_EMPTY. *)
EndOfEmptyList ==
  /\ reader = "walks"
  /\ len = 0
  /\ reader' = "done"
  /\ UNCHANGED <<listVars, size, root, off, len, skip, nth, seen, ret>>

(* Mutant: the loops of ebtables end as those of x_tables do. *)
EndUnchecked ==
  /\ reader = "walks"
  /\ \E l \in Fields : ~Ok(l, len)
  /\ reader' = "done"
  /\ UNCHANGED <<listVars, size, root, off, len, skip, nth, seen, ret>>

(* The loop ends; those of ebtables compare where they have got with where *)
(* they should be.                                                         *)
EndOfList ==
  /\ reader = "walks"
  /\ \E l \in Fields : ~Ok(l, len)
  /\ reader' = "done"
  /\ ret' = IF fam = "EBT" /\ len # 0 THEN -22 ELSE 0
  /\ UNCHANGED <<listVars, size, root, off, len, skip, nth, seen>>

Next ==
  \/ \E n \in Payload \cup LongData : Put(n)
  \/ NFA_NEST \/ NFA_NEST_END \/ NFA_NEST_CANCEL
  \/ BeginRule \/ EndRule
  \/ \E n \in Cuts, k \in Skips : Deliver(n, k)
  \/ \E o \in seen : Descend(o)
  \/ Walk \/ Break \/ EndOfList

Spec == Init /\ [][Next]_vars

(* The loop runs on. *)
FairSpec == Spec /\ WF_vars(Walk) /\ WF_vars(EndOfList)

-----------------------------------------------------------------------------
Limit == IF root = -1 THEN size ELSE root + length[root] - Behind[fam]

(* The reader visits nothing but records, and none that reaches beyond the *)
(* data it has got or beyond the attribute or rule whose inside it walks:  *)
(* OK guards NEXT, for every place at which the list may have been cut and *)
(* whatever lies there.  A loop of ebtables finds out at its end only, and *)
(* then does not return 0.  What is left of the data has its type: the     *)
(* unsigned tlv_space never goes below 0.                                  *)
OnlyWhole ==
  /\ TypeOK
  /\ \A o \in seen :
       /\ o \in recs
       /\ parent[o] = root
       /\ \/ o + length[o] <= Limit
          \/ fam = "EBT" /\ (reader = "done" => ret # 0)

(* So it is in every list in which NFA_NEST_END has completed no attribute *)
(* of more than 65535 bytes; of such a one the __u16 nfa_len keeps the low *)
(* 16 bits only, and the walk goes on inside it.                           *)
OnlyWholeRecords == overlong \in BOOLEAN /\ (~overlong => OnlyWhole)

(* And when the loop ends, without having been ended by the function it    *)
(* calls, it has visited each of those records but the first skip: none is *)
(* passed over, whatever nested attributes were completed or cancelled     *)
(* before and after it.  A list of TLVs of more than 65535 bytes is beyond *)
(* what TLV_CHECK takes: its __u16 space makes the walk end early.         *)
AllWhole ==
  reader = "done" /\ ret # 1 /\ ~(fam = "TLV" /\ size > 65535) =>
    \A o \in recs :
      parent[o] = root /\ o + length[o] <= Limit =>
        o \in seen \/ Cardinality({p \in recs : parent[p] = root /\ p < o}) < skip

(* So it is unless NFA_NEST_END has completed an attribute that is too     *)
(* long for its nfa_len, which then does not lead to the next record.      *)
AllWholeRecords == ~overlong => AllWhole

(* A loop of ebtables that is not ended by the function it calls returns 0 *)
(* exactly when its records end where the table, or the rule's matches, do *)
(* (-EINVAL otherwise).                                                    *)
TableVerdict ==
  fam = "EBT" /\ reader = "done" /\ ret # 1 =>
    (ret = 0 <=> \/ Limit = (IF root = -1 THEN 0 ELSE root + Before[fam])
                 \/ \E o \in recs : parent[o] = root /\ o + length[o] = Limit)

(* The loop ends. *)
WalkEnds == reader = "walks" ~> reader = "done"
=============================================================================

----------------------------- MODULE GroupList -----------------------------
(***************************************************************************)
(* The group listing a read of the control device returns:                *)
(* dazukofs_get_groups (event.c) formats the active groups of group_list  *)
(* as "<id>:<name>\n" each into a kzalloc'ed buffer, doubling the buffer  *)
(* until the count fits; dazukofs_ctrl_read (ctrl_dev.c) hands it out in  *)
(* reads of the caller's length from *pos.  Both are sequential code over *)
(* a snapshot taken under work_mutex, so they are operators here, checked *)
(* against the listing the protocol describes for every group table up to *)
(* a bound.                                                                *)
(*                                                                         *)
(* A byte is a one-character string; "NUL" stands for '\0'.  A buffer is a *)
(* function from 0..size-1 to bytes.                                       *)
(***************************************************************************)
EXTENDS Integers, SequencesExt

CONSTANTS
  AllocStart,    \* the first allocsize of dazukofs_get_groups (256 in the code)
  ListIds,       \* the group ids a table may hold
  ListNames,     \* the group names a table may hold (sequences of bytes)
  MaxGroups,     \* the longest group_list considered
  ReadLens,      \* the lengths user space passes to read(2)
  NoBuf          \* model value: private_data is NULL

VARIABLES
  snap,          \* the group table get_groups saw (NoBuf before the first read)
  rbuf,          \* file->private_data: the listing buffer, or NoBuf
  rpos,          \* *pos of the open control file
  got,           \* the bytes the reads returned, in order
  reof           \* a read returned 0

rvars == <<snap, rbuf, rpos, got, reof>>

NULB == "NUL"

\* "%lu" of a non-negative id: its decimal digits.
RECURSIVE Decimal(_)
Decimal(n) ==
  LET d == <<"0", "1", "2", "3", "4", "5", "6", "7", "8", "9">>[(n % 10) + 1]
  IN  IF n < 10 THEN <<d>> ELSE Decimal(n \div 10) \o <<d>>

\* The entries of group_list that are not deprecated, in list order.
Active(tbl) == SelectSeq(tbl, LAMBDA g : ~g.deprecated)

\* The first loop: buflen = 1 + the sum of name_length + 3.
BufLen(tbl) == 1 + FoldLeft(LAMBDA acc, g : acc + Len(g.name) + 3, 0, Active(tbl))

\* snprintf(buf + t, size, ...) of the bytes s: at most size - 1 of them,
\* then a NUL (nothing when size is 0).
Snprintf(buf, t, size, s) ==
  LET n == IF Len(s) < size - 1 THEN Len(s) ELSE size - 1
  IN  IF size <= 0 THEN buf
      ELSE [i \in DOMAIN buf |-> IF t <= i /\ i < t + n THEN s[i - t + 1]
                                 ELSE IF i = t + n THEN NULB ELSE buf[i]]

\* Seeded fault: tmp advances by name_length + 2.
FillShortAdvance(tbl, allocsize) ==
  LET step(acc, g) ==
        [buf |-> Snprintf(acc.buf, acc.t, (allocsize - 1) - acc.t,
                          Decimal(g.id) \o <<":">> \o g.name \o <<"\n">>),
         t   |-> acc.t + Len(g.name) + 2]
  IN  FoldLeft(step, [buf |-> [i \in 0..(allocsize - 1) |-> NULB], t |-> 0],
               Active(tbl)).buf

\* The second loop over a zeroed buffer of allocsize bytes: each entry is
\* printed at tmp, and tmp advances by name_length + 3.
Fill(tbl, allocsize) ==
  LET step(acc, g) ==
        [buf |-> Snprintf(acc.buf, acc.t, (allocsize - 1) - acc.t,
                          Decimal(g.id) \o <<":">> \o g.name \o <<"\n">>),
         t   |-> acc.t + Len(g.name) + 3]
  IN  FoldLeft(step, [buf |-> [i \in 0..(allocsize - 1) |-> NULB], t |-> 0],
               Active(tbl)).buf

\* tryagain: the count is compared with allocsize; too small, double it.
RECURSIVE GetGroups(_, _)
GetGroups(tbl, allocsize) ==
  IF BufLen(tbl) < allocsize THEN Fill(tbl, allocsize)
  ELSE GetGroups(tbl, allocsize * 2)

\* strlen(buf)
StrLenB(buf) == CHOOSE n \in DOMAIN buf : buf[n] = NULB /\ \A i \in 0..(n - 1) : buf[i] # NULB

-----------------------------------------------------------------------------
\* The group tables group_list can hold: names unique and ids unique among
\* the active groups (dazukofs_add_group's search); deprecated entries
\* awaiting reaping keep their old name and id.
Tables ==
  { tbl \in UNION {[1..n -> [id : ListIds, name : ListNames,
                              deprecated : BOOLEAN]] : n \in 0..MaxGroups} :
      \A i, j \in DOMAIN tbl :
        i # j /\ ~tbl[i].deprecated /\ ~tbl[j].deprecated =>
          tbl[i].id # tbl[j].id /\ tbl[i].name # tbl[j].name }

\* What a reader of the control device is to see: "<id>:<name>\n" for each
\* active group, in list order.
Listing(tbl) ==
  FoldLeft(LAMBDA acc, g : acc \o Decimal(g.id) \o <<":">> \o g.name \o <<"\n">>,
           <<>>, Active(tbl))

-----------------------------------------------------------------------------
\* dazukofs_ctrl_open: private_data = NULL.
RInit == snap = NoBuf /\ rbuf = NoBuf /\ rpos = 0 /\ got = <<>> /\ reof = FALSE

\* dazukofs_ctrl_read(file, buffer, len, pos): on the first call build the
\* listing (from whatever table group_list holds then) and keep it in
\* private_data; return 0 at its end, else copy min(len, buflen - *pos)
\* bytes and advance *pos.  A kzalloc that fails returns -ENOMEM and
\* changes nothing, a stuttering step.
CtrlRead ==
  /\ ~reof
  /\ \E tbl \in IF rbuf = NoBuf THEN Tables ELSE {snap}, len \in ReadLens :
       LET buf == IF rbuf = NoBuf THEN GetGroups(tbl, AllocStart) ELSE rbuf
           buflen == StrLenB(buf)
           n == IF len > buflen - rpos THEN buflen - rpos ELSE len
       IN  /\ snap' = tbl /\ rbuf' = buf
           /\ IF rpos >= buflen
                 THEN reof' = TRUE /\ UNCHANGED <<rpos, got>>
                 ELSE /\ got' = got \o [i \in 1..n |-> buf[rpos + i - 1]]
                      /\ rpos' = rpos + n
                      /\ UNCHANGED reof

(***************************************************************************)
(* Reading the control device to its end, in reads of any lengths, yields *)
(* exactly the listing of the groups active when it was first read: the   *)
(* size estimate, the doubling retries, snprintf's bound and the fixed    *)
(* advance of tmp never cut, overlap or drop an entry.                     *)
(***************************************************************************)
ListingAsRegistered == reof => got = Listing(snap)
=============================================================================

----------------------------- MODULE CtrlWrite -----------------------------
(***************************************************************************)
(* dazukofs_ctrl_write (ctrl_dev.c): one write(2) to the control device.  *)
(* The bytes are copied into the stack array tmp[DAZUKOFS_MAX_WRITE_BUFFER]*)
(* and NUL-terminated; then process_command looks for "del=", "add=" and   *)
(* "addtrack=" in that order, each on the buffer as the previous one left  *)
(* it (the name is cut with a NUL that is then overwritten with ' ').     *)
(*                                                                         *)
(* The buffer is a function from 0..MaxWrite-1 to bytes.  A byte is a     *)
(* one-character string; NUL, SP and NL stand for '\0', ' ' and '\n'.     *)
(* The bytes of tmp that copy_from_user did not fill hold whatever the    *)
(* stack held: a nondeterministic choice from Junk.                        *)
(***************************************************************************)
EXTENDS Integers, SequencesExt

CONSTANTS
  MaxWrite,      \* DAZUKOFS_MAX_WRITE_BUFFER (32 in ctrl_dev.c)
  Inputs,        \* the byte sequences user space may write
  NameChars,     \* the bytes of DAZUKOFS_ALLOWED_GROUPCHARS in the model
  Junk,          \* the byte values an uninitialised stack byte may hold
  NUL, SP        \* the bytes '\0' and ' '

ASSUME MaxWrite \in Nat \ {0} /\ NUL \notin NameChars

EINVAL == -22
EPERM  == -1

Keys == [del |-> <<"d", "e", "l", "=">>,
         add |-> <<"a", "d", "d", "=">>,
         addtrack |-> <<"a", "d", "d", "t", "r", "a", "c", "k", "=">>]
\* The order of the three process_command calls.
Order == <<"del", "add", "addtrack">>

\* What a call of the group function may return: dazukofs_remove_group
\* always returns 0; dazukofs_add_group may fail (-EPERM, -ENOMEM).
Results == [del |-> {0}, add |-> {0, EPERM}, addtrack |-> {0, EPERM}]

Idx == 0..(MaxWrite - 1)

VARIABLES
  in,            \* the bytes written
  tmp,           \* [Idx -> bytes]: the stack buffer
  cpLen,         \* cp_len: the bytes copied
  k,             \* the process_command call next (4: all done)
  match, ret,    \* the locals of dazukofs_ctrl_write
  calls,         \* the group functions called, with the name they got
  stray,         \* indexes of tmp read or written beyond tmp[cp_len]
  phase          \* "idle", "parse", "done", or "oob" (past the array)

vars == <<in, tmp, cpLen, k, match, ret, calls, stray, phase>>

-----------------------------------------------------------------------------
\* is_valid_char: strchr(DAZUKOFS_ALLOWED_GROUPCHARS, c) != NULL, and strchr
\* also finds the string's own terminating NUL.
ValidChar(c) == c \in NameChars \cup {NUL}

\* strlen(tmp): the index of the first NUL.
StrLen == Min({i \in Idx : tmp[i] = NUL})

\* strstr(tmp, key): the first index where key occurs before the NUL, or -1.
StrStr(key) ==
  LET At == {i \in 0..(StrLen - Len(key)) :
               \A j \in 1..Len(key) : tmp[i + j - 1] = key[j]}
  IN  IF At = {} THEN -1 ELSE Min(At)

\* The loop "for (p2 = p; is_valid_char(*p2); p2++)": the first invalid
\* byte at or after p, MaxWrite when the scan leaves the array.
NameEnd(p) ==
  LET Stop == {j \in p..(MaxWrite - 1) : ~ValidChar(tmp[j])}
  IN  IF Stop = {} THEN MaxWrite ELSE Min(Stop)

\* The name the group function sees: the bytes from p up to the first NUL.
CName(p, p2) ==
  LET s == [j \in 1..(p2 - p) |-> tmp[p + j - 1]]
      n == SelectInSeq(s, LAMBDA c : c = NUL)
  IN  IF n = 0 THEN s ELSE SubSeq(s, 1, n - 1)

-----------------------------------------------------------------------------
Init ==
  /\ in = <<>> /\ tmp = [i \in Idx |-> NUL] /\ cpLen = 0
  /\ k = 1 /\ match = FALSE /\ ret = EINVAL /\ calls = <<>> /\ stray = {}
  /\ phase = "idle"

\* Seeded fault: the copy leaves no room for the terminating NUL.
CtrlWriteCopyNoRoom ==
  /\ phase = "idle"
  /\ \E s \in Inputs :
       LET n == IF Len(s) > MaxWrite THEN MaxWrite ELSE Len(s) IN
       \E junk \in [(n + 1)..(MaxWrite - 1) -> Junk] :
         /\ in' = s
         /\ cpLen' = n
         /\ tmp' = [i \in Idx |-> CASE i < n -> s[i + 1]
                                    [] i = n -> NUL
                                    [] OTHER -> junk[i]]
  /\ phase' = "parse"
  /\ UNCHANGED <<k, match, ret, calls, stray>>

\* copy_from_user of at most MaxWrite-1 bytes, then tmp[cp_len] = 0.
CtrlWriteCopy ==
  /\ phase = "idle"
  /\ \E s \in Inputs :
       LET n == IF Len(s) >= MaxWrite THEN MaxWrite - 1 ELSE Len(s) IN
       \E junk \in [(n + 1)..(MaxWrite - 1) -> Junk] :
         /\ in' = s
         /\ cpLen' = n
         /\ tmp' = [i \in Idx |-> CASE i < n -> s[i + 1]
                                    [] i = n -> NUL
                                    [] OTHER -> junk[i]]
  /\ phase' = "parse"
  /\ UNCHANGED <<k, match, ret, calls, stray>>

\* "if (!match || (match && ret >= 0))": the next process_command runs.
Proceeds == ~match \/ ret >= 0

\* process_command finds no key: -1, nothing changes.
ProcessNoKey ==
  /\ phase = "parse" /\ k <= 3 /\ Proceeds
  /\ StrStr(Keys[Order[k]]) = -1
  /\ k' = k + 1
  /\ UNCHANGED <<in, tmp, cpLen, match, ret, calls, stray, phase>>

\* Seeded fault: the name is taken to start one byte early (at the '=').
ProcessCommandKeyShort ==
  LET op == Order[k]
      p  == StrStr(Keys[op]) + Len(Keys[op]) - 1
      p2 == NameEnd(p)
  IN
  /\ phase = "parse" /\ k <= 3 /\ Proceeds
  /\ StrStr(Keys[op]) # -1
  /\ stray' = stray \cup {j \in p..(p2 - 1) : j > cpLen}
                    \cup {j \in {p2} : j > cpLen}
  /\ match' = TRUE
  /\ k' = k + 1
  /\ \/ /\ p2 = MaxWrite
        /\ phase' = "oob"
        /\ UNCHANGED <<tmp, ret, calls>>
     \/ /\ p2 < MaxWrite /\ p = p2
        /\ ret' = EINVAL
        /\ UNCHANGED <<tmp, calls, phase>>
     \/ /\ p2 < MaxWrite /\ p # p2
        /\ calls' = Append(calls, <<op, CName(p, p2)>>)
        /\ ret' \in Results[op]
        /\ tmp' = [tmp EXCEPT ![p2] = SP]
        /\ UNCHANGED phase
  /\ UNCHANGED <<in, cpLen>>

\* process_command finds the key: scan the name; an empty name is -EINVAL,
\* else *p2 = 0, the group function, *p2 = ' '.  A scan that runs off the
\* array ends the model (the store *p2 = 0 corrupts the stack).
ProcessCommand ==
  LET op == Order[k]
      p  == StrStr(Keys[op]) + Len(Keys[op])
      p2 == NameEnd(p)
  IN
  /\ phase = "parse" /\ k <= 3 /\ Proceeds
  /\ StrStr(Keys[op]) # -1
  /\ stray' = stray \cup {j \in p..(p2 - 1) : j > cpLen}
                    \cup {j \in {p2} : j > cpLen}
  /\ match' = TRUE
  /\ k' = k + 1
  /\ \/ /\ p2 = MaxWrite
        /\ phase' = "oob"
        /\ UNCHANGED <<tmp, ret, calls>>
     \/ /\ p2 < MaxWrite /\ p = p2
        /\ ret' = EINVAL
        /\ UNCHANGED <<tmp, calls, phase>>
     \/ /\ p2 < MaxWrite /\ p # p2
        /\ calls' = Append(calls, <<op, CName(p, p2)>>)
        /\ ret' \in Results[op]
        /\ tmp' = [tmp EXCEPT ![p2] = SP]
        /\ UNCHANGED phase
  /\ UNCHANGED <<in, cpLen>>

\* The call is skipped once an earlier command failed.
ProcessSkipped ==
  /\ phase = "parse" /\ k <= 3 /\ ~Proceeds
  /\ k' = k + 1
  /\ UNCHANGED <<in, tmp, cpLen, match, ret, calls, stray, phase>>

\* "if (ret >= 0) { *pos += length; ret = length; }"
CtrlWriteReturn ==
  /\ phase = "parse" /\ k = 4
  /\ ret' = IF ret >= 0 THEN Len(in) ELSE ret
  /\ phase' = "done"
  /\ UNCHANGED <<in, tmp, cpLen, k, match, calls, stray>>

Next ==
  \/ CtrlWriteCopy \/ ProcessNoKey \/ ProcessCommand \/ ProcessSkipped
  \/ CtrlWriteReturn

Spec == Init /\ [][Next]_vars

-----------------------------------------------------------------------------
TypeOK ==
  /\ tmp \in [Idx -> UNION {Range(s) : s \in Inputs} \cup Junk \cup {NUL, SP}]
  /\ cpLen \in 0..(MaxWrite - 1) /\ k \in 1..4 /\ match \in BOOLEAN
  /\ ret \in {EINVAL, EPERM} \cup Nat
  /\ calls \in Seq((DOMAIN Keys) \X Seq(NameChars))
  /\ stray \subseteq 0..MaxWrite
  /\ phase \in {"idle", "parse", "done", "oob"}

\* The reading of a write by the protocol of the control device: one
\* command "del=", "add=" or "addtrack=", then NAME, the longest run of
\* allowed characters after the '='.
RefOp(s) == CHOOSE op \in DOMAIN Keys : IsPrefix(Keys[op], s)
RefName(s) ==
  LET r == SubSeq(s, Len(Keys[RefOp(s)]) + 1, Len(s))
      e == SelectInSeq(r, LAMBDA c : c \notin NameChars)
  IN  IF e = 0 THEN r ELSE SubSeq(r, 1, e - 1)
OneCommand(s) == \E op \in DOMAIN Keys : IsPrefix(Keys[op], s)

(***************************************************************************)
(* A write of one command whose NAME ends within the bytes copied is      *)
(* carried out as that command: the group function of its key is called   *)
(* once, with exactly its NAME, or the write fails with -EINVAL when NAME  *)
(* is empty; the three process_command passes over the one buffer, each   *)
(* after the previous one cut and patched it, neither drop nor add a call. *)
(* A write whose NAME runs to the end of the copy is scanned past it       *)
(* (NoReadPastWrite).                                                      *)
(***************************************************************************)
NameEndsInCopy(s) == Len(Keys[RefOp(s)]) + Len(RefName(s)) < cpLen

CommandAsWritten ==
  phase = "done" /\ OneCommand(in) /\ NameEndsInCopy(in) =>
    /\ calls = IF RefName(in) = <<>> THEN <<>> ELSE <<<<RefOp(in), RefName(in)>>>>
    /\ (ret = EINVAL) <=> (RefName(in) = <<>>)

(***************************************************************************)
(* dazukofs_ctrl_write reads and writes only the bytes of tmp that the    *)
(* write filled, up to its terminating NUL: no read of uninitialised      *)
(* stack, no store past the array.                                         *)
(***************************************************************************)
NoReadPastWrite == stray = {}

=============================================================================

---------------------------- MODULE MC_CtrlWrite ----------------------------
EXTENDS CtrlWrite, GroupList, DevLifecycle, StackFs, TLC

\* '\0', ' ', '\n', and a byte outside DAZUKOFS_ALLOWED_GROUPCHARS.
MC_NUL == "NUL"
MC_SP  == "SP"
MC_NL  == "NL"
MC_Dot == "."

MC_NameChars == {"a", "b", "c", "d", "e", "k", "l", "r", "t"}
MC_Names == {<<>>, <<"a">>, <<"a", "b">>, <<"b", "a">>}

\* One command per write, as echo(1) writes it (a newline) or with another
\* byte after NAME; the longest fits the buffer.
MC_Terminated ==
  {Keys[op] \o nm \o <<t>> : op \in DOMAIN Keys, nm \in MC_Names,
                             t \in {MC_NL, MC_SP, MC_Dot}}

\* One command as printf(1) or write(2) with the bare string writes it.
MC_Bare == {Keys[op] \o nm : op \in DOMAIN Keys, nm \in MC_Names}

\* What the stack may hold: a name byte, a byte outside the name set, NUL.
MC_Junk == {"c", MC_Dot, MC_NUL}
MC_JunkTwo == {"c", MC_Dot}

MC_Writes == MC_Terminated \cup MC_Bare

\* Group tables: ids below GROUP_COUNT, names of one and two bytes.
MC_ListIds == 0..2
MC_ListNames == {<<"a">>, <<"a", "b">>, <<"b", "a">>}

(***************************************************************************)
(* The control device in the module's life: user space can open it once   *)
(* device_create made its node and kobj routes minor 0 to its cdev, even  *)
(* while init goes on, and an open file holds the module, so              *)
(* exit_dazukofs_fs waits until the file is done.  An open file is used   *)
(* for one write or for reads to the end; the listing is read of the      *)
(* loaded module (group_list is empty before).                             *)
(*                                                                         *)
(* A mount finds the dazukofs type once register_filesystem added it, and *)
(* get_fs_type takes a reference on its owner, THIS_MODULE.  A mount that *)
(* oopses in dazukofs_fill_super never drops it, so the module is not     *)
(* unloaded after one.                                                     *)
(***************************************************************************)

DeviceInit == Init /\ RInit /\ LInit /\ SInit

CtrlOpenable == Obj("ctrl_dev") \in held /\ Lookup(0) = Obj("ctrl_cdev")

DeviceNext ==
  \/ /\ CtrlWriteCopy /\ CtrlOpenable /\ rbuf = NoBuf
     /\ UNCHANGED <<rvars, lvars, svars>>
  \/ /\ \/ ProcessNoKey \/ ProcessCommand \/ ProcessSkipped \/ CtrlWriteReturn
     /\ UNCHANGED <<rvars, lvars, svars>>
  \/ /\ lpc = "loaded" /\ phase = "idle" /\ CtrlRead
     /\ UNCHANGED <<vars, lvars, svars>>
  \/ /\ LNext
     /\ lpc = "loaded" => phase # "parse" /\ (rbuf = NoBuf \/ reof) /\ sb = "none"
     /\ UNCHANGED <<vars, rvars, svars>>
  \/ /\ lpc = "loaded" /\ SNext
     /\ UNCHANGED <<vars, rvars, lvars>>

DeviceSpec == DeviceInit /\ [][DeviceNext]_<<vars, rvars, lvars, svars>>
=============================================================================

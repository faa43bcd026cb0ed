----------------------------- MODULE MCMessages -----------------------------
(* The messages of both directions, which share no state: a behaviour issues  *)
(* commands (CanCommands), or has reports parsed (DeviceMirror), or calls     *)
(* time_subtrack (CanTime), of which the commands' answers were to make use.  *)
(*                                                                            *)
(* Commands: arguments at the edges of their types; a ring of two frames and  *)
(* 7 bytes, as 2048 bytes are 157 frames and 7 bytes.                         *)
(*                                                                            *)
(* Reports: a signal and a measurement of the converter and the battery's     *)
(* messages of the same numbers, so that what one device reports can be       *)
(* mistaken for the other's; a wide member; both kinds of limits; and frames  *)
(* to be ignored: the answer to a command, another device's, an unknown       *)
(* parameter's, an unknown class's.  Words at the edges of the sign and with  *)
(* unequal bytes.                                                             *)
EXTENDS CanCommands, DeviceMirror, CanTime

const_Words == {0, 1, 255, 256, 8500, 65535}
const_Shorts == {-32768, -1, 0, 8500, 32767}
const_Powers == {-327689, -100005, -15, -1, 0, 9, 100, 327679, 400000}
const_Times == {<<124, 6, 9, 14, 52, 6>>, <<256, 0, 31, 23, 59, 60>>}
const_Instants == [sec : {0, 2}, usec : {0, 499, 500, 501, 999999}]
const_Reported ==
    {<<RemoteSignalMsg, DEV_DCDC, 2>>, <<RemoteSignalMsg, DEV_BMS, 2>>,
     <<RemoteMeterMsg, DEV_DCDC, 5>>, <<RemoteMeterMsg, DEV_BMS, 3>>,
     <<RemoteMeterMsg, DEV_BMS, 12>>, <<RemoteMeterMsg, DEV_BMS, 13>>,
     <<RemoteControlMsg, DEV_DCDC, 2>>, <<RemoteMeterMsg, 5, 12>>,
     <<RemoteMeterMsg, DEV_BMS, 14>>, <<5, DEV_DCDC, 2>>}
const_Samples ==
    {<<<<1, 6>>, <<255, 254>>, <<3, 128>>>>,
     <<<<255, 0>>, <<0, 255>>, <<128, 0>>>>}

MCInit == Init /\ MirrorInit /\ TimeInit

NoCommands == cmd = "none"
NoReports == mirror = [f \in Fields |-> 0]
NoTimes == from = Zero /\ to = Zero

MCNext ==
    \/ NoReports /\ NoTimes /\ Next /\ UNCHANGED <<mirrorVars, timeVars>>
    \/ NoCommands /\ NoTimes /\ MirrorNext /\ UNCHANGED <<vars, timeVars>>
    \/ NoCommands /\ NoReports /\ TimeNext /\ UNCHANGED <<vars, mirrorVars>>

MCSpec == MCInit /\ [][MCNext]_<<vars, mirrorVars, timeVars>>
=============================================================================

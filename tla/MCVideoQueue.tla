---------------------------- MODULE MCVideoQueue ----------------------------
(***************************************************************************)
(* The properties of VideoQueue, for TLC.                                  *)
(***************************************************************************)
EXTENDS VideoQueueProperties

(* Two kept buffers are the least the driver starts with; the third lets   *)
(* one be lent while one is held and one is listed.                        *)
=============================================================================

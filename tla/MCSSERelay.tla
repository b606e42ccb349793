------------------------------ MODULE MCSSERelay ------------------------------
(***************************************************************************)
(* The relay on short streams: four lines hold two events of one line, or  *)
(* one of two lines and the start of another; two ticks reach every pair   *)
(* of gaps between them.                                                   *)
(***************************************************************************)
EXTENDS SSEClient

MCKinds == {"data", "blank", "done", "long"}
MCLongKinds == {"data", "blank", "long"}
MCPlainKinds == {"data", "blank"}
===============================================================================

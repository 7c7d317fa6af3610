---------------------------- MODULE MCPrimitives -----------------------------
(* Three threads that call anything; or a watchdog's thread and its owner;  *)
(* or two threads that get four static objects: "user" gets "part" in its   *)
(* constructor, and "logger", in static memory, gets "lock", which is       *)
(* leaky; or an object with up to three weak pointers at a time.            *)
EXTENDS Primitives

CONSTANTS t1, t2, t3

MCThread == {t1, t2, t3}
MCParts == [part |-> {}, user |-> {"part"}, logger |-> {"lock"}, lock |-> {}]
=============================================================================

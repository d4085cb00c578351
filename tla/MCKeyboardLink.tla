---- MODULE MCKeyboardLink ----
(* Two connection objects, so that a second one can be seen; two reconnect
   threads, so that they can meet. *)
EXTENDS KeyboardLink
====

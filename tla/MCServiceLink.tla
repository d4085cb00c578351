---- MODULE MCServiceLink ----
(* Two objects are enough to see a second one: each is reused when destroyed. *)
EXTENDS ServiceLink
====

---------------------------- MODULE MCPrivateLedger ----------------------------
(* PrivateLedger on two slots, one key and two competing owners. *)
EXTENDS PrivateLedger

MCRoleLimit == [role \in Role |->
    CASE role = "task_generation" -> 1 [] role = "agent" -> 2 [] OTHER -> 0]
MCVerdict == {"pass", "fail"}
================================================================================

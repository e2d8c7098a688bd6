----------------------------- MODULE MCEc800At -----------------------------
(* Ec800At with a legacy owner, an owner behind a command adapter and the *)
(* sorts of commands that interfere.                                      *)
EXTENDS Ec800At, TLC

CONSTANTS ota, mqtt, plain, upload, query

MCOwnerOf == [o \in Op |-> IF o = upload THEN ota ELSE mqtt]
MCKindOf == [o \in Op |-> CASE o = upload -> "payload" [] o = plain -> "plain"
                            [] o = query -> "urc"]
=============================================================================

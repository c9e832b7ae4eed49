------------------------------ MODULE MCRulegen ------------------------------
(***************************************************************************)
(* The table as it is, that of a third of the languages, and one of two    *)
(* languages in which JavaScript has no rules for gRPC-Web.                *)
(***************************************************************************)
EXTENDS Rulegen

Some == <<makeBuf, makeGo, makeGrpcGateway, makeJava>>
Fewer == <<makeGo, [makeJs EXCEPT !.rules = <<@[1], @[2], @[4], @[5]>>]>>
MCTables == [all |-> languages, some |-> Some, fewer |-> Fewer]
MCTests == {"go", "java", "python"} \X {"go", "java", "js"}

\* All of them are made of the rules of the table.
ASSUME FromTableAssumption == FromTable
=============================================================================

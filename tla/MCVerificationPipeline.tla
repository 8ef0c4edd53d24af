----------------------- MODULE MCVerificationPipeline -----------------------
(***************************************************************************)
(* A small instance of VerificationPipeline: a typecheck, a lint, a build  *)
(* that depends on the typecheck and an audit that cannot be executed; two *)
(* commits within the limits on their source, five that exceed one each.   *)
(***************************************************************************)
EXTENDS VerificationPipeline

CONSTANTS c1, c2, c3, c4, c5, c6, c7

Listed(path, type, size) ==
    [path |-> path, type |-> type, safe |-> TRUE, bytes |-> size, binary |-> FALSE]
Blob(path, size) == Listed(path, "blob", size)

MCTreeOf == [c \in {c1, c2, c3, c4, c5, c6, c7} |->
    CASE c = c1 -> {Blob(1, 1), [Blob(2, 1) EXCEPT !.binary = TRUE], Blob(3, 1), Listed(4, "commit", 0)}
      [] c = c2 -> {Blob(1, 2), Blob(2, 2)}
      [] c = c3 -> {Listed(p, "tree", 0) : p \in 1..7}
      [] c = c4 -> {Blob(p, 1) : p \in 1..4}
      [] c = c5 -> {Blob(1, 1), [Blob(2, 1) EXCEPT !.safe = FALSE]}
      [] c = c6 -> {Blob(1, 4)}
      [] OTHER  -> {Blob(1, 3), Blob(2, 2)}]

MCChecks == {"typecheck", "lint", "build", "audit"}
MCRank == [c \in MCChecks |-> CASE c = "typecheck" -> 1 [] c = "lint" -> 2
                                [] c = "build" -> 3 [] OTHER -> 4]
MCDependsOn == [c \in MCChecks |-> IF c = "build" THEN {"typecheck"} ELSE {}]

Plain == [c \in MCChecks |-> {}]
Base == [valid |-> TRUE, app |-> TRUE, commit |-> c1,
         profile |-> {"typecheck", "build"}, config |-> Plain,
         selected |-> None, all |-> TRUE, twice |-> FALSE, limits |-> TRUE,
         manifest |-> TRUE, materializes |-> TRUE, provisioning |-> FALSE, provisioner |-> TRUE,
         generated |-> 0, preparer |-> TRUE, source |-> "real"]
Everything == [Base EXCEPT !.profile = MCChecks, !.app = FALSE, !.commit = c2]
Direct == [Base EXCEPT !.app = FALSE]

\* One request for each way through the pipeline.
MCRequests ==
    {Base, Everything,
     [Base EXCEPT !.valid = FALSE],
     [Direct EXCEPT !.source = "simulated"],
     [Direct EXCEPT !.manifest = FALSE, !.all = FALSE],
     [Direct EXCEPT !.provisioning = TRUE, !.generated = 1],
     [Direct EXCEPT !.provisioning = TRUE, !.provisioner = FALSE],
     [Direct EXCEPT !.materializes = FALSE, !.generated = 2],
     [Direct EXCEPT !.generated = 1, !.preparer = FALSE],
     [Direct EXCEPT !.profile = None],
     [Direct EXCEPT !.profile = {"build"}],
     [Direct EXCEPT !.selected = {}],
     [Direct EXCEPT !.selected = {"lint"}],
     [Direct EXCEPT !.twice = TRUE],
     [Direct EXCEPT !.limits = FALSE],
     [Everything EXCEPT !.selected = {"audit"}],
     [Everything EXCEPT !.selected = {"typecheck", "lint"}, !.config["lint"] = {"optional"}],
     [Direct EXCEPT !.config["typecheck"] = {"disabled"}],
     [Direct EXCEPT !.config["lint"] = {"required"}],
     [Direct EXCEPT !.config["lint"] = {"required", "override not required"}],
     [Direct EXCEPT !.config["build"] = {"required", "optional"}],
     [Direct EXCEPT !.config["build"] = {"override required", "override optional"}],
     [Direct EXCEPT !.config["build"] = {"override not optional", "override disabled"}],
     [Direct EXCEPT !.config["build"] = {"override not optional"}, !.source = "simulated"]}
    \cup {[Direct EXCEPT !.commit = c] : c \in {c3, c4, c5, c6, c7}}
=============================================================================

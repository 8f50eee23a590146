------------------------------ MODULE MCSession ------------------------------
(***************************************************************************)
(* A live session while a dataset is opened in it, one side in each        *)
(* behaviour: the chunks generated for the dataset and what the viewers    *)
(* are told of them (GeneratedChunks), and the document that two openings  *)
(* of one source change while its editor works and loses the connection    *)
(* (DocumentSync).  The side that is not at work stays as it begins, and   *)
(* each side keeps its own properties.                                     *)
(***************************************************************************)
EXTENDS MCGeneratedChunks, DocumentSync

VARIABLE part   \* the side at work

allVars == <<part, chunkVars, vars>>

SessionInit ==
    /\ part \in {"chunks", "document"}
    /\ ChunksInit /\ (part # "chunks" => scenario = CHOOSE s \in Scenarios : TRUE)
    /\ Init

SessionNext ==
    \/ part = "chunks" /\ ChunksNext /\ UNCHANGED <<part, vars>>
    \/ part = "document" /\ Next /\ UNCHANGED <<part, chunkVars>>

SessionSpec == SessionInit /\ [][SessionNext]_allVars
=============================================================================

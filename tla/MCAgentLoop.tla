----------------------------- MODULE MCAgentLoop -----------------------------
(***************************************************************************)
(* Instances of AgentLoop for TLC: the model's possible answers, the files *)
(* and the rename.                                                         *)
(***************************************************************************)
EXTENDS AgentLoop

MCContents == {"old", "new"}
MCRenamedTo == [c \in MCContents |-> "new"]

Ask(kind, cost) ==
    [kind |-> kind, cost |-> cost, op |-> [path |-> 1, content |-> "old"]]
Write(p, c) ==
    [kind |-> "EDIT", cost |-> 1, op |-> [path |-> p, content |-> c]]

\* Every kind of answer that moves the journal and the ledger, at two costs.
LedgerAnswers ==
    {Ask("PLAN", 2), Ask("RETRIEVE", 1), Ask("VERIFY", 1), Ask("GIVE_UP", 1)}

\* Writes, deletes, a rename and the verification of what they leave.
FileAnswers ==
    {Write(1, "old"), Write(1, "new"), Write(1, NoFile), Ask("RENAME", 1),
     Ask("VERIFY", 1)}

RepairAnswers == {Ask("PLAN", 1), Ask("VERIFY", 1)}

DeleteAnswers == {Write(1, NoFile), Ask("VERIFY", 1)}

=============================================================================

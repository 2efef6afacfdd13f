---------------------------- MODULE ToolExecutor ----------------------------
(***************************************************************************)
(* llm/tool_executor.py: what a knowledge-base tool call may do, given the *)
(* ToolExecutionContext of its flow, and what it leaves in that context.   *)
(* The executor is shared by all requests and keeps no state of its own.   *)
(***************************************************************************)
EXTENDS Naturals

CONSTANT Files   \* ids a search may return or the model may ask for

MaxFullReads == 2   \* MAX_KNOWLEDGE_FILES_IN_CONTEXT

(***************************************************************************)
(* full_file_reads and allowed_file_ids; searched is FALSE for the None    *)
(* that allowed_file_ids holds before the first search.                    *)
(***************************************************************************)
Contexts == [reads : Nat, searched : BOOLEAN, allowed : SUBSET Files]

FreshContext == [reads |-> 0, searched |-> FALSE, allowed |-> {}]

(* A search replaces what earlier searches allowed. *)
AfterSearchAdding_Mutant(ctx, hits) ==
    [ctx EXCEPT !.searched = TRUE, !.allowed = @ \cup hits]
AfterSearch(ctx, hits) ==
    [ctx EXCEPT !.searched = TRUE, !.allowed = hits]

(***************************************************************************)
(* _ensure_read_allowed, then the cap; both refusals raise before the file *)
(* is opened.                                                              *)
(***************************************************************************)
MayReadOneMore_Mutant(ctx, file) ==
    /\ ctx.searched
    /\ file \in ctx.allowed
    /\ ctx.reads <= MaxFullReads
MayRead(ctx, file) ==
    /\ ctx.searched
    /\ file \in ctx.allowed
    /\ ctx.reads < MaxFullReads

(* Every read counts, of a file that is no longer there too. *)
AfterRead(ctx) == [ctx EXCEPT !.reads = @ + 1]

=============================================================================

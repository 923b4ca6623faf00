---------------------------- MODULE IcebergWriter ----------------------------
(***************************************************************************)
(* The buffered writer of calls_extractions (extract_lib/iceberg_writer.py *)
(* in catalog mode).  A call's extraction becomes a row of an in-memory    *)
(* buffer; flush() hands a copy of the buffer to one atomic Iceberg commit *)
(* and clears the buffer afterwards.  flush() is not atomic for the        *)
(* process that runs it: a signal handler may call it again between any    *)
(* two of its steps, so each point at which that makes a difference is a   *)
(* value of fpc.                                                           *)
(*                                                                         *)
(* A call is identified by its run id and call id together: query_skip_set *)
(* filters on run_id, so rows of different runs never meet.                *)
(***************************************************************************)
EXTENDS Integers, FiniteSets

CONSTANTS
  Calls,            \* the calls that some shard holds
  CommitEveryRows,  \* cfg.commit_every_n_rows
  Faults            \* the faults this instance is exposed to

FaultNames == {"commit", "lostack", "catalog", "scan", "llm", "sigterm", "kill",
               "receive", "prepare", "delete", "early_visible", "status"}

ASSUME WriterAssumption ==
  /\ CommitEveryRows \in Nat \ {0}
  /\ Faults \subseteq FaultNames

VARIABLES
  buffer,  \* self._buffer of the current writer
  table,   \* how often each row has been committed to calls_extractions
  fpc,     \* where the main flow is inside flush()
  rows,    \* the copy of the buffer that flush() is committing
  stale    \* another commit overtook the transaction that is open

writerVars == <<buffer, table, fpc, rows, stale>>

Row == [call : Calls, status : {"success", "error"}]
RowOf(c, s) == [call |-> c, status |-> s]
Landed == {r \in Row : table[r] > 0}
Committed == {c \in Calls : table[RowOf(c, "success")] > 0}

WriterTypeOK ==
  /\ buffer \in SUBSET Row
  /\ table \in [Row -> Nat]
  /\ fpc \in {"none", "called", "captured", "appending", "committed"}
  /\ rows \in SUBSET Row
  /\ stale \in BOOLEAN

WriterInit ==
  /\ buffer = {}
  /\ table = [r \in Row |-> 0]
  /\ fpc = "none"
  /\ rows = {}
  /\ stale = FALSE

(* The commit adds one copy of every row of S, whatever is there already:  *)
(* append() never looks at the rows the table holds.                       *)
Land(S) == table' = [r \in Row |-> IF r \in S THEN table[r] + 1 ELSE table[r]]

WriterNew ==
  /\ buffer' = {}
  /\ fpc' = "none"
  /\ rows' = {}
  /\ stale' = FALSE
  /\ UNCHANGED table

AddRowLate(r) ==  \* variant: > where the code has >=
  /\ buffer' = buffer \cup {r}
  /\ IF Cardinality(buffer') > CommitEveryRows THEN fpc' = "called" ELSE fpc' = "none"
  /\ UNCHANGED <<table, rows, stale>>

(* add_row: flush() is due when the buffer is full; when                   *)
(* commit_every_n_seconds have passed it is due as well.                   *)
AddRow(r) ==
  /\ buffer' = buffer \cup {r}
  /\ \/ fpc' = "called"
     \/ fpc' = "none" /\ Cardinality(buffer') < CommitEveryRows
  /\ UNCHANGED <<table, rows, stale>>

CallFlush ==
  /\ fpc = "none"
  /\ fpc' = "called"
  /\ UNCHANGED <<buffer, table, rows, stale>>

-----------------------------------------------------------------------------
(* The steps of flush().                                                   *)

FlushEmpty ==
  /\ fpc = "called"
  /\ buffer = {}
  /\ fpc' = "none"
  /\ UNCHANGED <<buffer, table, rows, stale>>

Capture ==
  /\ fpc = "called"
  /\ buffer # {}
  /\ rows' = buffer
  /\ fpc' = "captured"
  /\ UNCHANGED <<buffer, table, stale>>

(* tbl.append() opens a transaction on the table's current metadata.       *)
OpenAppend ==
  /\ fpc = "captured"
  /\ fpc' = "appending"
  /\ stale' = FALSE
  /\ UNCHANGED <<buffer, table, rows>>

CommitAppend ==
  /\ fpc = "appending"
  /\ ~stale
  /\ Land(rows)
  /\ fpc' = "committed"
  /\ UNCHANGED <<buffer, rows, stale>>

ClearBufferForgets ==  \* variant: the clear after append() is missing
  /\ fpc = "committed"
  /\ rows' = {}
  /\ fpc' = "none"
  /\ UNCHANGED <<buffer, table, stale>>

ClearBuffer ==
  /\ fpc = "committed"
  /\ buffer' = {}
  /\ rows' = {}
  /\ fpc' = "none"
  /\ UNCHANGED <<table, stale>>

FlushRaiseDrops ==  \* variant: the buffer is cleared although append() raised
  /\ fpc \in {"captured", "appending"} /\ "commit" \in Faults
  /\ buffer' = {}
  /\ fpc' = "none"
  /\ rows' = {}
  /\ stale' = FALSE
  /\ UNCHANGED table

(* flush() raises: the table could not be loaded, the commit was refused   *)
(* (always, when another commit came first), or it was accepted and the    *)
(* answer got lost.  In every case the buffer keeps its rows.              *)
FlushRaise ==
  /\ \/ /\ fpc = "captured" /\ "commit" \in Faults
        /\ UNCHANGED table
     \/ /\ fpc = "appending" /\ (stale \/ "commit" \in Faults)
        /\ UNCHANGED table
     \/ /\ fpc = "appending" /\ ~stale /\ "lostack" \in Faults
        /\ Land(rows)
  /\ fpc' = "none"
  /\ rows' = {}
  /\ stale' = FALSE
  /\ UNCHANGED buffer

(* flush() as the SIGTERM handler calls it, in the middle of whatever the  *)
(* main flow is doing.  Its own exception is caught by the handler.        *)
HandlerFlush ==
  \/ /\ \/ buffer = {}
        \/ "commit" \in Faults
     /\ UNCHANGED writerVars
  \/ /\ buffer # {}
     /\ Land(buffer)
     /\ \/ buffer' = {}
        \/ "lostack" \in Faults /\ UNCHANGED buffer
     /\ stale' = (fpc = "appending" \/ stale)
     /\ UNCHANGED <<fpc, rows>>

FlushStep == Capture \/ OpenAppend \/ CommitAppend
FlushReturn == FlushEmpty \/ ClearBuffer
=============================================================================

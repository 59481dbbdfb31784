------------------------------- MODULE Imports -------------------------------
(***************************************************************************)
(* A price list or stock list brought in from a file.  A preview reads the *)
(* shop and keeps a verdict per row; a commit, much later, writes every    *)
(* row that is not an error, all or none.  In between the shop goes on:    *)
(* other files are committed and phones are registered by hand.            *)
(*                                                                         *)
(* A file is a sequence of rows, each naming a phone or a product with a   *)
(* quantity.  What reading its cells comes to is given with the row: it is *)
(* `readable' or not, `doubtful' or not, and `coded' when it has an        *)
(* identifier (IMEI, serial or barcode).                                   *)
(***************************************************************************)
EXTENDS Inventory, Sequences, Totals

CONSTANTS Files,        \* the files that are uploaded
          BatchIds, ImportKeys, NoImportKey,
          Shop          \* the branch files are imported into

VARIABLES batch,        \* import_batches with their rows
          batchSeen     \* (status, version) a commit may have loaded

importVars == <<batch, batchSeen>>

Rows(f) == DOMAIN f.rows
NoBatch == [status |-> "none", version |-> 0, key |-> NoImportKey, kind |-> "imei",
            rows |-> <<>>, verdict |-> <<>>, created |-> {}]

ImportsTypeOK ==
    /\ \A b \in BatchIds :
         /\ batch[b].status \in {"none", "failed", "preview", "committed"}
         /\ batch[b].version \in Nat /\ batch[b].key \in ImportKeys \cup {NoImportKey}
         /\ batch[b].created \subseteq DOMAIN batch[b].rows
         /\ \A n \in DOMAIN batch[b].verdict : batch[b].verdict[n] \in {"valid", "warning", "error"}

ImportsInit ==
    /\ batch = [b \in BatchIds |-> NoBatch]
    /\ batchSeen = [b \in BatchIds |-> {}]

BatchLoaded(row) == [status |-> row.status, version |-> row.version]
WriteBatch(b, row) ==
    /\ batch' = [batch EXCEPT ![b] = row]
    /\ batchSeen' = [batchSeen EXCEPT ![b] = @ \cup {BatchLoaded(row)}]

-----------------------------------------------------------------------------
(* validateRow: a row that cannot be read, an identifier earlier in the file *)
(* or a phone already in the shop is an error; a cost of zero, or a price    *)
(* below the cost, is a warning and is imported.                             *)
ExistsInShop == {u \in Units : unit[u].status # "absent"}
SeenInFile(f, n) ==
    f.rows[n].coded /\ \E m \in 1..n - 1 : f.rows[m].coded /\ f.rows[m].what = f.rows[n].what

VerdictOf(f, n, found) ==
    IF ~f.rows[n].readable \/ SeenInFile(f, n) \/ f.rows[n].what \in found THEN "error"
    ELSE IF f.rows[n].doubtful THEN "warning" ELSE "valid"

(* preview: one query finds the phones of the file that are in the shop     *)
(* already, and what it found may be out of date when the batch is written. *)
(* A key that is already there is answered with its batch; a file without   *)
(* the columns it needs is kept as failed.                                  *)
Preview(b, f, k, found) ==
    /\ batch[b] = NoBatch
    /\ k # NoImportKey => \A c \in BatchIds : batch[c].key # k
    /\ WriteBatch(b, IF f.missing THEN [NoBatch EXCEPT !.status = "failed", !.key = k]
                     ELSE [NoBatch EXCEPT !.status = "preview", !.key = k, !.kind = f.kind,
                              !.rows = f.rows,
                              !.verdict = [n \in Rows(f) |-> VerdictOf(f, n, found)]])
    /\ UNCHANGED invVars

-----------------------------------------------------------------------------
(* commit.  The batch is claimed by version and status, then every row is   *)
(* written; the unique indexes of units undo the whole commit.              *)
ClaimedBlindly(b, load) == batch[b].status # "none"
Claimed(b, load) == batch[b].version = load.version /\ batch[b].status = "preview"

Importable(b) == {n \in DOMAIN batch[b].rows : batch[b].verdict[n] # "error"}

Commit(b, load) ==
    LET row   == batch[b]
        these == Importable(b)
        named == {row.rows[n].what : n \in these}
    IN
    /\ load.status = "preview"
    /\ Claimed(b, load)
    /\ these # {}
    /\ IF row.kind = "quantity"
       THEN /\ stock' = [p \in Products |-> [stock[p] EXCEPT ![Shop].quantity = @ +
                  TotalOf(these, [n \in these |->
                      IF row.rows[n].what = p THEN row.rows[n].quantity ELSE 0])]]
            /\ UNCHANGED <<unit, past>>
       ELSE /\ \A u \in named : unit[u].status = "absent"
            /\ WriteUnits([u \in Units |-> IF u \in named
                              THEN [status |-> "in_stock", branch |-> Shop] ELSE unit[u]])
            /\ UNCHANGED stock
    /\ WriteBatch(b, [row EXCEPT !.status = "committed", !.version = @ + 2,
                                 !.created = these])
    /\ UNCHANGED receipt

ImportStep ==
    \/ \E b \in BatchIds, f \in Files, k \in ImportKeys \cup {NoImportKey} :
         \E found \in SUBSET ExistsInShop : Preview(b, f, k, found)
    \/ \E b \in BatchIds : \E load \in batchSeen[b] : Commit(b, load)
=============================================================================

------------------------------- MODULE Import -------------------------------
(***************************************************************************)
(* What one batch of a product import does to the shop (importBatch and    *)
(* importRow, src/internal/catalog import.go): its rows one after another  *)
(* in one transaction, each under a savepoint of its own.  That batches    *)
(* are repeated and resumed is module JobQueue; a product's rows are never *)
(* split between two.                                                      *)
(***************************************************************************)
EXTENDS Naturals, Sequences, FiniteSets, Functions, TLC

CONSTANTS
  Batches,          (* rows that are sent: a title, a SKU, option values   *)
  Blank,            (* no title, no SKU                                    *)
  ImportSKU

ASSUME ImportAssumption == Blank \notin ImportSKU

VARIABLES
  batch,            (* the rows                                            *)
  onConflict,       (* what the import was asked to do about a known SKU   *)
  held,             (* SKUs as the transaction sees them                   *)
  mine,             (* those it has inserted itself                        *)
  done,             (* rows that are done, one way or the other            *)
  products,         (* products the transaction has made; an id is the row *)
  children,         (* and their variants                                  *)
  known,            (* the map of importBatch from titles to ids           *)
  failed,           (* rows in the error report                            *)
  blamed            (* history: those refused for something of their own   *)

importVars == <<batch, onConflict, held, mine, done, products, children, known, failed, blamed>>

Line == 1..Len(batch)

ImportTypeOK ==
  /\ batch \in Batches /\ onConflict \in {"update", "error"}
  /\ held \in [ImportSKU -> {"free", "live", "archived"}] /\ mine \subseteq ImportSKU
  /\ done \in 0..Len(batch)
  /\ products \subseteq Line /\ failed \subseteq Line /\ blamed \subseteq Line
  /\ children \subseteq Line \X {batch[i].values : i \in Line}
  /\ DOMAIN known \subseteq {batch[i].title : i \in Line} /\ Range(known) \subseteq Line

ImportInit ==
  /\ batch \in Batches /\ onConflict \in {"update", "error"}
  /\ held \in [ImportSKU -> {"free", "live", "archived"}]
  /\ mine = {} /\ done = 0
  /\ products = {} /\ children = {} /\ known = <<>>
  /\ failed = {} /\ blamed = {}
-----------------------------------------------------------------------------
(* The row to be done, and what VariantBySKU finds of it. *)
Now == done + 1
Sent == batch[Now]
Holder == IF Sent.sku = Blank THEN "free" ELSE held[Sent.sku]

Known == Sent.title \in DOMAIN known

(* The product the row belongs to; a new one gets the row's id. *)
Parent == IF Known THEN known[Sent.title] ELSE Now

Insertable == Parent \in products \cup (IF Known THEN {} ELSE {Now})
              /\ <<Parent, Sent.values>> \notin children

RowDone == done' = Now /\ UNCHANGED <<batch, onConflict>>

(* UpdateVariant. *)
RowUpdates ==
  /\ done < Len(batch) /\ RowDone
  /\ Holder = "live" /\ onConflict = "update"
  /\ UNCHANGED <<held, mine, products, children, known, failed, blamed>>

(* CreateProduct on the first use of the title, and CreateVariant. *)
RowCreates ==
  /\ done < Len(batch) /\ RowDone
  /\ Holder = "free" /\ Sent.title # Blank /\ Insertable
  /\ products' = products \cup {Parent}
  /\ children' = children \cup {<<Parent, Sent.values>>}
  /\ known' = (Sent.title :> Parent) @@ known
  /\ held' = IF Sent.sku = Blank THEN held ELSE [held EXCEPT ![Sent.sku] = "live"]
  /\ mine' = mine \cup ({Sent.sku} \ {Blank})
  /\ UNCHANGED <<failed, blamed>>

(* Its own fields are refused, a SKU that is known, a title that is not sent:
   before any product is made. *)
RowRefused ==
  /\ done < Len(batch) /\ RowDone
  /\ failed' = failed \cup {Now} /\ blamed' = blamed \cup {Now}
  /\ UNCHANGED <<held, mine, products, children, known>>

(* The INSERT of the variant fails, by a CHECK or a unique index or for want of
   the product: the savepoint takes the new product back, and the map keeps
   its id. *)
InsertFails ==
  /\ done < Len(batch) /\ RowDone
  /\ Holder = "free" /\ Sent.title # Blank
  /\ known' = (Sent.title :> Parent) @@ known
  /\ failed' = failed \cup {Now}
  /\ blamed' = IF Known /\ Parent \notin products THEN blamed ELSE blamed \cup {Now}
  /\ UNCHANGED <<held, mine, products, children>>

(* Another request takes a SKU. *)
TakenElsewhere(s) ==
  /\ done < Len(batch) /\ held[s] = "free"
  /\ held' = [held EXCEPT ![s] = "live"]
  /\ UNCHANGED <<batch, onConflict, mine, done, products, children, known, failed, blamed>>

(* The transaction fails, and the batch is done from the start some time. *)
BatchAgain ==
  /\ done < Len(batch)
  /\ held' = [s \in ImportSKU |-> IF s \in mine THEN "free" ELSE held[s]]
  /\ mine' = {} /\ done' = 0
  /\ products' = {} /\ children' = {} /\ known' = <<>>
  /\ failed' = {} /\ blamed' = {}
  /\ UNCHANGED <<batch, onConflict>>
-----------------------------------------------------------------------------
ImportNext == \/ RowUpdates \/ RowCreates \/ RowRefused \/ InsertFails \/ BatchAgain
              \/ \E s \in ImportSKU : TakenElsewhere(s)

ImportSpec == ImportInit /\ [][ImportNext]_importVars
-----------------------------------------------------------------------------
(***************************************************************************)
(* A row that fails leaves nothing behind: an import makes no product      *)
(* without a variant, whichever rows of a title fail.                      *)
(***************************************************************************)
NoEmptyProducts == \A p \in products : \E v \in children : v[1] = p

(***************************************************************************)
(* "Any other row joins the product its title names in this file" (the API *)
(* contract, and importRow's comment): only rows with something wrong of   *)
(* their own are reported.                                                 *)
(***************************************************************************)
GoodRowsLand == failed \subseteq blamed
=============================================================================

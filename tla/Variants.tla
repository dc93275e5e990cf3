------------------------------ MODULE Variants ------------------------------
(***************************************************************************)
(* One product and its variants (src/internal/catalog variants.go,         *)
(* matrix.go, bulk.go).  The grid of all variants is saved in one          *)
(* transaction that locks the product, reads the variants once and then    *)
(* works row by row, each row under a savepoint of its own; meanwhile      *)
(* single variants are created, edited and archived.  A handler that reads *)
(* before it writes takes two steps, the grid one for each row.            *)
(*                                                                         *)
(* A version only grows and is only compared with one that was read, so    *)
(* that it has moved since is all the readers here keep of it.             *)
(***************************************************************************)
EXTENDS Naturals, Sequences

CONSTANTS
  OptionNames,      (* values of products.option_names                     *)
  OptionValues,     (* values of variants.option_values                    *)
  SKU,
  NoSKU,
  Grids,            (* rows that are sent: a field for each of some values *)
  Editor,           (* requests about single variants under way            *)
  MaxVariants       (* variants the product ever has                       *)

(* What a field of a row may say: leave the SKU alone, clear it, set it. *)
Omitted == "omitted"
Field == {Omitted, NoSKU} \cup SKU

ASSUME VariantAssumption ==
  /\ \A n \in OptionNames \cup OptionValues : Len(n) \in Nat
  /\ NoSKU \notin SKU /\ Omitted \notin SKU \cup {NoSKU}
  /\ \A rows \in Grids : /\ DOMAIN rows \subseteq OptionValues
                        /\ rows \in [DOMAIN rows -> Field]
  /\ MaxVariants \in Nat

VARIABLES
  product,          (* option_names and archived                           *)
  variants,         (* rows, as committed, by id; ids are in order of birth *)
  grid,             (* the transaction of SaveMatrix, if one has the lock  *)
  edits,            (* requests about single variants                      *)
  late              (* history: variants whose creator had read option_names
                       that were replaced before it could insert           *)

variantVars == <<product, variants, grid, edits, late>>

Id == 1..MaxVariants

Row == [at : {"live", "archived"}, values : OptionValues, sku : SKU \cup {NoSKU}]
Unborn == [at |-> "none"]

NoGrid == [at |-> "none"]
NoEdit == [at |-> "none"]

VariantTypeOK ==
  /\ product \in [names : OptionNames, archived : BOOLEAN]
  /\ variants \in [Id -> Row \cup {Unborn}]
  /\ grid \in {NoGrid}
       \cup [at : {"open"}, names : OptionNames, rows : Grids, missing : BOOLEAN,
             snapshot : [Id -> Row \cup {Unborn}], moved : SUBSET Id,
             todo : SUBSET OptionValues, failed : SUBSET OptionValues,
             work : [Id -> Row \cup {Unborn}]]
  /\ edits \in [Editor -> {NoEdit}
       \cup [at : {"create"}, values : OptionValues, sku : SKU \cup {NoSKU}, overtaken : BOOLEAN]
       \cup [at : {"update"}, id : Id, sku : Field, before : Row, moved : BOOLEAN]]
  /\ late \subseteq Id

VariantInit ==
  /\ product \in [names : OptionNames, archived : {FALSE}]
  /\ variants = [i \in Id |-> Unborn]
  /\ grid = NoGrid
  /\ edits = [e \in Editor |-> NoEdit]
  /\ late = {}
-----------------------------------------------------------------------------
Live(vs) == {i \in Id : vs[i].at = "live"}
Born(vs) == {i \in Id : vs[i].at # "none"}

(* The row a new variant takes: ids are v7, in order of birth. *)
IsNext(i, vs) == i \notin Born(vs) /\ \A j \in 1..(i - 1) : j \in Born(vs)

(* variants_tenant_sku_uq, archived variants included. *)
SKUFree(vs, sku, self) == sku \notin SKU \/ \A i \in Born(vs) \ {self} : vs[i].sku # sku

(* variants_product_options_uq, of live ones. *)
ValuesFree(vs, values) == \A i \in Live(vs) : vs[i].values # values

Fits(values, names) == Len(values) = Len(names)

Set(old, field) == IF field = Omitted THEN old ELSE field
Edited(row, field) == [row EXCEPT !.sku = Set(@, field)]

(* What the grid's transaction has written is locked until it ends. *)
Locked(i) == grid # NoGrid /\ grid.work[i] # Unborn

Become(e, rec) == edits' = [edits EXCEPT ![e] = rec]

(* The versions of these variants move on, for whoever has read them. *)
MovedEdits(ids) == [e \in Editor |-> IF edits[e].at = "update" /\ edits[e].id \in ids
                                     THEN [edits[e] EXCEPT !.moved = TRUE] ELSE edits[e]]
MovedGrid(ids) == IF grid = NoGrid THEN NoGrid ELSE [grid EXCEPT !.moved = @ \cup ids]
-----------------------------------------------------------------------------
(* CreateVariant up to its INSERT: the product is not locked. *)
CreateReads(e, values, sku) ==
  /\ edits[e] = NoEdit
  /\ ~product.archived /\ Fits(values, product.names)
  /\ SKUFree(variants, sku, 0)
  /\ Become(e, [at |-> "create", values |-> values, sku |-> sku, overtaken |-> FALSE])
  /\ UNCHANGED <<product, variants, grid, late>>

(* The INSERT waits for a grid that holds the product, by the foreign key,
   and looks at nothing but the unique indexes afterwards. *)
CreateInserts(e) ==
  /\ edits[e].at = "create"
  /\ grid = NoGrid
  /\ SKUFree(variants, edits[e].sku, 0) /\ ValuesFree(variants, edits[e].values)
  /\ \E i \in Id :
       /\ IsNext(i, variants)
       /\ variants' = [variants EXCEPT ![i] = [at |-> "live", values |-> edits[e].values,
                                                sku |-> edits[e].sku]]
       /\ late' = IF edits[e].overtaken THEN late \cup {i} ELSE late
  /\ Become(e, NoEdit)
  /\ UNCHANGED <<product, grid>>

(* UpdateVariant up to its UPDATE; a row of Bulk and of an import reads the
   variant by its SKU and goes on alike. *)
UpdateReads(e, i, field) ==
  /\ edits[e] = NoEdit
  /\ i \in Live(variants)
  /\ SKUFree(variants, field, i)
  /\ Become(e, [at |-> "update", id |-> i, sku |-> field, before |-> variants[i],
               moved |-> FALSE])
  /\ UNCHANGED <<product, variants, grid, late>>

(* The UPDATE, once no grid holds the row: at the version that was read. *)
UpdateWrites(e) ==
  LET i == edits[e].id IN
  /\ edits[e].at = "update"
  /\ ~Locked(i) /\ ~edits[e].moved
  /\ SKUFree(variants, edits[e].sku, i)
  /\ variants' = [variants EXCEPT ![i] = Edited(@, edits[e].sku)]
  /\ edits' = [MovedEdits({i}) EXCEPT ![e] = NoEdit]
  /\ grid' = MovedGrid({i})
  /\ UNCHANGED <<product, late>>

(* Anything goes wrong: a version or a SKU that was taken meanwhile, the
   database, or a deadlock with the grid, which Postgres ends. *)
EditFails(e) == /\ edits[e] # NoEdit
                /\ Become(e, NoEdit)
                /\ UNCHANGED <<product, variants, grid, late>>

(* Mutation: archiving leaves the version as it is. *)
ArchiveUnnoticed(i) ==
  /\ i \in Born(variants) /\ ~Locked(i)
  /\ variants' = [variants EXCEPT ![i].at = "archived"]
  /\ UNCHANGED <<product, grid, edits, late>>

(* ArchiveVariant, also of an archived one. *)
ArchiveVariant(i) ==
  /\ i \in Born(variants) /\ ~Locked(i)
  /\ variants' = [variants EXCEPT ![i].at = "archived"]
  /\ edits' = MovedEdits({i})
  /\ grid' = MovedGrid({i})
  /\ UNCHANGED <<product, late>>

ArchiveProduct ==
  /\ ~product.archived /\ grid = NoGrid
  /\ product' = [product EXCEPT !.archived = TRUE]
  /\ UNCHANGED <<variants, grid, edits, late>>
-----------------------------------------------------------------------------
(* Mutation: new option names are taken over with nothing archived. *)
AxesMayChangeAlways(names, missing) == TRUE

AxesMayChange(names, missing) == names = product.names \/ missing \/ Live(variants) = {}

(* SaveMatrix up to its rows, the grid and the version checked; work is what
   the transaction has written so far. *)
GridOpens(names, rows, missing) ==
  /\ grid = NoGrid /\ ~product.archived
  /\ \A values \in DOMAIN rows : Fits(values, names)
  /\ AxesMayChange(names, missing)
  /\ grid' = [at |-> "open", names |-> names, rows |-> rows, missing |-> missing,
              snapshot |-> variants, moved |-> {}, todo |-> DOMAIN rows, failed |-> {},
              work |-> [i \in Id |-> Unborn]]
  /\ UNCHANGED <<product, variants, edits, late>>

(* The table as the transaction sees it. *)
Sees == [i \in Id |-> IF grid.work[i] = Unborn THEN variants[i] ELSE grid.work[i]]

Does(values, work) ==
  /\ grid' = [grid EXCEPT !.todo = @ \ {values}, !.work = work]
  /\ UNCHANGED <<product, variants, edits, late>>

(* The row's savepoint is rolled back, and the row alone has failed. *)
RowFails(values) ==
  /\ grid' = [grid EXCEPT !.todo = @ \ {values}, !.failed = @ \cup {values}]
  /\ UNCHANGED <<product, variants, edits, late>>

(* UpdateVariant of matrixRow, at the version of the snapshot or, after
   RestoreVariant, the next one; row is the variant as the transaction has it. *)
Writes(values, i, row) ==
  LET field == grid.rows[values] IN
  IF i \notin grid.moved /\ SKUFree(Sees, field, i)
  THEN Does(values, [grid.work EXCEPT ![i] = Edited(row, field)])
  ELSE RowFails(values)

Was(at, values) ==
  {i \in Id : grid.snapshot[i].at = at /\ grid.snapshot[i].values = values}

(* A row that changes nothing of the snapshot is not written. *)
UpdateRow(values, i) ==
  LET old == grid.snapshot[i] IN
  IF Edited(old, grid.rows[values]) = old THEN Does(values, grid.work)
  ELSE Writes(values, i, variants[i])

(* Mutation: what a failed row restored stays restored. *)
RestoreRowStays(values, i) ==
  LET row == [variants[i] EXCEPT !.at = "live"] IN
  IF i \notin grid.moved /\ SKUFree(Sees, grid.rows[values], i) THEN Writes(values, i, row)
  ELSE /\ grid' = [grid EXCEPT !.todo = @ \ {values}, !.failed = @ \cup {values},
                               !.work = [@ EXCEPT ![i] = row]]
       /\ UNCHANGED <<product, variants, edits, late>>

(* RestoreVariant looks at no version; the UPDATE after it does. *)
RestoreRow(values, i) == Writes(values, i, [variants[i] EXCEPT !.at = "live"])

CreateRow(values) ==
  LET field == grid.rows[values] IN
  IF SKUFree(Sees, field, 0)
  THEN \E i \in Id :
         /\ IsNext(i, Sees)
         /\ Does(values, [grid.work EXCEPT ![i] =
              [at |-> "live", values |-> values, sku |-> Set(NoSKU, field)]])
  ELSE RowFails(values)

(* matrixRow: the live variant of these values, else the oldest archived one,
   else a new one.  Any row may fail in the database. *)
MatrixRow(values) ==
  LET archived == Was("archived", values) IN
  /\ grid # NoGrid /\ values \in grid.todo
  /\ \/ \E i \in Was("live", values) : UpdateRow(values, i)
     \/ /\ Was("live", values) = {}
        /\ \E i \in archived : (\A j \in archived : i <= j) /\ RestoreRow(values, i)
     \/ Was("live", values) = {} /\ archived = {} /\ CreateRow(values)
     \/ RowFails(values)

(* Mutation: a row that failed counts as missing. *)
MissingOrFailed ==
  {i \in Live(grid.snapshot) : grid.missing /\
     (grid.snapshot[i].values \notin DOMAIN grid.rows \/ grid.snapshot[i].values \in grid.failed)}

(* The live variants that archive_missing archives. *)
Missing ==
  {i \in Live(grid.snapshot) : grid.missing /\ grid.snapshot[i].values \notin DOMAIN grid.rows}

Written == {i \in Id : grid.work[i] # Unborn}

(* The rest of SaveMatrix, and its commit. *)
GridCommits ==
  /\ grid # NoGrid /\ grid.todo = {}
  /\ variants' = [i \in Id |->
       IF i \in Missing THEN [variants[i] EXCEPT !.at = "archived"] ELSE Sees[i]]
  /\ product' = [product EXCEPT !.names = grid.names]
  /\ grid' = NoGrid
  /\ edits' = [e \in Editor |-> IF edits[e].at = "create" /\ grid.names # product.names
                                THEN [edits[e] EXCEPT !.overtaken = TRUE]
                                ELSE MovedEdits(Missing \cup Written)[e]]
  /\ UNCHANGED late

GridFails == /\ grid # NoGrid
             /\ grid' = NoGrid
             /\ UNCHANGED <<product, variants, edits, late>>
-----------------------------------------------------------------------------
EditNext(e) ==
  \/ \E values \in OptionValues, sku \in SKU \cup {NoSKU} : CreateReads(e, values, sku)
  \/ \E i \in Id, field \in Field : UpdateReads(e, i, field)
  \/ CreateInserts(e) \/ UpdateWrites(e) \/ EditFails(e)

GridNext ==
  \/ \E names \in OptionNames, rows \in Grids, missing \in BOOLEAN : GridOpens(names, rows, missing)
  \/ \E values \in OptionValues : MatrixRow(values)
  \/ GridCommits \/ GridFails

VariantNext == \/ \E e \in Editor : EditNext(e)
               \/ \E i \in Id : ArchiveVariant(i)
               \/ ArchiveProduct \/ GridNext

VariantSpec == VariantInit /\ [][VariantNext]_variantVars
-----------------------------------------------------------------------------
(***************************************************************************)
(* "Each variant's option_values follows the same positions" as the        *)
(* product's option_names (BR-040): a grid that changes them leaves no     *)
(* live variant behind that does not fit, and only a creation that had     *)
(* read the old ones before can put one there afterwards.                  *)
(***************************************************************************)
LiveFit == \A i \in Live(variants) : Fits(variants[i].values, product.names) \/ i \in late

(***************************************************************************)
(* "A failing row fails alone" (BR-041) and archive_missing archives what  *)
(* was not sent: after a save nothing outside a complete grid is live, and *)
(* a variant whose row failed is exactly what it was.                      *)
(***************************************************************************)
GridSaved ==
  [][grid # NoGrid /\ product'.names = grid.names /\ grid' = NoGrid /\ variants' # variants =>
       \A i \in Id :
         /\ grid.missing /\ variants'[i].at = "live" => variants'[i].values \in DOMAIN grid.rows
         /\ variants[i].at # "none" /\ variants[i].values \in grid.failed =>
              variants'[i] = variants[i]]_variantVars

(***************************************************************************)
(* What is saved, was read (BR-010): an edit changes the SKU of a variant  *)
(* that nobody has touched since the editor, or the grid, read it; one     *)
(* that was archived meanwhile is not edited.                              *)
(***************************************************************************)
NoEditLost ==
  [][\A i \in Id : variants[i].at # "none" /\ variants'[i].sku # variants[i].sku =>
       \/ grid # NoGrid /\ grid' = NoGrid /\ variants[i] = grid.snapshot[i]
       \/ \E e \in Editor : edits[e].at = "update" /\ edits'[e] = NoEdit
                            /\ edits[e].id = i /\ edits[e].before = variants[i]]_variantVars
=============================================================================

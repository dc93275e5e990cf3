--------------------------- MODULE CatalogProofs ----------------------------
(***************************************************************************)
(* The catalog, part by part.  What a deletion took off a product stays off *)
(* (ProductRefs): what was taken off is not live, and in no form that could *)
(* still be written, since such a form has read the product since, or its  *)
(* version has moved.  Live variants fit the product's options (Variants): a *)
(* grid works from what is there but for what has moved since, and an edit *)
(* from what it read.  Rows and bucket agree (Media): whatever is in the   *)
(* bucket, somebody still owes it a row or a deletion, and around an image *)
(* confirmed in quiet nobody deletes.  No import leaves an empty product   *)
(* (Import).  A shop features one post (Blog): a save knows which, or has  *)
(* been told that the flag moved.  The tree of categories agrees with its  *)
(* paths (Categories): a path is taken apart from its end, and whatever it *)
(* begins with is the path of a category, so what moves with a category is *)
(* what lies below it, and comes to lie nowhere else.                      *)
(***************************************************************************)
EXTENDS Categories, ProductRefs, Variants, Media, Import, Blog,
        SequenceTheorems, WellFoundedInduction, TLAPS

(* A form that may become the product's row. *)
Writable(f) == \/ forms[f].at = "written"
               \/ forms[f].at = "checked" /\ ~forms[f].moved

ShedStays ==
  /\ \A pr \in shed : pr[2] \notin live
  /\ NeverPutBack
  /\ \A f \in Form, r \in Ref :
       Writable(f) /\ r \in forms[f].refs => <<forms[f].product, r>> \notin shed

RefInv == RefTypeOK /\ ShedStays

FormTypes == {NoForm}
       \cup [at : {"checked"}, product : Product, refs : SUBSET Ref, links : BOOLEAN,
             moved : BOOLEAN]
       \cup [at : {"written"}, product : Product, refs : SUBSET Ref, links : BOOLEAN,
             bound : BOOLEAN]

LEMMA FormShapes ==
  ASSUME RefTypeOK, NEW f \in Form
  PROVE  /\ forms[f] \in FormTypes
         /\ forms[f].at \in {"checked", "written"} =>
              forms[f].product \in Product /\ forms[f].refs \subseteq Ref /\ forms[f].links \in BOOLEAN
         /\ forms[f].at = "checked" =>
              forms[f] \in [at : {"checked"}, product : Product, refs : SUBSET Ref,
                            links : BOOLEAN, moved : BOOLEAN]
         /\ forms[f].at = "written" =>
              forms[f] \in [at : {"written"}, product : Product, refs : SUBSET Ref,
                            links : BOOLEAN, bound : BOOLEAN]
  <1>1. forms[f] \in FormTypes
    BY DEF RefTypeOK, FormTypes
  <1>2. forms[f].at = "checked" =>
              forms[f] \in [at : {"checked"}, product : Product, refs : SUBSET Ref,
                            links : BOOLEAN, moved : BOOLEAN]
    BY <1>1 DEF FormTypes, NoForm
  <1>3. forms[f].at = "written" =>
              forms[f] \in [at : {"written"}, product : Product, refs : SUBSET Ref,
                            links : BOOLEAN, bound : BOOLEAN]
    BY <1>1 DEF FormTypes, NoForm
  <1> QED BY <1>1, <1>2, <1>3

(* Moved changes nothing of a form but that it can no longer be written. *)
LEMMA MovedForms ==
  ASSUME RefTypeOK, NEW ps, NEW f \in Form
  PROVE  /\ Moved(ps)[f] \in FormTypes
         /\ forms[f].at = "checked" /\ forms[f].product \in ps =>
              Moved(ps)[f].at = "checked" /\ Moved(ps)[f].moved
         /\ ~(forms[f].at = "checked" /\ forms[f].product \in ps) => Moved(ps)[f] = forms[f]
  <1>1. CASE forms[f].at = "checked" /\ forms[f].product \in ps
    <2>1. Moved(ps)[f] = [forms[f] EXCEPT !.moved = TRUE]
      BY <1>1 DEF Moved
    <2>2. forms[f] \in [at : {"checked"}, product : Product, refs : SUBSET Ref,
                        links : BOOLEAN, moved : BOOLEAN]
      BY <1>1, FormShapes
    <2>3. [forms[f] EXCEPT !.moved = TRUE]
            \in [at : {"checked"}, product : Product, refs : SUBSET Ref, links : BOOLEAN,
                 moved : BOOLEAN]
      BY <2>2
    <2>4. [forms[f] EXCEPT !.moved = TRUE].moved = TRUE
      BY <2>2
    <2> QED BY <1>1, <2>1, <2>3, <2>4 DEF FormTypes
  <1>2. CASE ~(forms[f].at = "checked" /\ forms[f].product \in ps)
    BY <1>2, FormShapes DEF Moved
  <1> QED BY <1>1, <1>2

LEMMA TypeStep ==
  ASSUME RefTypeOK, [RefNext]_refVars
  PROVE  RefTypeOK'
  <1>0. RefTypeOK <=> /\ live \subseteq Ref /\ refs \in [Product -> SUBSET Ref]
                      /\ forms \in [Form -> FormTypes] /\ shed \subseteq Product \X Ref
    BY DEF RefTypeOK, FormTypes
  <1>1. ASSUME NEW f \in Form, NEW p \in Product, NEW new \in SUBSET Ref, NEW links \in BOOLEAN,
               FormChecks(f, p, new, links)
        PROVE  RefTypeOK'
    <2>1. [at |-> "checked", product |-> p, refs |-> new, links |-> links, moved |-> FALSE]
            \in FormTypes
      BY DEF FormTypes
    <2> QED BY <1>0, <1>1, <2>1 DEF FormChecks, RefTypeOK, FormTypes
  <1>2. ASSUME NEW f \in Form, FormWrites(f) PROVE RefTypeOK'
    <2>1. [at |-> "written", product |-> forms[f].product, refs |-> forms[f].refs,
           links |-> forms[f].links, bound |-> FALSE] \in FormTypes
      BY <1>2, FormShapes DEF FormWrites, FormTypes
    <2> HIDE DEF FormTypes
    <2>2. forms' \in [Form -> FormTypes]
      BY <1>0, <1>2, <2>1 DEF FormWrites
    <2> QED BY <1>0, <1>2, <2>2 DEF FormWrites, RefTypeOK, FormTypes
  <1>3. ASSUME NEW f \in Form, FormCommits(f) PROVE RefTypeOK'
    <2>1. forms' \in [Form -> FormTypes]
      <3>1. \A g \in Form : Moved({forms[f].product})[g] \in FormTypes
        BY MovedForms
      <3>2. NoForm \in FormTypes
        BY DEF FormTypes
      <3> QED BY <1>3, <3>1, <3>2 DEF FormCommits, Moved
    <2>2. refs' \in [Product -> SUBSET Ref]
      BY <1>0, <1>3, FormShapes DEF FormCommits
    <2> QED BY <1>0, <1>3, <2>1, <2>2 DEF FormCommits, RefTypeOK, FormTypes
  <1>4. ASSUME NEW f \in Form, FormFails(f) PROVE RefTypeOK'
    BY <1>0, <1>4 DEF FormFails, RefTypeOK
  <1>5. ASSUME NEW b \in Brand, ClearBrand(b) PROVE RefTypeOK'
    <2>1. forms' \in [Form -> FormTypes]
      BY <1>5, MovedForms DEF ClearBrand, TakesOff, Moved
    <2>2. refs' \in [Product -> SUBSET Ref] /\ live' \subseteq Ref
      BY <1>0, <1>5 DEF ClearBrand, TakesOff
    <2>3. shed' \subseteq Product \X Ref
      BY <1>0, <1>5 DEF ClearBrand, TakesOff, Carrying, Ref
    <2> QED BY <2>1, <2>2, <2>3 DEF RefTypeOK, FormTypes
  <1>6. ASSUME NEW c \in Category, ClearCategory(c) PROVE RefTypeOK'
    <2> DEFINE ps == Carrying(c) \ Relinking(c)
    <2>1. forms' \in [Form -> FormTypes]
      <3>1. \A f \in Form : forms[f].at = "written" =>
              [forms[f] EXCEPT !.bound = TRUE] \in FormTypes
        BY FormShapes DEF FormTypes
      <3>2. \A f \in Form : Moved(ps)[f] \in FormTypes
        BY MovedForms
      <3> QED BY <1>6, <3>1, <3>2 DEF ClearCategory
    <2>2. refs' \in [Product -> SUBSET Ref] /\ live' \subseteq Ref
      BY <1>0, <1>6 DEF ClearCategory
    <2>3. shed' \subseteq Product \X Ref
      BY <1>0, <1>6 DEF ClearCategory, Carrying, Ref
    <2> QED BY <2>1, <2>2, <2>3 DEF RefTypeOK, FormTypes
  <1>7. CASE UNCHANGED refVars
    BY <1>7 DEF refVars, RefTypeOK
  <1> QED BY <1>1, <1>2, <1>3, <1>4, <1>5, <1>6, <1>7 DEF RefNext

(* What is taken off products that no form holds, and off live. *)
LEMMA TakingOff ==
  ASSUME RefInv, NEW r \in Ref, NEW ps \in SUBSET Product,
         \A p \in ps : Holding(p) = {},
         live' = live \ {r},
         refs' = [p \in Product |-> IF p \in ps THEN refs[p] \ {r} ELSE refs[p]],
         shed' = shed \cup {<<p, r>> : p \in ps},
         \A f \in Form : \/ forms'[f] = Moved(ps)[f]
                         \/ /\ forms[f].at = "written"
                            /\ forms'[f] = [forms[f] EXCEPT !.bound = TRUE]
  PROVE  ShedStays'
  <1> USE DEF RefInv
  <1>0. shed \subseteq Product \X Ref /\ refs \in [Product -> SUBSET Ref]
    BY DEF RefTypeOK
  <1>1. \A pr \in shed' : pr[2] \notin live'
    BY DEF ShedStays
  <1>2. \A pr \in shed' : pr[2] \notin refs'[pr[1]]
    BY <1>0 DEF ShedStays, NeverPutBack
  <1>3. ASSUME NEW f \in Form, NEW s \in Ref, Writable(f)', s \in forms'[f].refs
        PROVE  <<forms'[f].product, s>> \notin shed'
    <2>1. /\ Writable(f) /\ forms'[f].product = forms[f].product /\ forms'[f].refs = forms[f].refs
          /\ forms[f].product \notin ps
      <3>1. CASE forms'[f] = Moved(ps)[f]
        <4>1. ~(forms[f].at = "checked" /\ forms[f].product \in ps)
          BY <1>3, <3>1, MovedForms DEF Writable
        <4>2. forms'[f] = forms[f]
          BY <3>1, <4>1, MovedForms
        <4>3. forms[f].at = "written" => forms[f].product \notin ps
          BY DEF Holding
        <4> QED BY <1>3, <4>1, <4>2, <4>3 DEF Writable
      <3>2. CASE /\ forms[f].at = "written"
                 /\ forms'[f] = [forms[f] EXCEPT !.bound = TRUE]
        <4>1. forms[f].product \notin ps
          BY <3>2 DEF Holding
        <4>2. forms'[f].product = forms[f].product /\ forms'[f].refs = forms[f].refs
          <5>1. forms[f] \in [at : {"written"}, product : Product, refs : SUBSET Ref,
                              links : BOOLEAN, bound : BOOLEAN]
            BY <3>2, FormShapes
          <5> QED BY <3>2, <5>1
        <4> QED BY <3>2, <4>1, <4>2 DEF Writable
      <3> QED BY <3>1, <3>2
    <2>2. <<forms[f].product, s>> \notin shed
      BY <1>3, <2>1 DEF ShedStays
    <2> QED BY <2>1, <2>2
  <1> QED BY <1>1, <1>2, <1>3 DEF ShedStays, NeverPutBack

LEMMA ShedStep ==
  ASSUME RefInv, [RefNext]_refVars
  PROVE  ShedStays'
  <1> USE DEF RefInv
  <1>0. /\ shed \subseteq Product \X Ref /\ refs \in [Product -> SUBSET Ref]
        /\ forms \in [Form -> FormTypes] /\ live \subseteq Ref
    BY DEF RefTypeOK, FormTypes
  <1>1. ASSUME NEW f \in Form, NEW p \in Product, NEW new \in SUBSET Ref, NEW links \in BOOLEAN,
               FormChecks(f, p, new, links)
        PROVE  ShedStays'
    <2>1. ASSUME NEW r \in Ref, r \in new PROVE <<p, r>> \notin shed
      <3>1. r \in live \/ r \in refs[p]
        <4>1. CASE r \in Category
          BY <1>1, <2>1, <4>1 DEF FormChecks, CheckRefs
        <4>2. CASE r \in Brand
          BY <1>1, <2>1, <4>2 DEF FormChecks, CheckRefs
        <4> QED BY <4>1, <4>2 DEF Ref
      <3>2. \A pr \in shed : pr[2] \notin live /\ pr[2] \notin refs[pr[1]]
        BY DEF ShedStays, NeverPutBack
      <3> QED BY <3>1, <3>2
    <2> DEFINE rec == [at |-> "checked", product |-> p, refs |-> new, links |-> links,
                       moved |-> FALSE]
    <2>2. \A g \in Form : forms'[g] = IF g = f THEN rec ELSE forms[g]
      BY <1>0, <1>1 DEF FormChecks
    <2>3. rec.product = p /\ rec.refs = new
      OBVIOUS
    <2>4. live' = live /\ refs' = refs /\ shed' = shed
      BY <1>1 DEF FormChecks
    <2> HIDE DEF rec
    <2>5. ASSUME NEW g \in Form, NEW r \in Ref, Writable(g)', r \in forms'[g].refs
          PROVE  <<forms'[g].product, r>> \notin shed'
      <3>1. CASE g = f
        BY <2>1, <2>2, <2>3, <2>4, <2>5, <3>1
      <3>2. CASE g # f
        <4>1. forms'[g] = forms[g]
          BY <2>2, <3>2
        <4> QED BY <2>4, <2>5, <4>1 DEF ShedStays, Writable
      <3> QED BY <3>1, <3>2
    <2> QED BY <2>4, <2>5 DEF ShedStays, NeverPutBack
  <1>2. ASSUME NEW f \in Form, FormWrites(f) PROVE ShedStays'
    <2> DEFINE rec == [at |-> "written", product |-> forms[f].product, refs |-> forms[f].refs,
                       links |-> forms[f].links, bound |-> FALSE]
    <2>1. \A g \in Form : forms'[g] = IF g = f THEN rec ELSE forms[g]
      BY <1>0, <1>2 DEF FormWrites
    <2>2. rec.product = forms[f].product /\ rec.refs = forms[f].refs /\ Writable(f)
      BY <1>2 DEF FormWrites, Writable
    <2>3. live' = live /\ refs' = refs /\ shed' = shed
      BY <1>2 DEF FormWrites
    <2> HIDE DEF rec
    <2>4. ASSUME NEW g \in Form, NEW r \in Ref, Writable(g)', r \in forms'[g].refs
          PROVE  <<forms'[g].product, r>> \notin shed'
      <3>1. CASE g = f
        BY <2>1, <2>2, <2>3, <2>4, <3>1 DEF ShedStays
      <3>2. CASE g # f
        <4>1. forms'[g] = forms[g]
          BY <2>1, <3>2
        <4> QED BY <2>3, <2>4, <4>1 DEF ShedStays, Writable
      <3> QED BY <3>1, <3>2
    <2> QED BY <2>3, <2>4 DEF ShedStays, NeverPutBack
  <1>3. ASSUME NEW f \in Form, FormCommits(f) PROVE ShedStays'
    <2> DEFINE p == forms[f].product
    <2>1. p \in Product /\ forms[f].refs \subseteq Ref
      <3>1. forms[f].at = "written"
        BY <1>3 DEF FormCommits
      <3> QED BY <3>1, FormShapes
    <2>2. \A r \in forms[f].refs : <<p, r>> \notin shed
      BY <1>3, <2>1 DEF FormCommits, ShedStays, Writable
    <2>3. live' = live /\ shed' = shed /\ refs' = [refs EXCEPT ![p] = forms[f].refs]
      BY <1>3 DEF FormCommits
    <2>4. \A pr \in shed' : pr[2] \notin refs'[pr[1]]
      <3> SUFFICES ASSUME NEW q \in Product, NEW r \in Ref, <<q, r>> \in shed
                   PROVE  r \notin refs'[q]
        BY <1>0, <2>3
      <3>1. r \notin refs[q]
        BY DEF ShedStays, NeverPutBack
      <3> QED BY <1>0, <2>1, <2>2, <2>3, <3>1
    <2>5. ASSUME NEW g \in Form, NEW r \in Ref, Writable(g)', r \in forms'[g].refs
          PROVE  <<forms'[g].product, r>> \notin shed'
      <3>1. CASE g = f
        <4>1. forms'[g] = NoForm
          BY <1>3, <3>1 DEF FormCommits, Moved
        <4> QED BY <2>5, <4>1 DEF Writable, NoForm
      <3>2. CASE g # f
        <4>1. forms'[g] = Moved({p})[g]
          BY <1>3, <3>2 DEF FormCommits, Moved
        <4>2. ~(forms[g].at = "checked" /\ forms[g].product \in {p})
          BY <2>5, <4>1, MovedForms DEF Writable
        <4>3. forms'[g] = forms[g]
          BY <4>1, <4>2, MovedForms
        <4> QED BY <2>3, <2>5, <4>3 DEF ShedStays, Writable
      <3> QED BY <3>1, <3>2
    <2> QED BY <2>3, <2>4, <2>5 DEF ShedStays, NeverPutBack
  <1>4. ASSUME NEW f \in Form, FormFails(f) PROVE ShedStays'
    <2>1. \A g \in Form : forms'[g] = NoForm \/ forms'[g] = forms[g]
      BY <1>0, <1>4 DEF FormFails
    <2>2. live' = live /\ refs' = refs /\ shed' = shed
      BY <1>4 DEF FormFails
    <2>3. \A g \in Form : Writable(g)' => forms'[g] = forms[g] /\ Writable(g)
      BY <2>1 DEF Writable, NoForm
    <2> QED BY <2>2, <2>3 DEF ShedStays, NeverPutBack
  <1>5. ASSUME NEW b \in Brand, ClearBrand(b) PROVE ShedStays'
    <2>1. b \in Ref /\ Carrying(b) \in SUBSET Product
      BY DEF Ref, Carrying
    <2> QED BY <1>5, <2>1, TakingOff DEF ClearBrand, TakesOff
  <1>6. ASSUME NEW c \in Category, ClearCategory(c) PROVE ShedStays'
    <2> DEFINE ps == Carrying(c) \ Relinking(c)
    <2>1. c \in Ref /\ ps \in SUBSET Product
      BY DEF Ref, Carrying
    <2>2. \A f \in Form : \/ forms'[f] = Moved(ps)[f]
                          \/ /\ forms[f].at = "written"
                             /\ forms'[f] = [forms[f] EXCEPT !.bound = TRUE]
      BY <1>6 DEF ClearCategory
    <2>3. /\ \A p \in ps : Holding(p) = {} /\ live' = live \ {c}
          /\ refs' = [p \in Product |-> IF p \in ps THEN refs[p] \ {c} ELSE refs[p]]
          /\ shed' = shed \cup {<<p, c>> : p \in ps}
      BY <1>6 DEF ClearCategory
    <2> HIDE DEF ps
    <2>4. live' = live \ {c} /\ \A p \in ps : Holding(p) = {}
      BY <1>6 DEF ClearCategory, ps
    <2> QED BY <2>1, <2>2, <2>3, <2>4, TakingOff
  <1>7. CASE UNCHANGED refVars
    BY <1>7 DEF refVars, ShedStays, NeverPutBack, Writable
  <1> QED BY <1>1, <1>2, <1>3, <1>4, <1>5, <1>6, <1>7 DEF RefNext

LEMMA RefBegins == RefInit => RefInv
  BY DEF RefInit, RefInv, RefTypeOK, ShedStays, NeverPutBack, Writable, NoForm

LEMMA RefKeeps == RefInv /\ [RefNext]_refVars => RefInv'
  BY TypeStep, ShedStep DEF RefInv

(***************************************************************************)
(* Products, forms and what they refer to keep their types, for any number *)
(* of each (products.go).                                                  *)
(***************************************************************************)
THEOREM RefTypesCorrect == RefSpec => []RefTypeOK
  <1>1. RefInv => RefTypeOK
    BY DEF RefInv
  <1> QED BY <1>1, RefBegins, RefKeeps, PTL DEF RefSpec

(***************************************************************************)
(* No form gives a product back the brand or the category a deletion took  *)
(* off it, for any number of forms, deletions and products (brands.sql,    *)
(* categories.sql).                                                        *)
(***************************************************************************)
THEOREM TakenOffStays == RefSpec => []NeverPutBack
  <1>1. RefInv => NeverPutBack
    BY DEF RefInv, ShedStays
  <1> QED BY <1>1, RefBegins, RefKeeps, PTL DEF RefSpec
-----------------------------------------------------------------------------
(* What a grid works from is what is there but for what has moved since; what
   it has written it holds, and each row once. *)
GridRow(i) ==
  /\ variants[i] = Unborn <=> grid.snapshot[i] = Unborn
  /\ variants[i] # Unborn => variants[i].values = grid.snapshot[i].values
  /\ variants[i].at = "live" => grid.snapshot[i].at = "live"
  /\ i \notin grid.moved => variants[i] = grid.snapshot[i]
  /\ i \in grid.moved => variants[i] # Unborn
  /\ grid.work[i] # Unborn =>
       /\ i \notin grid.moved
       /\ grid.work[i].values \in DOMAIN grid.rows \ (grid.todo \cup grid.failed)
       /\ variants[i] # Unborn => grid.work[i].values = variants[i].values

GridKnows == grid # NoGrid =>
  /\ AxesMayChange(grid.names, grid.missing)
  /\ \A values \in DOMAIN grid.rows : Fits(values, grid.names)
  /\ grid.todo \subseteq DOMAIN grid.rows \ grid.failed
  /\ grid.failed \subseteq DOMAIN grid.rows
  /\ \A i \in Id : GridRow(i)

(* What an editor works from. *)
EditsKnow == \A e \in Editor :
  /\ edits[e].at = "create" /\ ~edits[e].overtaken => Fits(edits[e].values, product.names)
  /\ edits[e].at = "update" /\ ~edits[e].moved => variants[edits[e].id] = edits[e].before

VariantInv == VariantTypeOK /\ GridKnows /\ EditsKnow /\ LiveFit

OpenGrid == [at : {"open"}, names : OptionNames, rows : Grids, missing : BOOLEAN,
             snapshot : [Id -> Row \cup {Unborn}], moved : SUBSET Id,
             todo : SUBSET OptionValues, failed : SUBSET OptionValues,
             work : [Id -> Row \cup {Unborn}]]

EditTypes == {NoEdit}
       \cup [at : {"create"}, values : OptionValues, sku : SKU \cup {NoSKU}, overtaken : BOOLEAN]
       \cup [at : {"update"}, id : Id, sku : Field, before : Row, moved : BOOLEAN]

LEMMA VariantShapes ==
  ASSUME VariantTypeOK
  PROVE  /\ variants \in [Id -> Row \cup {Unborn}] /\ edits \in [Editor -> EditTypes]
         /\ product \in [names : OptionNames, archived : BOOLEAN] /\ late \subseteq Id
         /\ grid = NoGrid \/ grid \in OpenGrid
  BY DEF VariantTypeOK, OpenGrid, EditTypes

LEMMA RowShapes ==
  /\ Unborn.at = "none" /\ Unborn \notin Row
  /\ \A r \in Row : r.at \in {"live", "archived"} /\ r # Unborn /\ r.values \in OptionValues
  BY DEF Unborn, Row

LEMMA EditShapes ==
  ASSUME NEW edit \in EditTypes
  PROVE  /\ edit.at = "create" =>
              edit \in [at : {"create"}, values : OptionValues, sku : SKU \cup {NoSKU},
                        overtaken : BOOLEAN]
         /\ edit.at = "update" =>
              edit \in [at : {"update"}, id : Id, sku : Field, before : Row, moved : BOOLEAN]
         /\ edit = NoEdit \/ edit.at = "create" \/ edit.at = "update"
  BY DEF EditTypes, NoEdit

(* A row that is edited keeps its values and its type. *)
LEMMA EditedRow ==
  ASSUME NEW row \in Row, NEW field \in Field
  PROVE  /\ Edited(row, field) \in Row
         /\ Edited(row, field).values = row.values /\ Edited(row, field).at = row.at
  BY VariantAssumption DEF Edited, Set, Field, Row

(* Only what moves tells an editor anything, and only that it moved. *)
LEMMA MovedEdit ==
  ASSUME VariantTypeOK, NEW ids \in SUBSET Id, NEW e \in Editor
  PROVE  /\ MovedEdits(ids)[e] \in EditTypes
         /\ MovedEdits(ids)[e].at = edits[e].at
         /\ edits[e].at = "create" => MovedEdits(ids)[e] = edits[e]
         /\ edits[e].at = "update" =>
              /\ MovedEdits(ids)[e].id = edits[e].id
              /\ MovedEdits(ids)[e].before = edits[e].before
              /\ ~MovedEdits(ids)[e].moved => ~edits[e].moved /\ edits[e].id \notin ids
  <1>1. CASE edits[e].at = "update"
    <2>1. edits[e] \in [at : {"update"}, id : Id, sku : Field, before : Row, moved : BOOLEAN]
      BY <1>1, VariantShapes, EditShapes
    <2> QED BY <1>1, <2>1 DEF MovedEdits, EditTypes
  <1>2. CASE edits[e].at # "update"
    BY <1>2, VariantShapes DEF MovedEdits
  <1> QED BY <1>1, <1>2

(* In the same way a grid. *)
LEMMA MovedGridIs ==
  ASSUME VariantTypeOK, NEW ids \in SUBSET Id
  PROVE  /\ grid = NoGrid => MovedGrid(ids) = NoGrid
         /\ grid # NoGrid =>
              /\ MovedGrid(ids) \in OpenGrid /\ MovedGrid(ids) # NoGrid
              /\ MovedGrid(ids).names = grid.names /\ MovedGrid(ids).missing = grid.missing
              /\ MovedGrid(ids).rows = grid.rows /\ MovedGrid(ids).todo = grid.todo
              /\ MovedGrid(ids).failed = grid.failed /\ MovedGrid(ids).work = grid.work
              /\ MovedGrid(ids).snapshot = grid.snapshot
              /\ MovedGrid(ids).moved = grid.moved \cup ids
  <1>1. CASE grid # NoGrid
    <2>1. grid \in OpenGrid /\ MovedGrid(ids) = [grid EXCEPT !.moved = @ \cup ids]
      BY <1>1, VariantShapes DEF MovedGrid
    <2> QED BY <1>1, <2>1 DEF OpenGrid, NoGrid
  <1>2. CASE grid = NoGrid
    BY <1>2 DEF MovedGrid
  <1> QED BY <1>1, <1>2

LEMMA VariantBegins == VariantInit => VariantInv
  <1> SUFFICES ASSUME VariantInit PROVE VariantInv
    OBVIOUS
  <1>1. VariantTypeOK
    BY DEF VariantInit, VariantTypeOK
  <1>2. GridKnows
    BY DEF VariantInit, GridKnows
  <1>3. EditsKnow
    BY DEF VariantInit, EditsKnow, NoEdit
  <1>4. LiveFit
    BY DEF VariantInit, LiveFit, Live, Unborn
  <1> QED BY <1>1, <1>2, <1>3, <1>4 DEF VariantInv

(* A row that no grid holds is edited or archived. *)
LEMMA RowChanges ==
  ASSUME VariantInv, NEW i \in Id, NEW row \in Row,
         variants[i] \in Row, ~Locked(i),
         row.values = variants[i].values, row.at = "live" => variants[i].at = "live",
         variants' = [variants EXCEPT ![i] = row],
         grid' = MovedGrid({i}), product' = product, late' = late,
         edits' \in [Editor -> EditTypes],
         \A e \in Editor : edits'[e] = NoEdit \/ edits'[e] = MovedEdits({i})[e]
  PROVE  VariantInv'
  <1> USE DEF VariantInv
  <1>0. /\ variants \in [Id -> Row \cup {Unborn}] /\ {i} \in SUBSET Id
        /\ variants'[i] = row /\ \A j \in Id \ {i} : variants'[j] = variants[j]
    BY VariantShapes
  <1>1. VariantTypeOK'
    <2>1. grid' \in {NoGrid} \cup OpenGrid
      BY <1>0, MovedGridIs
    <2> QED BY <1>0, <2>1, VariantShapes DEF VariantTypeOK, OpenGrid, EditTypes
  <1>2. ASSUME grid' # NoGrid PROVE GridKnows'
    <2>1. grid # NoGrid /\ grid \in OpenGrid /\ grid.work[i] = Unborn
      BY <1>0, <1>2, MovedGridIs, VariantShapes DEF Locked
    <2>2. /\ grid'.names = grid.names /\ grid'.missing = grid.missing
          /\ grid'.rows = grid.rows /\ grid'.todo = grid.todo
          /\ grid'.failed = grid.failed /\ grid'.work = grid.work
          /\ grid'.snapshot = grid.snapshot
          /\ grid'.moved = grid.moved \cup {i}
      BY <1>0, <2>1, MovedGridIs
    <2>3. AxesMayChange(grid.names, grid.missing)'
      <3>1. Live(variants)' \subseteq Live(variants)
        BY <1>0 DEF Live
      <3>2. AxesMayChange(grid.names, grid.missing)
        BY <2>1 DEF GridKnows
      <3> QED BY <2>2, <3>1, <3>2 DEF AxesMayChange
    <2>4. ASSUME NEW j \in Id PROVE GridRow(j)'
      <3>0. GridRow(j)
        BY <2>1 DEF GridKnows
      <3>1. CASE j = i
        <4>1. variants'[j] # Unborn /\ variants[j] # Unborn /\ grid'.work[j] = Unborn
          BY <1>0, <2>1, <2>2, <3>1, RowShapes
        <4>2. j \in grid'.moved
          BY <2>2, <3>1
        <4>3. variants'[j].values = variants[j].values
              /\ (variants'[j].at = "live" => variants[j].at = "live")
          BY <1>0, <3>1
        <4> QED BY <2>2, <3>0, <4>1, <4>2, <4>3 DEF GridRow
      <3>2. CASE j # i
        <4>1. variants'[j] = variants[j]
          BY <1>0, <3>2
        <4>2. j \in grid'.moved <=> j \in grid.moved
          BY <2>2, <3>2
        <4> QED BY <2>2, <3>0, <4>1, <4>2 DEF GridRow
      <3> QED BY <3>1, <3>2
    <2>5. (\A values \in DOMAIN grid.rows : Fits(values, grid.names))'
      BY <2>1, <2>2 DEF GridKnows
    <2>6. (grid.todo \subseteq DOMAIN grid.rows \ grid.failed /\ grid.failed \subseteq DOMAIN grid.rows)'
      BY <2>1, <2>2 DEF GridKnows
    <2> QED BY <2>3, <2>4, <2>5, <2>6 DEF GridKnows
  <1>3. EditsKnow'
    <2> SUFFICES ASSUME NEW e \in Editor
        PROVE  /\ edits'[e].at = "create" /\ ~edits'[e].overtaken => Fits(edits'[e].values, product.names)
               /\ edits'[e].at = "update" /\ ~edits'[e].moved =>
                    variants'[edits'[e].id] = edits'[e].before
      BY DEF EditsKnow
    <2>1. CASE edits'[e] = NoEdit
      BY <2>1 DEF NoEdit
    <2>2. CASE edits'[e] = MovedEdits({i})[e]
      <3>1. edits'[e].at = "create" => edits'[e] = edits[e]
        BY <1>0, <2>2, MovedEdit
      <3>2. edits'[e].at = "update" /\ ~edits'[e].moved =>
              /\ edits[e].at = "update" /\ ~edits[e].moved /\ edits[e].id # i
              /\ edits'[e].id = edits[e].id /\ edits'[e].before = edits[e].before
        BY <1>0, <2>2, MovedEdit
      <3>3. edits[e].at = "update" => edits[e].id \in Id
        BY VariantShapes, EditShapes
      <3> QED BY <1>0, <3>1, <3>2, <3>3 DEF EditsKnow
    <2> QED BY <2>1, <2>2
  <1>4. LiveFit'
    BY <1>0 DEF LiveFit, Live
  <1> QED BY <1>1, <1>2, <1>3, <1>4 DEF GridKnows

(* Types in a step of the grid alone. *)
LEMMA GridTypes ==
  ASSUME VariantTypeOK, UNCHANGED <<product, variants, edits, late>>,
         grid' = NoGrid \/ grid' \in OpenGrid
  PROVE  VariantTypeOK'
  BY DEF VariantTypeOK, OpenGrid

(* A step of the grid alone leaves what else is known as it is. *)
LEMMA GridAlone ==
  ASSUME VariantInv, UNCHANGED <<product, variants, edits, late>>,
         grid' = NoGrid \/ (grid' \in OpenGrid /\ GridKnows')
  PROVE  VariantInv'
  BY GridTypes DEF VariantInv, GridKnows, EditsKnow, LiveFit, Live

(* One row of a grid is done: it has written at most one variant, of these
   values, that has not moved. *)
LEMMA RowDoes ==
  ASSUME VariantInv, grid # NoGrid, NEW values \in grid.todo,
         NEW work \in [Id -> Row \cup {Unborn}], Does(values, work),
         \A i \in Id : \/ work[i] = grid.work[i]
                       \/ /\ work[i] \in Row /\ work[i].values = values
                          /\ i \notin grid.moved
                          /\ variants[i] # Unborn => variants[i].values = values
  PROVE  VariantInv'
  <1> USE DEF VariantInv
  <1>1. grid \in OpenGrid /\ grid' = [grid EXCEPT !.todo = @ \ {values}, !.work = work]
    BY VariantShapes DEF Does
  <1>2. /\ grid' \in OpenGrid /\ grid'.names = grid.names /\ grid'.missing = grid.missing
        /\ grid'.rows = grid.rows /\ grid'.todo = grid.todo \ {values}
        /\ grid'.failed = grid.failed /\ grid'.work = work
        /\ grid'.snapshot = grid.snapshot /\ grid'.moved = grid.moved
    BY <1>1 DEF OpenGrid
  <1>3. UNCHANGED <<product, variants, edits, late>>
    BY DEF Does
  <1>4. ASSUME NEW i \in Id PROVE GridRow(i)'
    <2>1. GridRow(i)
      BY DEF GridKnows
    <2>2. CASE work[i] = grid.work[i]
      BY <1>2, <1>3, <2>1, <2>2 DEF GridRow
    <2>3. CASE /\ work[i] \in Row /\ work[i].values = values
               /\ i \notin grid.moved
               /\ variants[i] # Unborn => variants[i].values = values
      <3>1. values \in DOMAIN grid.rows \ grid.failed
        BY DEF GridKnows
      <3> QED BY <1>2, <1>3, <2>1, <2>3, <3>1 DEF GridRow
    <2> QED BY <2>2, <2>3
  <1>5. GridKnows'
    BY <1>2, <1>3, <1>4 DEF GridKnows, AxesMayChange, Live
  <1> QED BY <1>2, <1>3, <1>5, GridAlone

LEMMA RowFailing ==
  ASSUME VariantInv, grid # NoGrid, NEW values \in grid.todo, RowFails(values)
  PROVE  VariantInv'
  <1> USE DEF VariantInv
  <1>1. grid \in OpenGrid
        /\ grid' = [grid EXCEPT !.todo = @ \ {values}, !.failed = @ \cup {values}]
    BY VariantShapes DEF RowFails
  <1>2. /\ grid' \in OpenGrid /\ grid'.names = grid.names /\ grid'.missing = grid.missing
        /\ grid'.rows = grid.rows /\ grid'.todo = grid.todo \ {values}
        /\ grid'.failed = grid.failed \cup {values} /\ grid'.work = grid.work
        /\ grid'.snapshot = grid.snapshot /\ grid'.moved = grid.moved
    BY <1>1 DEF OpenGrid
  <1>3. UNCHANGED <<product, variants, edits, late>>
    BY DEF RowFails
  <1>4. ASSUME NEW i \in Id PROVE GridRow(i)'
    <2>1. GridRow(i)
      BY DEF GridKnows
    <2> QED BY <1>2, <1>3, <2>1 DEF GridRow
  <1>5. GridKnows'
    BY <1>2, <1>3, <1>4 DEF GridKnows, AxesMayChange, Live
  <1> QED BY <1>2, <1>3, <1>5, GridAlone

(* A row that a grid writes is of the row's values, since no variant's values
   ever change. *)
LEMMA RowWrites ==
  ASSUME VariantInv, grid # NoGrid, NEW values \in grid.todo, NEW i \in Id, NEW row \in Row,
         row.values = values, variants[i].values = values, Writes(values, i, row)
  PROVE  VariantInv'
  <1>1. CASE RowFails(values)
    BY <1>1, RowFailing
  <1>2. CASE i \notin grid.moved
             /\ Does(values, [grid.work EXCEPT ![i] = Edited(row, grid.rows[values])])
    <2>1. grid \in OpenGrid /\ grid.work \in [Id -> Row \cup {Unborn}]
      BY VariantShapes DEF OpenGrid, VariantInv
    <2>2. Edited(row, grid.rows[values]) \in Row
          /\ Edited(row, grid.rows[values]).values = values
      <3>1. grid.rows[values] \in Field
        BY <2>1, VariantAssumption DEF VariantInv, GridKnows, OpenGrid
      <3> QED BY <3>1, EditedRow
    <2> DEFINE work == [grid.work EXCEPT ![i] = Edited(row, grid.rows[values])]
    <2>3. work \in [Id -> Row \cup {Unborn}] /\ work[i] = Edited(row, grid.rows[values])
          /\ \A j \in Id \ {i} : work[j] = grid.work[j]
      BY <2>1, <2>2
    <2>4. Does(values, work)
      BY <1>2
    <2> HIDE DEF work
    <2> QED BY <1>2, <2>2, <2>3, <2>4, RowDoes
  <1> QED BY <1>1, <1>2 DEF Writes

LEMMA GridOpening ==
  ASSUME VariantInv, NEW names \in OptionNames, NEW rows \in Grids, NEW missing \in BOOLEAN,
         GridOpens(names, rows, missing)
  PROVE  VariantInv'
  <1> USE DEF VariantInv
  <1>1. DOMAIN rows \subseteq OptionValues
    BY VariantAssumption
  <1>2. /\ grid' \in OpenGrid /\ grid'.names = names /\ grid'.missing = missing
        /\ grid'.rows = rows /\ grid'.todo = DOMAIN rows /\ grid'.failed = {}
        /\ \A i \in Id : grid'.work[i] = Unborn
        /\ grid'.snapshot = variants /\ grid'.moved = {}
    BY <1>1, VariantShapes DEF GridOpens, OpenGrid
  <1>3. UNCHANGED <<product, variants, edits, late>>
    BY DEF GridOpens
  <1>4. AxesMayChange(names, missing) /\ \A values \in DOMAIN rows : Fits(values, names)
    BY DEF GridOpens
  <1>5. \A i \in Id : GridRow(i)'
    BY <1>2, <1>3 DEF GridRow
  <1>6. AxesMayChange(grid.names, grid.missing)'
    BY <1>2, <1>3, <1>4 DEF AxesMayChange, Live
  <1>7. GridKnows'
    BY <1>2, <1>4, <1>5, <1>6 DEF GridKnows
  <1> QED BY <1>2, <1>3, <1>7, GridAlone

LEMMA MatrixRowDone ==
  ASSUME VariantInv, NEW values \in OptionValues, MatrixRow(values)
  PROVE  VariantInv'
  <1> USE DEF VariantInv
  <1>1. grid # NoGrid /\ values \in grid.todo /\ grid \in OpenGrid
        /\ grid.work \in [Id -> Row \cup {Unborn}]
    BY VariantShapes DEF MatrixRow, OpenGrid
  <1>2. \A i \in Id : GridRow(i)
    BY <1>1 DEF GridKnows
  <1>3. \A i \in Id, at \in {"live", "archived"} : i \in Was(at, values) =>
          variants[i] \in Row /\ variants[i].values = values
    BY <1>1, <1>2, VariantShapes, RowShapes DEF Was, GridRow, OpenGrid
  <1>4. ASSUME NEW i \in Was("live", values), UpdateRow(values, i) PROVE VariantInv'
    <2>1. i \in Id
      BY DEF Was
    <2>2. CASE Writes(values, i, variants[i])
      BY <1>1, <1>3, <2>1, <2>2, RowWrites
    <2>3. CASE Does(values, grid.work)
      BY <1>1, <2>3, RowDoes
    <2> QED BY <1>4, <2>2, <2>3 DEF UpdateRow
  <1>5. ASSUME NEW i \in Was("archived", values), RestoreRow(values, i) PROVE VariantInv'
    <2>1. i \in Id
      BY DEF Was
    <2>2. /\ [variants[i] EXCEPT !.at = "live"] \in Row
          /\ [variants[i] EXCEPT !.at = "live"].values = values
      BY <1>3, <2>1 DEF Row
    <2> QED BY <1>1, <1>3, <1>5, <2>1, <2>2, RowWrites DEF RestoreRow
  <1>6. ASSUME CreateRow(values) PROVE VariantInv'
    <2> DEFINE row == [at |-> "live", values |-> values, sku |-> Set(NoSKU, grid.rows[values])]
    <2>1. CASE RowFails(values)
      BY <1>1, <2>1, RowFailing
    <2>2. ASSUME NEW i \in Id, IsNext(i, Sees), Does(values, [grid.work EXCEPT ![i] = row])
          PROVE  VariantInv'
      <3>1. grid.rows[values] \in Field
        BY <1>1, VariantAssumption DEF GridKnows, OpenGrid
      <3>2. row \in Row /\ row.values = values
        BY <3>1, VariantAssumption DEF Row, Set, Field
      <3>3. grid.work[i] = Unborn /\ variants[i] = Unborn
        BY <1>1, <2>2, VariantShapes, RowShapes DEF IsNext, Born, Sees
      <3>4. i \notin grid.moved
        BY <1>2, <3>3 DEF GridRow
      <3> DEFINE work == [grid.work EXCEPT ![i] = row]
      <3>5. work \in [Id -> Row \cup {Unborn}] /\ work[i] = row
            /\ \A j \in Id \ {i} : work[j] = grid.work[j]
        BY <1>1, <3>2
      <3>6. Does(values, work)
        BY <2>2
      <3> HIDE DEF work, row
      <3> QED BY <1>1, <3>2, <3>3, <3>4, <3>5, <3>6, RowDoes
    <2> QED BY <1>6, <2>1, <2>2 DEF CreateRow
  <1>7. CASE RowFails(values)
    BY <1>1, <1>7, RowFailing
  <1> QED BY <1>4, <1>5, <1>6, <1>7 DEF MatrixRow

(* What is there after a grid commits. *)
LEMMA Committed ==
  ASSUME VariantInv, GridCommits, NEW i \in Id
  PROVE  /\ i \notin Missing => variants'[i] = Sees[i]
         /\ i \in Missing =>
              /\ variants[i] \in Row /\ grid.work[i] = Unborn
              /\ variants'[i] = [variants[i] EXCEPT !.at = "archived"]
         /\ variants'[i].at = "live" =>
              \/ variants'[i].values \in DOMAIN grid.rows
              \/ ~grid.missing /\ variants[i].at = "live" /\ variants'[i] = variants[i]
  <1> USE DEF VariantInv
  <1>0. /\ grid # NoGrid /\ GridRow(i) /\ grid \in OpenGrid
        /\ variants'[i] = IF i \in Missing THEN [variants[i] EXCEPT !.at = "archived"] ELSE Sees[i]
    BY VariantShapes DEF GridCommits, GridKnows
  <1>1. ASSUME i \in Missing
        PROVE  /\ variants[i] \in Row /\ grid.work[i] = Unborn
               /\ variants'[i] = [variants[i] EXCEPT !.at = "archived"]
    <2>1. grid.snapshot[i].at = "live" /\ grid.snapshot[i].values \notin DOMAIN grid.rows
      BY <1>1 DEF Missing, Live
    <2>2. variants[i] # Unborn
      BY <1>0, <2>1, RowShapes DEF GridRow
    <2> QED BY <1>0, <1>1, <2>1, <2>2, VariantShapes DEF GridRow
  <1>2. ASSUME variants'[i].at = "live"
        PROVE  \/ variants'[i].values \in DOMAIN grid.rows
               \/ ~grid.missing /\ variants[i].at = "live" /\ variants'[i] = variants[i]
    <2>1. i \notin Missing
      <3> SUFFICES ASSUME i \in Missing PROVE FALSE
        OBVIOUS
      <3>1. variants'[i].at = "archived"
        BY <1>1 DEF Row
      <3> QED BY <1>2, <3>1
    <2>2. CASE grid.work[i] # Unborn
      <3>1. variants'[i] = grid.work[i]
        BY <1>0, <2>1, <2>2 DEF Sees
      <3>2. grid.work[i].values \in DOMAIN grid.rows
        BY <1>0, <2>2 DEF GridRow
      <3> QED BY <3>1, <3>2
    <2>3. CASE grid.work[i] = Unborn
      <3>1. variants'[i] = variants[i] /\ variants[i] # Unborn
        BY <1>0, <1>2, <2>1, <2>3, RowShapes DEF Sees
      <3>2. /\ grid.snapshot[i].at = "live"
            /\ grid.snapshot[i].values = variants[i].values
        BY <1>0, <1>2, <3>1 DEF GridRow
      <3> QED BY <1>2, <2>1, <3>1, <3>2 DEF Missing, Live
    <2> QED BY <2>2, <2>3
  <1> QED BY <1>0, <1>1, <1>2

LEMMA GridCommitting ==
  ASSUME VariantInv, GridCommits
  PROVE  VariantInv'
  <1> USE DEF VariantInv
  <1>0. /\ grid # NoGrid /\ grid \in OpenGrid /\ \A i \in Id : GridRow(i)
        /\ product' = [product EXCEPT !.names = grid.names] /\ grid' = NoGrid /\ late' = late
        /\ Missing \cup Written \in SUBSET Id
    BY VariantShapes DEF GridCommits, GridKnows, Missing, Written, Live
  <1>1. product' \in [names : OptionNames, archived : BOOLEAN] /\ product'.names = grid.names
    BY <1>0, VariantShapes DEF OpenGrid
  <1>2. variants' \in [Id -> Row \cup {Unborn}]
    <2>1. \A i \in Id : Sees[i] \in Row \cup {Unborn}
      BY <1>0, VariantShapes DEF Sees, OpenGrid
    <2>2. \A i \in Missing : [variants[i] EXCEPT !.at = "archived"] \in Row
      <3> SUFFICES ASSUME NEW i \in Missing PROVE [variants[i] EXCEPT !.at = "archived"] \in Row
        OBVIOUS
      <3>1. variants[i] \in Row
        BY Committed DEF Missing, Live
      <3> QED BY <3>1 DEF Row
    <2> QED BY <2>1, <2>2 DEF GridCommits
  <1>3. \A e \in Editor :
          \/ /\ edits[e].at = "create" /\ grid.names # product.names
             /\ edits'[e] = [edits[e] EXCEPT !.overtaken = TRUE]
          \/ /\ ~(edits[e].at = "create" /\ grid.names # product.names)
             /\ edits'[e] = MovedEdits(Missing \cup Written)[e]
    BY DEF GridCommits
  <1>4. ASSUME NEW e \in Editor
        PROVE  /\ edits'[e] \in EditTypes
               /\ edits'[e].at = "create" /\ ~edits'[e].overtaken =>
                    edits'[e] = edits[e] /\ grid.names = product.names
               /\ edits'[e].at = "update" /\ ~edits'[e].moved =>
                    /\ edits[e].at = "update" /\ ~edits[e].moved
                    /\ edits'[e].id = edits[e].id /\ edits'[e].before = edits[e].before
                    /\ edits[e].id \notin Missing \cup Written /\ edits[e].id \in Id
    <2>0. edits[e] \in EditTypes
      BY VariantShapes
    <2>1. CASE /\ edits[e].at = "create" /\ grid.names # product.names
               /\ edits'[e] = [edits[e] EXCEPT !.overtaken = TRUE]
      <3>1. edits[e] \in [at : {"create"}, values : OptionValues, sku : SKU \cup {NoSKU},
                          overtaken : BOOLEAN]
        BY <2>0, <2>1, EditShapes
      <3>2. edits'[e] \in [at : {"create"}, values : OptionValues, sku : SKU \cup {NoSKU},
                           overtaken : BOOLEAN] /\ edits'[e].overtaken
        BY <2>1, <3>1
      <3> QED BY <3>2 DEF EditTypes
    <2>2. CASE /\ ~(edits[e].at = "create" /\ grid.names # product.names)
               /\ edits'[e] = MovedEdits(Missing \cup Written)[e]
      <3>1. /\ edits'[e] \in EditTypes /\ edits'[e].at = edits[e].at
            /\ edits[e].at = "create" => edits'[e] = edits[e]
            /\ edits[e].at = "update" =>
                 /\ edits'[e].id = edits[e].id /\ edits'[e].before = edits[e].before
                 /\ ~edits'[e].moved => ~edits[e].moved /\ edits[e].id \notin Missing \cup Written
        BY <1>0, <2>2, MovedEdit
      <3>2. edits[e].at = "update" => edits[e].id \in Id
        BY <2>0, EditShapes
      <3> QED BY <2>2, <3>1, <3>2
    <2> QED BY <1>3, <2>1, <2>2
  <1>5. VariantTypeOK'
    <2>1. edits' \in [Editor -> EditTypes]
      BY <1>4 DEF GridCommits
    <2> QED BY <1>0, <1>1, <1>2, <2>1, VariantShapes DEF VariantTypeOK, EditTypes
  <1>6. EditsKnow'
    <2>1. \A i \in Id : i \notin Missing \cup Written => variants'[i] = variants[i]
      BY Committed DEF Written, Sees
    <2> QED BY <1>1, <1>4, <2>1 DEF EditsKnow
  <1>7. LiveFit'
    <2> SUFFICES ASSUME NEW i \in Id, variants'[i].at = "live", i \notin late
                 PROVE  Fits(variants'[i].values, grid.names)
      BY <1>0, <1>1 DEF LiveFit, Live
    <2>1. CASE variants'[i].values \in DOMAIN grid.rows
      BY <1>0, <2>1 DEF GridKnows
    <2>2. CASE ~grid.missing /\ variants[i].at = "live" /\ variants'[i] = variants[i]
      <3>1. grid.names = product.names
        BY <1>0, <2>2 DEF GridKnows, AxesMayChange, Live
      <3> QED BY <2>2, <3>1 DEF LiveFit, Live
    <2> QED BY <2>1, <2>2, Committed
  <1> QED BY <1>0, <1>5, <1>6, <1>7 DEF GridKnows

(* A new variant, of which no grid knows, nor anybody else. *)
LEMMA CreateInserting ==
  ASSUME VariantInv, NEW e \in Editor, CreateInserts(e)
  PROVE  VariantInv' /\ \A i \in Id : variants[i] # Unborn => variants'[i] = variants[i]
  <1> USE DEF VariantInv
  <1>0. PICK i \in Id :
          /\ IsNext(i, variants)
          /\ variants' = [variants EXCEPT ![i] = [at |-> "live", values |-> edits[e].values,
                                                   sku |-> edits[e].sku]]
          /\ late' = IF edits[e].overtaken THEN late \cup {i} ELSE late
    BY DEF CreateInserts
  <1> DEFINE row == [at |-> "live", values |-> edits[e].values, sku |-> edits[e].sku]
  <1>1. /\ edits[e] \in [at : {"create"}, values : OptionValues, sku : SKU \cup {NoSKU},
                         overtaken : BOOLEAN]
        /\ product' = product /\ grid = NoGrid /\ grid' = NoGrid
    BY VariantShapes, EditShapes DEF CreateInserts
  <1>2. row \in Row /\ row.at = "live" /\ row.values = edits[e].values
    BY <1>1 DEF Row
  <1>3. variants[i] = Unborn
    BY <1>0, VariantShapes, RowShapes DEF IsNext, Born
  <1>4. variants' = [variants EXCEPT ![i] = row]
    BY <1>0
  <1> HIDE DEF row
  <1>5. variants'[i] = row /\ \A j \in Id \ {i} : variants'[j] = variants[j]
    BY <1>0, <1>4, VariantShapes
  <1>6. /\ edits'[e] = NoEdit /\ \A f \in Editor \ {e} : edits'[f] = edits[f]
        /\ edits' \in [Editor -> EditTypes]
    BY VariantShapes DEF CreateInserts, Become, EditTypes
  <1>7. VariantTypeOK'
    <2>1. variants' \in [Id -> Row \cup {Unborn}]
      BY <1>2, <1>4, VariantShapes
    <2>2. late' \subseteq Id
      BY <1>0, VariantShapes
    <2> QED BY <1>1, <1>6, <2>1, <2>2, VariantShapes DEF VariantTypeOK, EditTypes
  <1>8. EditsKnow'
    <2> SUFFICES ASSUME NEW f \in Editor
        PROVE  /\ edits'[f].at = "create" /\ ~edits'[f].overtaken => Fits(edits'[f].values, product.names)
               /\ edits'[f].at = "update" /\ ~edits'[f].moved =>
                    variants'[edits'[f].id] = edits'[f].before
      BY <1>1 DEF EditsKnow
    <2>1. CASE f = e
      BY <1>6, <2>1 DEF NoEdit
    <2>2. CASE f # e
      <3>1. edits'[f] = edits[f]
        BY <1>6, <2>2
      <3>2. edits[f].at = "update" => edits[f].id \in Id /\ edits[f].before \in Row
        BY VariantShapes, EditShapes
      <3> QED BY <1>3, <1>5, <3>1, <3>2, RowShapes DEF EditsKnow
    <2> QED BY <2>1, <2>2
  <1>9. LiveFit'
    <2> SUFFICES ASSUME NEW j \in Id, variants'[j].at = "live", j \notin late'
                 PROVE  Fits(variants'[j].values, product.names)
      BY <1>1 DEF LiveFit, Live
    <2>1. CASE j = i
      <3>1. ~edits[e].overtaken
        BY <1>0, <2>1
      <3> QED BY <1>1, <1>2, <1>5, <2>1, <3>1 DEF EditsKnow
    <2>2. CASE j # i
      BY <1>0, <1>5, <2>2 DEF LiveFit, Live
    <2> QED BY <2>1, <2>2
  <1> QED BY <1>1, <1>3, <1>5, <1>7, <1>8, <1>9 DEF GridKnows

(* An editor reads, or gives up. *)
LEMMA EditorAlone ==
  ASSUME VariantInv, NEW e \in Editor, NEW edit \in EditTypes, Become(e, edit),
         UNCHANGED <<product, variants, grid, late>>,
         edit.at = "create" /\ ~edit.overtaken => Fits(edit.values, product.names),
         edit.at = "update" /\ ~edit.moved => variants[edit.id] = edit.before
  PROVE  VariantInv'
  <1> USE DEF VariantInv
  <1>1. edits' \in [Editor -> EditTypes] /\ edits'[e] = edit
        /\ \A f \in Editor \ {e} : edits'[f] = edits[f]
    BY VariantShapes DEF Become
  <1>2. VariantTypeOK'
    BY <1>1, VariantShapes DEF VariantTypeOK, EditTypes
  <1>3. EditsKnow'
    BY <1>1 DEF EditsKnow
  <1>4. GridKnows'
    BY DEF GridKnows, GridRow, AxesMayChange, Live
  <1>5. LiveFit'
    BY DEF LiveFit, Live
  <1> QED BY <1>2, <1>3, <1>4, <1>5

LEMMA EditorReads ==
  ASSUME VariantInv, NEW e \in Editor,
         \/ \E values \in OptionValues, sku \in SKU \cup {NoSKU} : CreateReads(e, values, sku)
         \/ \E i \in Id, field \in Field : UpdateReads(e, i, field)
         \/ EditFails(e)
  PROVE  VariantInv'
  <1>1. ASSUME NEW values \in OptionValues, NEW sku \in SKU \cup {NoSKU}, CreateReads(e, values, sku)
        PROVE  VariantInv'
    <2> DEFINE edit == [at |-> "create", values |-> values, sku |-> sku, overtaken |-> FALSE]
    <2>1. edit \in EditTypes /\ edit.at = "create" /\ edit.values = values
      BY DEF EditTypes
    <2>2. Become(e, edit)
      BY <1>1 DEF CreateReads
    <2> HIDE DEF edit
    <2> QED BY <1>1, <2>1, <2>2, EditorAlone DEF CreateReads
  <1>2. ASSUME NEW i \in Id, NEW field \in Field, UpdateReads(e, i, field)
        PROVE  VariantInv'
    <2> DEFINE edit == [at |-> "update", id |-> i, sku |-> field, before |-> variants[i],
                        moved |-> FALSE]
    <2>1. variants[i] \in Row
      BY <1>2, VariantShapes, RowShapes DEF UpdateReads, Live, VariantInv
    <2>2. edit \in EditTypes /\ edit.at = "update" /\ edit.id = i /\ edit.before = variants[i]
      BY <2>1 DEF EditTypes
    <2>3. Become(e, edit)
      BY <1>2 DEF UpdateReads
    <2> HIDE DEF edit
    <2> QED BY <1>2, <2>2, <2>3, EditorAlone DEF UpdateReads
  <1>3. ASSUME EditFails(e) PROVE VariantInv'
    <2>1. NoEdit \in EditTypes /\ NoEdit.at = "none"
      BY DEF EditTypes, NoEdit
    <2> QED BY <1>3, <2>1, EditorAlone DEF EditFails
  <1> QED BY <1>1, <1>2, <1>3

(* Both changes of a row a grid does not hold. *)
LEMMA UpdateWriting ==
  ASSUME VariantInv, NEW e \in Editor, UpdateWrites(e)
  PROVE  /\ VariantInv' /\ edits'[e] = NoEdit
         /\ edits[e].id \in Id /\ variants[edits[e].id] = edits[e].before
         /\ \A i \in Id \ {edits[e].id} : variants'[i] = variants[i]
  <1> USE DEF VariantInv
  <1> DEFINE i == edits[e].id
             row == Edited(variants[i], edits[e].sku)
  <1>1. edits[e] \in [at : {"update"}, id : Id, sku : Field, before : Row, moved : BOOLEAN]
    BY VariantShapes, EditShapes DEF UpdateWrites
  <1>2. i \in Id /\ variants[i] = edits[e].before /\ variants[i] \in Row /\ edits[e].sku \in Field
    BY <1>1 DEF UpdateWrites, EditsKnow
  <1>3. row \in Row /\ row.values = variants[i].values /\ row.at = variants[i].at
    BY <1>2, EditedRow
  <1>4. /\ variants' = [variants EXCEPT ![i] = row] /\ ~Locked(i)
        /\ grid' = MovedGrid({i}) /\ product' = product /\ late' = late
    BY DEF UpdateWrites
  <1>5. /\ edits' \in [Editor -> EditTypes] /\ edits'[e] = NoEdit
        /\ \A f \in Editor : edits'[f] = NoEdit \/ edits'[f] = MovedEdits({i})[f]
    <2>1. \A f \in Editor : MovedEdits({i})[f] \in EditTypes
      BY <1>2, MovedEdit
    <2>2. NoEdit \in EditTypes /\ edits' = [MovedEdits({i}) EXCEPT ![e] = NoEdit]
      BY DEF EditTypes, UpdateWrites
    <2> QED BY <2>1, <2>2 DEF MovedEdits
  <1> HIDE DEF row
  <1> QED BY <1>2, <1>3, <1>4, <1>5, RowChanges, VariantShapes

LEMMA Archiving ==
  ASSUME VariantInv, NEW i \in Id, ArchiveVariant(i)
  PROVE  VariantInv' /\ variants[i] \in Row
         /\ variants' = [variants EXCEPT ![i] = [variants[i] EXCEPT !.at = "archived"]]
  <1> USE DEF VariantInv
  <1> DEFINE row == [variants[i] EXCEPT !.at = "archived"]
  <1>1. variants[i] \in Row
    BY VariantShapes, RowShapes DEF ArchiveVariant, Born
  <1>2. row \in Row /\ row.values = variants[i].values /\ row.at = "archived"
    BY <1>1 DEF Row
  <1>3. /\ variants' = [variants EXCEPT ![i] = row] /\ ~Locked(i)
        /\ grid' = MovedGrid({i}) /\ product' = product /\ late' = late
        /\ edits' = MovedEdits({i})
    BY DEF ArchiveVariant
  <1>4. edits' \in [Editor -> EditTypes] /\ \A f \in Editor : edits'[f] = MovedEdits({i})[f]
    <2>1. \A f \in Editor : MovedEdits({i})[f] \in EditTypes
      BY MovedEdit
    <2> QED BY <1>3, <2>1 DEF MovedEdits
  <1>5. variants' = [variants EXCEPT ![i] = [variants[i] EXCEPT !.at = "archived"]]
    BY <1>3
  <1> HIDE DEF row
  <1> QED BY <1>1, <1>2, <1>3, <1>4, <1>5, RowChanges

LEMMA ProductArchived ==
  ASSUME VariantInv, ArchiveProduct
  PROVE  VariantInv'
  <1> USE DEF VariantInv
  <1>1. product' \in [names : OptionNames, archived : BOOLEAN] /\ product'.names = product.names
    BY VariantShapes DEF ArchiveProduct
  <1>2. UNCHANGED <<variants, grid, edits, late>> /\ grid = NoGrid
    BY DEF ArchiveProduct
  <1> QED BY <1>1, <1>2 DEF VariantTypeOK, GridKnows, EditsKnow, LiveFit, Live

LEMMA VariantStep ==
  ASSUME VariantInv, [VariantNext]_variantVars
  PROVE  VariantInv'
  <1>1. CASE UNCHANGED variantVars
    BY <1>1 DEF variantVars, VariantInv, VariantTypeOK, GridKnows, GridRow, AxesMayChange,
                EditsKnow, LiveFit, Live
  <1>2. ASSUME NEW e \in Editor, EditNext(e) PROVE VariantInv'
    BY <1>2, EditorReads, CreateInserting, UpdateWriting DEF EditNext
  <1>3. CASE GridNext
    <2>1. CASE GridFails
      BY <2>1, GridAlone DEF GridFails
    <2>2. ASSUME NEW names \in OptionNames, NEW rows \in Grids, NEW missing \in BOOLEAN,
                 GridOpens(names, rows, missing)
          PROVE  VariantInv'
      BY <2>2, GridOpening
    <2>3. ASSUME NEW values \in OptionValues, MatrixRow(values) PROVE VariantInv'
      BY <2>3, MatrixRowDone
    <2>4. CASE GridCommits
      BY <2>4, GridCommitting
    <2> QED BY <1>3, <2>1, <2>2, <2>3, <2>4 DEF GridNext
  <1>4. ASSUME NEW i \in Id, ArchiveVariant(i) PROVE VariantInv'
    BY <1>4, Archiving
  <1>5. CASE ArchiveProduct
    BY <1>5, ProductArchived
  <1> QED BY <1>1, <1>2, <1>3, <1>4, <1>5 DEF VariantNext

LEMMA VariantKeeps == VariantInv /\ [VariantNext]_variantVars => VariantInv'
  BY VariantStep

(* What a step of the rest changes of the table. *)
LEMMA RowsElse ==
  ASSUME VariantInv, [VariantNext]_variantVars,
         ~GridCommits, NEW i \in Id, variants[i] # Unborn, variants'[i].sku # variants[i].sku
  PROVE  \E e \in Editor : /\ edits[e].at = "update" /\ edits'[e] = NoEdit
                           /\ edits[e].id = i /\ edits[e].before = variants[i]
  <1>1. ASSUME NEW e \in Editor, UpdateWrites(e), edits[e].id = i
        PROVE  edits[e].at = "update" /\ edits'[e] = NoEdit /\ edits[e].before = variants[i]
    BY <1>1, UpdateWriting DEF UpdateWrites
  <1>2. ASSUME NEW e \in Editor, UpdateWrites(e), edits[e].id # i PROVE FALSE
    BY <1>2, UpdateWriting
  <1>3. ASSUME NEW e \in Editor, CreateInserts(e) PROVE FALSE
    BY <1>3, CreateInserting
  <1>4. ASSUME NEW j \in Id, ArchiveVariant(j) PROVE FALSE
    <2>1. /\ variants[j] \in Row /\ variants \in [Id -> Row \cup {Unborn}]
          /\ variants' = [variants EXCEPT ![j] = [variants[j] EXCEPT !.at = "archived"]]
      BY <1>4, Archiving, VariantShapes DEF VariantInv
    <2>2. [variants[j] EXCEPT !.at = "archived"].sku = variants[j].sku
      BY <2>1 DEF Row
    <2> QED BY <2>1, <2>2
  <1>5. ASSUME variants' = variants PROVE FALSE
    BY <1>5
  <1>6. CASE GridNext
    BY <1>5, <1>6 DEF GridNext, GridOpens, MatrixRow, UpdateRow, RestoreRow, CreateRow, Writes,
                      Does, RowFails, GridFails
  <1>7. ASSUME NEW e \in Editor, EditNext(e), ~UpdateWrites(e) PROVE FALSE
    BY <1>3, <1>5, <1>7 DEF EditNext, CreateReads, UpdateReads, EditFails
  <1>8. CASE ArchiveProduct \/ UNCHANGED variantVars
    BY <1>5, <1>8 DEF ArchiveProduct, variantVars
  <1> QED BY <1>1, <1>2, <1>4, <1>6, <1>7, <1>8 DEF VariantNext

LEMMA GridSteps ==
  ASSUME VariantInv, [VariantNext]_variantVars, grid # NoGrid, grid' = NoGrid,
         variants' # variants
  PROVE  GridCommits
  <1>1. grid \in OpenGrid
    BY VariantShapes DEF VariantInv
  <1>2. ASSUME NEW ids \in SUBSET Id, grid' = MovedGrid(ids) PROVE FALSE
    BY <1>2, MovedGridIs DEF VariantInv
  <1>3. ASSUME NEW e \in Editor, EditNext(e) PROVE FALSE
    <2>1. CASE UpdateWrites(e)
      <3>1. {edits[e].id} \in SUBSET Id
        BY <2>1, UpdateWriting
      <3> QED BY <1>2, <2>1, <3>1 DEF UpdateWrites
    <2>2. CASE ~UpdateWrites(e)
      BY <1>3, <2>2 DEF EditNext, CreateReads, UpdateReads, EditFails, CreateInserts
    <2> QED BY <2>1, <2>2
  <1>4. ASSUME NEW i \in Id, ArchiveVariant(i) PROVE FALSE
    <2>1. {i} \in SUBSET Id
      OBVIOUS
    <2> QED BY <1>2, <1>4, <2>1 DEF ArchiveVariant
  <1>5. CASE GridNext
    BY <1>5 DEF GridNext, GridOpens, MatrixRow, UpdateRow, RestoreRow, CreateRow, Writes,
                Does, RowFails, GridFails
  <1>6. CASE ArchiveProduct \/ UNCHANGED variantVars
    BY <1>6 DEF ArchiveProduct, variantVars
  <1> QED BY <1>3, <1>4, <1>5, <1>6 DEF VariantNext

(***************************************************************************)
(* The product, its variants, the grid being saved and the edits under way *)
(* keep their types, for any number of variants and editors (matrix.go,    *)
(* variants.go).                                                           *)
(***************************************************************************)
THEOREM VariantTypesCorrect == VariantSpec => []VariantTypeOK
  <1>1. VariantInv => VariantTypeOK
    BY DEF VariantInv
  <1> QED BY <1>1, VariantBegins, VariantKeeps, PTL DEF VariantSpec

(***************************************************************************)
(* A live variant has a value for each of the product's options and no     *)
(* other, however grids and edits of one product interleave, but for one   *)
(* created by a request that had read the options before they changed      *)
(* (SaveMatrix, CreateVariant; BR-040).                                    *)
(***************************************************************************)
THEOREM LiveAlwaysFit == VariantSpec => []LiveFit
  <1>1. VariantInv => LiveFit
    BY DEF VariantInv
  <1> QED BY <1>1, VariantBegins, VariantKeeps, PTL DEF VariantSpec

(***************************************************************************)
(* A SKU is changed only over what its writer has read, for any number of  *)
(* editors (UpdateVariant, SaveMatrix; BR-010).                            *)
(***************************************************************************)
THEOREM NoEditIsLost == VariantSpec => NoEditLost
  <1> DEFINE Kept1(i) == variants[i].at # "none" /\ variants'[i].sku # variants[i].sku =>
       \/ grid # NoGrid /\ grid' = NoGrid /\ variants[i] = grid.snapshot[i]
       \/ \E e \in Editor : edits[e].at = "update" /\ edits'[e] = NoEdit
                            /\ edits[e].id = i /\ edits[e].before = variants[i]
  <1>1. ASSUME VariantInv, [VariantNext]_variantVars, NEW i \in Id PROVE Kept1(i)
    <2> SUFFICES ASSUME variants[i].at # "none", variants'[i].sku # variants[i].sku
                 PROVE  \/ grid # NoGrid /\ grid' = NoGrid /\ variants[i] = grid.snapshot[i]
                        \/ \E e \in Editor : edits[e].at = "update" /\ edits'[e] = NoEdit
                             /\ edits[e].id = i /\ edits[e].before = variants[i]
      OBVIOUS
    <2>1. variants[i] # Unborn
      BY RowShapes
    <2>2. CASE GridCommits
      <3>1. grid # NoGrid /\ grid' = NoGrid /\ GridRow(i)
        BY <1>1, <2>2 DEF GridCommits, VariantInv, GridKnows
      <3>2. i \notin Missing
        <4> SUFFICES ASSUME i \in Missing PROVE FALSE
          OBVIOUS
        <4>1. variants[i] \in Row /\ variants'[i] = [variants[i] EXCEPT !.at = "archived"]
          BY <1>1, <2>2, Committed
        <4> QED BY <4>1 DEF Row
      <3>3. variants'[i] = Sees[i]
        BY <1>1, <2>2, <3>2, Committed
      <3>4. grid.work[i] # Unborn
        BY <3>3 DEF Sees
      <3> QED BY <3>1, <3>4 DEF GridRow
    <2>3. CASE ~GridCommits
      BY <1>1, <2>1, <2>3, RowsElse
    <2> QED BY <2>2, <2>3
  <1>2. VariantInv /\ [VariantNext]_variantVars => [\A i \in Id : Kept1(i)]_variantVars
    BY <1>1
  <1> QED BY <1>2, VariantBegins, VariantKeeps, PTL DEF VariantSpec, NoEditLost

(***************************************************************************)
(* After a save nothing outside a complete grid is live, and a variant     *)
(* whose row failed is as it was, whatever was edited while the grid was   *)
(* being worked through (SaveMatrix; BR-041).                              *)
(***************************************************************************)
THEOREM GridAlwaysSaved == VariantSpec => GridSaved
  <1> DEFINE Saved == grid # NoGrid /\ product'.names = grid.names /\ grid' = NoGrid /\ variants' # variants =>
       \A i \in Id :
         /\ grid.missing /\ variants'[i].at = "live" => variants'[i].values \in DOMAIN grid.rows
         /\ variants[i].at # "none" /\ variants[i].values \in grid.failed =>
              variants'[i] = variants[i]
  <1>1. ASSUME VariantInv, [VariantNext]_variantVars PROVE Saved
    <2> SUFFICES ASSUME grid # NoGrid, grid' = NoGrid, variants' # variants, NEW i \in Id
        PROVE /\ grid.missing /\ variants'[i].at = "live" => variants'[i].values \in DOMAIN grid.rows
              /\ variants[i].at # "none" /\ variants[i].values \in grid.failed =>
                   variants'[i] = variants[i]
      OBVIOUS
    <2>1. GridCommits
      BY <1>1, GridSteps
    <2>2. GridRow(i) /\ grid \in OpenGrid
      BY <1>1, VariantShapes DEF VariantInv, GridKnows
    <2>3. grid.missing /\ variants'[i].at = "live" => variants'[i].values \in DOMAIN grid.rows
      BY <1>1, <2>1, Committed
    <2>4. ASSUME variants[i].at # "none", variants[i].values \in grid.failed
          PROVE  variants'[i] = variants[i]
      <3>0. variants[i] # Unborn
        BY <2>4, RowShapes
      <3>1. grid.work[i] = Unborn
        BY <2>2, <2>4, <3>0 DEF GridRow
      <3>2. i \notin Missing
        <4>1. grid.failed \subseteq DOMAIN grid.rows
          BY <1>1 DEF VariantInv, GridKnows
        <4>2. grid.snapshot[i].values = variants[i].values
          BY <2>2, <3>0 DEF GridRow
        <4> QED BY <2>4, <4>1, <4>2 DEF Missing
      <3> QED BY <1>1, <2>1, <3>1, <3>2, Committed DEF Sees
    <2> QED BY <2>3, <2>4
  <1>2. VariantInv /\ [VariantNext]_variantVars => [Saved]_variantVars
    BY <1>1
  <1> QED BY <1>2, VariantBegins, VariantKeeps, PTL DEF VariantSpec, GridSaved
-----------------------------------------------------------------------------
(* What somebody is still to delete or to record of the derivatives: deletions,
   runs of the job, and the row, by which a deletion will know them. *)
Owed(s) == \/ \E i \in Image : s \in removes[i]
           \/ \E m \in Maker : \/ makers[m].at = "putting"
                               \/ makers[m].at = "cleaning" /\ s \in makers[m].left
           \/ \E i \in There : images[i].made

NoneLost == ~slipped => \A s \in derived : Owed(s)

(* Rows come one after another. *)
InTurn == \A i \in Image, j \in Image :
            i < j /\ images[j].at # "none" => images[i].at = "gone"

(* A run of the job is about a row that was made, and cleans up after one that
   is gone; only rows that are gone are cleaned up after. *)
MakersKnow ==
  /\ \A m \in Maker : makers[m] # Free =>
       /\ images[makers[m].image].at # "none"
       /\ makers[m].at = "cleaning" => images[makers[m].image].at = "gone"
  /\ \A i \in Image : removes[i] # {} => images[i].at = "gone"
  /\ \A i \in Image : images[i].at # "none" \/ ~images[i].made

(* Around an image confirmed in quiet, and before it, nobody deletes. *)
Quiet ==
  /\ \A c \in Confirmer : confirms[c] # Free /\ ~confirms[c].crossed => original /\ ~Cleaning
  /\ \A i \in There \ crossed :
       /\ original /\ ~Cleaning
       /\ images[i].made => derived = Size
       /\ \A m \in Maker : makers[m] # Free =>
            /\ makers[m].at = "putting" /\ makers[m].image = i
            /\ Size \ makers[m].left \subseteq derived

MediaInv == MediaTypeOK /\ NoneLost /\ InTurn /\ MakersKnow /\ Quiet

Run == [at : {"putting", "cleaning"}, image : Image, left : SUBSET Size]

LEMMA MediaShapes ==
  ASSUME MediaTypeOK
  PROVE  /\ derived \subseteq Size /\ crossed \subseteq Image
         /\ \A i \in Image : /\ images[i].at \in {"none", "there", "gone"}
                             /\ images[i].made \in BOOLEAN /\ removes[i] \subseteq Object
         /\ \A m \in Maker : makers[m] = Free \/ (makers[m] \in Run /\ makers[m] # Free)
         /\ \A c \in Confirmer : confirms[c] = Free
              \/ (confirms[c] \in [at : {"seen"}, crossed : BOOLEAN] /\ confirms[c] # Free)
  BY DEF MediaTypeOK, Free, Run

(* What a step of the images must keep when it leaves the rest alone, and a
   maker's when it does. *)
ImageTypes == [at : {"none", "there", "gone"}, made : BOOLEAN, queued : BOOLEAN]

SameImages == /\ images' \in [Image -> ImageTypes]
              /\ \A i \in Image : images'[i].at = images[i].at /\ images'[i].made = images[i].made

LEMMA MediaBegins == MediaInit => MediaInv
  <1> SUFFICES ASSUME MediaInit PROVE MediaInv
    OBVIOUS
  <1>1. MediaTypeOK
    BY DEF MediaInit, MediaTypeOK
  <1>2. NoneLost
    BY DEF MediaInit, NoneLost
  <1>3. InTurn
    BY DEF MediaInit, InTurn
  <1>4. MakersKnow
    BY DEF MediaInit, MakersKnow
  <1>5. Quiet
    BY DEF MediaInit, Quiet, There
  <1> QED BY <1>1, <1>2, <1>3, <1>4, <1>5 DEF MediaInv

(* What is promised follows. *)
LEMMA MediaAgrees ==
  ASSUME MediaInv
  PROVE  BucketAgrees
  <1> USE DEF MediaInv
  <1>1. \A i \in There \ crossed : original /\ (images[i].made => derived = Size)
    BY DEF Quiet
  <1>2. ASSUME derived # {}, There = {}, ~slipped PROVE Cleaning
    <2>1. PICK s \in derived : Owed(s)
      BY <1>2 DEF NoneLost
    <2>2. CASE \E i \in Image : s \in removes[i]
      BY <2>2 DEF Cleaning
    <2>3. CASE \E m \in Maker : makers[m] # Free
      <3>1. PICK m \in Maker : makers[m] # Free
        BY <2>3
      <3>2. makers[m].image \in Image
        BY <3>1, MediaShapes DEF Run
      <3>3. images[makers[m].image].at = "gone"
        BY <1>2, <3>1, <3>2, MediaShapes DEF MakersKnow, There
      <3> QED BY <3>1, <3>3 DEF Cleaning
    <2> QED BY <1>2, <2>1, <2>2, <2>3 DEF Owed, Free
  <1> QED BY <1>1, <1>2 DEF BucketAgrees

LEMMA AnsweredSame ==
  ASSUME MediaTypeOK, NEW i \in Image, images' = [images EXCEPT ![i].queued = FALSE]
  PROVE  SameImages
  <1>1. images \in [Image -> ImageTypes]
    BY DEF MediaTypeOK, ImageTypes
  <1>2. ASSUME NEW j \in Image
        PROVE  /\ images'[j] \in ImageTypes
               /\ images'[j].at = images[j].at /\ images'[j].made = images[j].made
    <2>1. images[j] \in ImageTypes
      BY <1>1
    <2>2. CASE j = i
      <3>1. images'[j] = [images[j] EXCEPT !.queued = FALSE]
        BY <1>1, <2>2
      <3> QED BY <2>1, <3>1 DEF ImageTypes
    <2>3. CASE j # i
      <3>1. images'[j] = images[j]
        BY <1>1, <2>3
      <3> QED BY <2>1, <3>1
    <2> QED BY <2>2, <2>3
  <1>3. images' = [j \in Image |-> images'[j]]
    BY <1>1
  <1> QED BY <1>2, <1>3 DEF SameImages

LEMMA Unanswered == MediaTypeOK /\ images' = images => SameImages
  BY DEF MediaTypeOK, SameImages, ImageTypes

(* The steps of the browser and of a confirmation that leave the rows alone. *)
LEMMA Uploading ==
  ASSUME MediaInv, Upload
  PROVE  MediaInv'
  BY DEF MediaInv, Upload, MediaTypeOK, NoneLost, Owed, InTurn, MakersKnow, Quiet, There, Cleaning

LEMMA ConfirmSeeing ==
  ASSUME MediaInv, NEW c \in Confirmer, ConfirmSees(c)
  PROVE  MediaInv'
  <1> USE DEF MediaInv
  <1> DEFINE rec == [at |-> "seen", crossed |-> Cleaning]
  <1>1. rec \in [at : {"seen"}, crossed : BOOLEAN] /\ rec.crossed = Cleaning
    BY DEF Cleaning
  <1>2. /\ confirms' = [confirms EXCEPT ![c] = rec] /\ original
        /\ UNCHANGED <<original, derived, images, removes, makers, slipped, crossed>>
    BY DEF ConfirmSees
  <1> HIDE DEF rec
  <1>3. MediaTypeOK'
    BY <1>1, <1>2 DEF MediaTypeOK
  <1>4. Cleaning' = Cleaning /\ There' = There
    BY <1>2 DEF Cleaning, There
  <1>5. Quiet'
    <2>1. \A d \in Confirmer : confirms'[d] = confirms[d] \/ confirms'[d] = rec
      BY <1>2 DEF MediaTypeOK
    <2> QED BY <1>1, <1>2, <1>4, <2>1 DEF Quiet
  <1> QED BY <1>2, <1>3, <1>4, <1>5 DEF NoneLost, Owed, InTurn, MakersKnow

LEMMA ConfirmCommitting ==
  ASSUME MediaInv, NEW c \in Confirmer, ConfirmCommits(c)
  PROVE  MediaInv'
  <1> USE DEF MediaInv
  <1>1. /\ confirms[c] # Free /\ \A d \in Confirmer : confirms'[d] = confirms[d] \/ confirms'[d] = Free
        /\ confirms' \in [Confirmer -> {Free} \cup [at : {"seen"}, crossed : BOOLEAN]]
        /\ UNCHANGED <<original, derived, removes, makers, slipped>>
    BY DEF ConfirmCommits, MediaTypeOK, Free
  <1>2. CASE UNCHANGED <<images, crossed>>
    <2>1. Cleaning' = Cleaning /\ There' = There
      BY <1>1, <1>2 DEF Cleaning, There
    <2> QED BY <1>1, <1>2, <2>1 DEF MediaTypeOK, NoneLost, Owed, InTurn, MakersKnow, Quiet
  <1>3. ASSUME NEW i \in Image,
               There = {}, images[i].at = "none", \A j \in 1..(i - 1) : images[j].at = "gone",
               images' = [images EXCEPT ![i].at = "there", ![i].queued = TRUE],
               crossed' = IF confirms[c].crossed \/ Cleaning THEN crossed \cup {i} ELSE crossed
        PROVE  MediaInv'
    <2>1. /\ images' \in [Image -> ImageTypes] /\ images'[i].at = "there"
          /\ \A j \in Image \ {i} : images'[j] = images[j]
          /\ images'[i].made = images[i].made
      BY <1>3 DEF MediaTypeOK, ImageTypes
    <2>2. There' = {i} /\ images[i].made = FALSE /\ removes[i] = {}
      BY <1>3, <2>1, MediaShapes DEF There, MakersKnow
    <2>3. \A m \in Maker : makers[m] # Free =>
            makers[m].image \in Image \ {i} /\ images[makers[m].image].at = "gone"
      BY <1>3, MediaShapes DEF MakersKnow, There, Run
    <2>4. Cleaning' = Cleaning
      BY <1>1, <2>1, <2>3 DEF Cleaning
    <2>5. MediaTypeOK'
      <3>1. crossed' \subseteq Image
        BY <1>3 DEF MediaTypeOK
      <3> QED BY <1>1, <2>1, <3>1 DEF MediaTypeOK, ImageTypes
    <2>6. NoneLost'
      BY <1>1, <1>3 DEF NoneLost, Owed
    <2>7. InTurn'
      <3> SUFFICES ASSUME NEW j \in Image, NEW k \in Image, j < k, images'[k].at # "none"
                   PROVE  images'[j].at = "gone"
        BY DEF InTurn
      <3>1. j \in Int /\ k \in Int /\ i \in Int /\ 1 <= j
        BY MediaAssumption DEF Image
      <3>2. CASE k = i
        <4>1. j \in 1..(i - 1)
          BY <3>1, <3>2
        <4> QED BY <1>3, <2>1, <3>1, <3>2, <4>1
      <3>3. CASE k # i
        <4>1. images[j].at = "gone"
          BY <2>1, <3>3 DEF InTurn
        <4> QED BY <1>3, <2>1, <4>1
      <3> QED BY <3>2, <3>3
    <2>8. MakersKnow'
      BY <1>1, <1>3, <2>1, <2>2, <2>3 DEF MakersKnow
    <2>9. Quiet'
      <3>1. ASSUME i \notin crossed' PROVE original /\ ~Cleaning /\ \A m \in Maker : makers[m] = Free
        <4>1. ~confirms[c].crossed /\ ~Cleaning
          BY <1>3, <3>1
        <4>2. original
          BY <1>1, <4>1 DEF Quiet
        <4> QED BY <2>3, <4>1, <4>2 DEF Cleaning
      <3> QED BY <1>1, <2>2, <2>1, <2>4, <3>1 DEF Quiet, Free
    <2> QED BY <2>5, <2>6, <2>7, <2>8, <2>9
  <1> QED BY <1>2, <1>3 DEF ConfirmCommits

LEMMA RowDeleting ==
  ASSUME MediaInv, NEW i \in Image, DeleteRow(i)
  PROVE  MediaInv'
  <1> USE DEF MediaInv
  <1>1. /\ images' = [images EXCEPT ![i].at = "gone"]
        /\ removes' = [removes EXCEPT ![i] = Objects(i)]
        /\ UNCHANGED <<original, derived, makers, slipped, crossed>>
        /\ images[i].at = "there"
    BY DEF DeleteRow, There
  <1>2. /\ images' \in [Image -> ImageTypes] /\ images'[i].at = "gone"
        /\ images'[i].made = images[i].made
        /\ \A j \in Image \ {i} : images'[j] = images[j]
    BY <1>1 DEF MediaTypeOK, ImageTypes
  <1>3. /\ removes' \in [Image -> SUBSET Object] /\ removes'[i] = Objects(i)
        /\ \A j \in Image \ {i} : removes'[j] = removes[j]
        /\ removes[i] = {}
    BY <1>1 DEF MediaTypeOK, Objects, Object, MakersKnow
  <1>4. There' = {}
    <2>1. \A j \in Image \ {i} : images[j].at # "there"
      <3> SUFFICES ASSUME NEW j \in Image \ {i}, images[j].at = "there" PROVE FALSE
        OBVIOUS
      <3>1. i \in Int /\ j \in Int /\ (i < j \/ j < i)
        BY MediaAssumption DEF Image
      <3> QED BY <1>1, <3>1 DEF InTurn
    <2> QED BY <1>2, <2>1 DEF There
  <1>5. /\ \A c \in Confirmer : confirms'[c] # Free => confirms'[c].crossed
        /\ confirms' \in [Confirmer -> {Free} \cup [at : {"seen"}, crossed : BOOLEAN]]
    <2>1. ASSUME NEW c \in Confirmer
          PROVE  /\ confirms'[c] # Free => confirms'[c].crossed
                 /\ confirms'[c] \in {Free} \cup [at : {"seen"}, crossed : BOOLEAN]
      <3>1. confirms'[c] = IF confirms[c] = Free THEN Free
                           ELSE [confirms[c] EXCEPT !.crossed = TRUE]
        BY DEF DeleteRow
      <3> QED BY <3>1, MediaShapes
    <2>2. confirms' = [c \in Confirmer |-> confirms'[c]]
      BY DEF DeleteRow
    <2> QED BY <2>1, <2>2
  <1>6. MediaTypeOK'
    BY <1>1, <1>2, <1>3, <1>5 DEF MediaTypeOK, ImageTypes
  <1>7. NoneLost'
    <2> SUFFICES ASSUME ~slipped, NEW s \in derived PROVE Owed(s)'
      BY <1>1 DEF NoneLost
    <2>1. Owed(s)
      BY DEF NoneLost
    <2>2. CASE \E j \in There : images[j].made
      <3>1. images[i].made
        BY <1>2, <1>4, <2>2 DEF There
      <3>2. s \in removes'[i]
        BY <1>3, <3>1, MediaShapes DEF Objects, Object
      <3> QED BY <3>2 DEF Owed
    <2>3. CASE \E j \in Image : s \in removes[j]
      BY <1>3, <2>3 DEF Owed
    <2>4. CASE \E m \in Maker : \/ makers[m].at = "putting"
                                \/ makers[m].at = "cleaning" /\ s \in makers[m].left
      BY <1>1, <2>4 DEF Owed
    <2> QED BY <2>1, <2>2, <2>3, <2>4 DEF Owed
  <1>8. InTurn'
    BY <1>1, <1>2 DEF InTurn
  <1>9. MakersKnow'
    <2>1. \A j \in Image : images'[j].at = "none" <=> images[j].at = "none"
      BY <1>1, <1>2
    <2>2. \A j \in Image : images[j].at = "gone" => images'[j].at = "gone"
      BY <1>1, <1>2
    <2>3. \A m \in Maker : makers[m] # Free => makers[m].image \in Image
      BY MediaShapes DEF Run
    <2>4. \A j \in Image : removes'[j] # {} => images'[j].at = "gone"
      BY <1>2, <1>3 DEF MakersKnow
    <2>5. \A j \in Image : images'[j].made = images[j].made
      BY <1>2
    <2> QED BY <1>1, <2>1, <2>2, <2>3, <2>4, <2>5 DEF MakersKnow
  <1>10. Quiet'
    BY <1>4, <1>5 DEF Quiet
  <1> QED BY <1>6, <1>7, <1>8, <1>9, <1>10

(* While anything is cleaned up after, or something has failed half-way, and
   no row changes, there is little to show. *)
LEMMA CleaningStep ==
  ASSUME MediaInv, Cleaning, SameImages, MediaTypeOK',
         UNCHANGED <<original, confirms, crossed>>, NoneLost', 
         \A i \in Image : removes'[i] # {} => removes[i] # {},
         \A m \in Maker : makers'[m] # Free =>
           makers[m] # Free /\ makers'[m].image = makers[m].image
           /\ (makers'[m].at = "cleaning" => makers[m].at = "cleaning")
  PROVE  MediaInv'
  <1> USE DEF MediaInv
  <1>1. There' = There /\ There \ crossed = {}
    BY DEF There, SameImages, Quiet
  <1>2. \A c \in Confirmer : confirms[c] # Free => confirms[c].crossed
    BY DEF Quiet
  <1>3. Quiet'
    BY <1>1, <1>2 DEF Quiet
  <1>4. MakersKnow'
    <2>1. \A m \in Maker : makers[m] # Free => makers[m].image \in Image
      BY MediaShapes DEF Run
    <2> QED BY <2>1 DEF MakersKnow, SameImages
  <1>5. InTurn'
    BY DEF InTurn, SameImages
  <1> QED BY <1>3, <1>4, <1>5

LEMMA ObjectDeleting ==
  ASSUME MediaInv, NEW i \in Image,
         (\E o \in Object : DeleteObject(i, o)) \/ DeleteDies(i)
  PROVE  MediaInv'
  <1> USE DEF MediaInv
  <1>1. ASSUME NEW o \in Object, DeleteObject(i, o) PROVE MediaInv'
    <2>1. /\ removes' = [removes EXCEPT ![i] = @ \ {o}] /\ o \in removes[i]
          /\ UNCHANGED <<images, confirms, makers, crossed>>
      BY <1>1 DEF DeleteObject
    <2>2. Cleaning /\ SameImages
      BY <2>1, Unanswered DEF Cleaning
    <2>3. removes' \in [Image -> SUBSET Object]
          /\ \A j \in Image : removes'[j] = IF j = i THEN removes[i] \ {o} ELSE removes[j]
      BY <2>1 DEF MediaTypeOK
    <2>4. CASE Gone(o) /\ UNCHANGED slipped
      <3>1. MediaTypeOK'
        BY <2>1, <2>3, <2>4 DEF Gone, MediaTypeOK
      <3>2. NoneLost'
        <4> SUFFICES ASSUME ~slipped, NEW s \in derived \ {o} PROVE Owed(s)'
          BY <2>4 DEF NoneLost, Gone
        <4>1. Owed(s)
          BY DEF NoneLost
        <4> QED BY <2>1, <2>3, <4>1 DEF Owed, There
      <3>3. There \ crossed = {} /\ \A c \in Confirmer : confirms[c] # Free => confirms[c].crossed
        BY <2>2 DEF Quiet
      <3>4. Quiet'
        BY <2>1, <3>3 DEF Quiet, There
      <3>5. MakersKnow'
        BY <2>1, <2>3 DEF MakersKnow
      <3>6. InTurn'
        BY <2>1 DEF InTurn
      <3> QED BY <3>1, <3>2, <3>4, <3>5, <3>6
    <2>5. CASE slipped' = TRUE /\ UNCHANGED <<original, derived>>
      <3>1. MediaTypeOK' /\ NoneLost'
        BY <2>1, <2>3, <2>5 DEF MediaTypeOK, NoneLost
      <3> QED BY <2>1, <2>2, <2>3, <2>5, <3>1, CleaningStep
    <2> QED BY <1>1, <2>4, <2>5 DEF DeleteObject
  <1>2. ASSUME DeleteDies(i) PROVE MediaInv'
    <2>1. MediaTypeOK' /\ NoneLost'
      BY <1>2 DEF DeleteDies, MediaTypeOK, NoneLost
    <2>2. Cleaning /\ SameImages
      BY <1>2, Unanswered DEF DeleteDies, Cleaning
    <2>3. \A j \in Image : removes'[j] # {} => removes[j] # {}
      BY <1>2 DEF DeleteDies, MediaTypeOK
    <2> QED BY <1>2, <2>1, <2>2, <2>3, CleaningStep DEF DeleteDies
  <1> QED BY <1>1, <1>2

(* A maker moves on. *)
LEMMA MakesTypes ==
  ASSUME MediaTypeOK, NEW m \in Maker, NEW rec \in {Free} \cup Run, Makes(m, rec)
  PROVE  /\ makers' \in [Maker -> {Free} \cup Run]
         /\ makers'[m] = rec /\ \A n \in Maker \ {m} : makers'[n] = makers[n]
  BY DEF MediaTypeOK, Makes, Run

LEMMA MakeStarting ==
  ASSUME MediaInv, NEW m \in Maker, NEW i \in Image, MakeStarts(m, i)
  PROVE  MediaInv'
  <1> USE DEF MediaInv
  <1> DEFINE rec == [at |-> "putting", image |-> i, left |-> Size]
  <1>1. /\ rec \in Run /\ rec # Free /\ rec.at = "putting" /\ rec.image = i /\ rec.left = Size
    BY DEF Run, Free
  <1>2. /\ Makes(m, rec) /\ makers[m] = Free /\ images[i].at = "there" /\ ~images[i].made
        /\ UNCHANGED <<original, derived, images, confirms, removes, slipped, crossed>>
    BY DEF MakeStarts, There
  <1> HIDE DEF rec
  <1>3. /\ makers' \in [Maker -> {Free} \cup Run]
        /\ makers'[m] = rec /\ \A n \in Maker \ {m} : makers'[n] = makers[n]
    BY <1>1, <1>2, MakesTypes
  <1>4. There' = There /\ Cleaning' = Cleaning
    <2>1. There' = There
      BY <1>2 DEF There
    <2>2. Cleaning' = Cleaning
      BY <1>1, <1>2, <1>3 DEF Cleaning
    <2> QED BY <2>1, <2>2
  <1>5. MediaTypeOK'
    BY <1>2, <1>3 DEF MediaTypeOK, Run
  <1>6. NoneLost'
    <2> SUFFICES ASSUME ~slipped, NEW s \in derived PROVE Owed(s)'
      BY <1>2 DEF NoneLost
    <2> QED BY <1>1, <1>2, <1>3 DEF Owed
  <1>7. MakersKnow'
    BY <1>1, <1>2, <1>3 DEF MakersKnow
  <1>8. Quiet'
    <2> SUFFICES ASSUME NEW j \in There \ crossed
        PROVE  \A n \in Maker : makers'[n] # Free =>
                 /\ makers'[n].at = "putting" /\ makers'[n].image = j
                 /\ Size \ makers'[n].left \subseteq derived
      BY <1>2, <1>4 DEF Quiet
    <2>1. j = i
      <3>1. i \in Int /\ j \in Int /\ images[j].at = "there"
        BY MediaAssumption DEF Image, There
      <3> QED BY <1>2, <3>1 DEF InTurn, There
    <2> QED BY <1>1, <1>2, <1>3, <2>1 DEF Quiet
  <1> QED BY <1>2, <1>5, <1>6, <1>7, <1>8 DEF InTurn

LEMMA MakePutting ==
  ASSUME MediaInv, NEW m \in Maker, NEW s \in Size, MakePuts(m, s)
  PROVE  MediaInv'
  <1> USE DEF MediaInv
  <1> DEFINE rec == [makers[m] EXCEPT !.left = @ \ {s}]
  <1>1. makers[m] \in Run /\ makers[m] # Free /\ makers[m].at = "putting"
    BY MediaShapes DEF MakePuts, Free
  <1>2. /\ rec \in Run /\ rec # Free /\ rec.at = "putting" /\ rec.image = makers[m].image
        /\ rec.left = makers[m].left \ {s}
    BY <1>1 DEF Run, Free
  <1>3. /\ Makes(m, rec) /\ derived' = derived \cup {s}
        /\ UNCHANGED <<original, images, confirms, removes, slipped, crossed>>
    BY DEF MakePuts
  <1> HIDE DEF rec
  <1>4. /\ makers' \in [Maker -> {Free} \cup Run]
        /\ makers'[m] = rec /\ \A n \in Maker \ {m} : makers'[n] = makers[n]
    BY <1>2, <1>3, MakesTypes
  <1>5. There' = There /\ Cleaning' = Cleaning
    <2>1. There' = There
      BY <1>3 DEF There
    <2>2. Cleaning' = Cleaning
      BY <1>1, <1>2, <1>3, <1>4 DEF Cleaning
    <2> QED BY <2>1, <2>2
  <1>6. MediaTypeOK'
    BY <1>3, <1>4 DEF MediaTypeOK, Run
  <1>7. NoneLost'
    BY <1>2, <1>4 DEF NoneLost, Owed
  <1>8. MakersKnow'
    BY <1>1, <1>2, <1>3, <1>4 DEF MakersKnow
  <1>9. Quiet'
    <2>1. ASSUME NEW j \in There \ crossed, NEW n \in Maker, makers'[n] # Free
          PROVE  /\ makers'[n].at = "putting" /\ makers'[n].image = j
                 /\ Size \ makers'[n].left \subseteq derived'
      BY <1>1, <1>2, <1>3, <1>4, <2>1 DEF Quiet
    <2>2. ASSUME NEW j \in There \ crossed, images[j].made PROVE derived' = Size
      BY <1>3, <2>2 DEF Quiet
    <2> QED BY <1>3, <1>5, <2>1, <2>2 DEF Quiet
  <1> QED BY <1>3, <1>6, <1>7, <1>8, <1>9 DEF InTurn

LEMMA Setting ==
  ASSUME MediaTypeOK, NEW i \in Image,
         images' = [images EXCEPT ![i].made = TRUE, ![i].queued = FALSE]
  PROVE  /\ images' \in [Image -> ImageTypes] /\ images'[i].at = images[i].at /\ images'[i].made
         /\ \A j \in Image \ {i} : images'[j] = images[j]
  <1>1. images \in [Image -> ImageTypes]
    BY DEF MediaTypeOK, ImageTypes
  <1>2. \A j \in Image \ {i} : images'[j] = images[j]
    BY <1>1
  <1>3. images'[i] = [images[i] EXCEPT !.made = TRUE, !.queued = FALSE]
    BY <1>1 DEF ImageTypes
  <1>4. images'[i] \in ImageTypes /\ images'[i].at = images[i].at /\ images'[i].made
    BY <1>1, <1>3 DEF ImageTypes
  <1>5. images' = [j \in Image |-> images'[j]]
    BY <1>1
  <1> QED BY <1>1, <1>2, <1>4, <1>5

LEMMA MakeSetting ==
  ASSUME MediaInv, NEW m \in Maker, MakeSets(m)
  PROVE  MediaInv'
  <1> USE DEF MediaInv
  <1> DEFINE i == makers[m].image
  <1>1. makers[m] \in Run /\ makers[m] # Free /\ makers[m].at = "putting"
        /\ makers[m].left = {} /\ i \in Image /\ images[i].at # "none"
    BY MediaShapes DEF MakeSets, Free, Run, MakersKnow
  <1>2. UNCHANGED <<original, derived, confirms, removes, slipped, crossed>>
    BY DEF MakeSets
  <1>3. CASE i \in There
    <2>1. images' = [images EXCEPT ![i].made = TRUE, ![i].queued = FALSE] /\ Makes(m, Free)
      BY <1>3 DEF MakeSets
    <2>2. /\ images' \in [Image -> ImageTypes] /\ images'[i].at = "there" /\ images'[i].made
          /\ \A j \in Image \ {i} : images'[j] = images[j]
          /\ images[i].at = "there"
      <3>1. images[i].at = "there"
        BY <1>3 DEF There
      <3> HIDE DEF i
      <3>2. i \in Image
        BY <1>1
      <3> QED BY <2>1, <3>1, <3>2, Setting
    <2>3. /\ makers' \in [Maker -> {Free} \cup Run]
          /\ makers'[m] = Free /\ \A n \in Maker \ {m} : makers'[n] = makers[n]
      BY <2>1, MakesTypes
    <2>4. There' = There
      BY <2>2 DEF There
    <2>5. Cleaning' = Cleaning
      <3>1. \A n \in Maker : makers[n] # Free => makers[n].image \in Image
        BY MediaShapes DEF Run
      <3>2. \A j \in Image : images'[j].at = "gone" <=> images[j].at = "gone"
        BY <2>2
      <3> QED BY <1>2, <2>2, <2>3, <3>1, <3>2 DEF Cleaning
    <2>6. MediaTypeOK'
      BY <1>2, <2>2, <2>3 DEF MediaTypeOK, Run, ImageTypes
    <2>7. NoneLost'
      BY <1>3, <2>2, <2>4 DEF NoneLost, Owed
    <2>8. InTurn'
      BY <2>2 DEF InTurn
    <2>9. MakersKnow'
      <3>1. \A n \in Maker : makers[n] # Free => makers[n].image \in Image
        BY MediaShapes DEF Run
      <3>2. \A j \in Image : images'[j].at = images[j].at
        BY <2>2
      <3> QED BY <1>2, <2>2, <2>3, <3>1, <3>2 DEF MakersKnow
    <2>10. Quiet'
      <3>1. ASSUME NEW j \in There \ crossed, images'[j].made PROVE derived = Size
        <4>1. j = i /\ Size \ makers[m].left \subseteq derived
          BY <1>1, <3>1 DEF Quiet
        <4> QED BY <1>1, <4>1, MediaShapes
      <3>2. ASSUME NEW j \in There \ crossed, NEW n \in Maker, makers'[n] # Free
            PROVE  makers'[n] = makers[n]
        BY <2>3, <3>2
      <3> QED BY <1>2, <2>4, <2>5, <3>1, <3>2 DEF Quiet
    <2> QED BY <2>6, <2>7, <2>8, <2>9, <2>10
  <1>4. CASE i \notin There
    <2> DEFINE rec == [makers[m] EXCEPT !.at = "cleaning", !.left = Size]
    <2>1. /\ images' = images /\ Makes(m, rec)
          /\ images[i].at = "gone"
      BY <1>1, <1>4, MediaShapes DEF MakeSets, There
    <2>2. /\ rec \in Run /\ rec # Free /\ rec.at = "cleaning" /\ rec.image = i
          /\ rec.left = Size
      BY <1>1 DEF Run, Free
    <2> HIDE DEF rec
    <2>3. /\ makers' \in [Maker -> {Free} \cup Run]
          /\ makers'[m] = rec /\ \A n \in Maker \ {m} : makers'[n] = makers[n]
      BY <2>1, <2>2, MakesTypes
    <2>4. MediaTypeOK'
      BY <1>2, <2>1, <2>3 DEF MediaTypeOK, Run
    <2>5. NoneLost'
      <3> SUFFICES ASSUME ~slipped, NEW s \in derived PROVE Owed(s)'
        BY <1>2 DEF NoneLost
      <3>1. s \in Size
        BY MediaShapes
      <3> QED BY <2>2, <2>3, <3>1 DEF Owed
    <2>6. MakersKnow'
      BY <1>2, <2>1, <2>2, <2>3 DEF MakersKnow
    <2>7. Quiet'
      <3>1. Cleaning
        BY <1>1, <2>1 DEF Cleaning
      <3> QED BY <1>2, <2>1, <3>1 DEF Quiet, There
    <2> QED BY <2>1, <2>4, <2>5, <2>6, <2>7 DEF InTurn
  <1> QED BY <1>3, <1>4

LEMMA MakeSkipping ==
  ASSUME MediaInv, NEW i \in Image, MakeSkips(i)
  PROVE  MediaInv'
  <1> USE DEF MediaInv
  <1>1. /\ SameImages /\ UNCHANGED <<original, derived, confirms, removes, makers, slipped, crossed>>
    BY AnsweredSame DEF MakeSkips
  <1>2. There' = There
    BY <1>1 DEF There, SameImages
  <1>3. \A n \in Maker : makers[n] # Free => makers[n].image \in Image
    BY MediaShapes DEF Run
  <1>4. Cleaning' = Cleaning
    BY <1>1, <1>3 DEF Cleaning, SameImages
  <1>5. MediaTypeOK'
    BY <1>1 DEF MediaTypeOK, SameImages, ImageTypes
  <1>6. NoneLost'
    BY <1>1, <1>2 DEF NoneLost, Owed, SameImages, There
  <1>7. InTurn' /\ MakersKnow'
    BY <1>1, <1>3 DEF InTurn, MakersKnow, SameImages
  <1>8. Quiet'
    BY <1>1, <1>2, <1>4 DEF Quiet, SameImages, There
  <1> QED BY <1>5, <1>6, <1>7, <1>8

LEMMA MakeCleaning ==
  ASSUME MediaInv, NEW m \in Maker, MakeCleans(m)
  PROVE  MediaInv'
  <1> USE DEF MediaInv
  <1>1. /\ makers[m] \in Run /\ makers[m] # Free /\ makers[m].at = "cleaning"
        /\ makers[m].image \in Image /\ images[makers[m].image].at = "gone"
    BY MediaShapes DEF MakeCleans, Free, Run, MakersKnow
  <1>2. /\ Cleaning /\ UNCHANGED <<original, confirms, removes, crossed>>
    BY <1>1 DEF Cleaning, MakeCleans
  <1>3. /\ There \ crossed = {}
        /\ \A c \in Confirmer : confirms[c] # Free => confirms[c].crossed
    BY <1>2 DEF Quiet
  <1>4. ASSUME NEW s \in makers[m].left, Makes(m, [makers[m] EXCEPT !.left = @ \ {s}]),
               UNCHANGED images,
               \/ derived' = derived \ {s} /\ UNCHANGED slipped
               \/ slipped' = TRUE /\ UNCHANGED derived
        PROVE  MediaInv'
    <2> DEFINE rec == [makers[m] EXCEPT !.left = @ \ {s}]
    <2>1. /\ rec \in Run /\ rec # Free /\ rec.at = "cleaning" /\ rec.image = makers[m].image
          /\ rec.left = makers[m].left \ {s}
      BY <1>1 DEF Run, Free
    <2>2. Makes(m, rec)
      BY <1>4
    <2> HIDE DEF rec
    <2>3. /\ makers' \in [Maker -> {Free} \cup Run]
          /\ makers'[m] = rec /\ \A n \in Maker \ {m} : makers'[n] = makers[n]
      BY <2>1, <2>2, MakesTypes
    <2>4. MediaTypeOK'
      BY <1>2, <1>4, <2>3 DEF MediaTypeOK, Run
    <2>5. NoneLost'
      <3> SUFFICES ASSUME ~slipped', NEW t \in derived' PROVE Owed(t)'
        BY DEF NoneLost
      <3>1. ~slipped /\ t \in derived \ {s}
        BY <1>4 DEF MediaTypeOK
      <3>2. Owed(t)
        BY <3>1 DEF NoneLost
      <3> QED BY <1>1, <1>2, <1>4, <2>1, <2>3, <3>1, <3>2 DEF Owed, There
    <2>6. MakersKnow'
      BY <1>1, <1>2, <1>4, <2>1, <2>3 DEF MakersKnow
    <2>7. Quiet'
      BY <1>2, <1>3, <1>4 DEF Quiet, There
    <2> QED BY <1>4, <2>4, <2>5, <2>6, <2>7 DEF InTurn
  <1>5. ASSUME makers[m].left = {}, Makes(m, Free), Answered(m), UNCHANGED <<derived, slipped>>
        PROVE  MediaInv'
    <2>1. SameImages
      BY <1>1, <1>5, AnsweredSame DEF Answered
    <2>2. /\ makers' \in [Maker -> {Free} \cup Run]
          /\ makers'[m] = Free /\ \A n \in Maker \ {m} : makers'[n] = makers[n]
      BY <1>5, MakesTypes
    <2>3. MediaTypeOK'
      BY <1>2, <1>5, <2>1, <2>2 DEF MediaTypeOK, Run, SameImages, ImageTypes
    <2>4. NoneLost'
      <3> SUFFICES ASSUME ~slipped, NEW s \in derived PROVE Owed(s)'
        BY <1>5 DEF NoneLost
      <3>1. Owed(s)
        BY DEF NoneLost
      <3>2. CASE \E n \in Maker : \/ makers[n].at = "putting"
                                  \/ makers[n].at = "cleaning" /\ s \in makers[n].left
        BY <1>1, <1>5, <2>2, <3>2 DEF Owed
      <3>3. CASE \E j \in Image : s \in removes[j]
        BY <1>2, <3>3 DEF Owed
      <3>4. CASE \E j \in There : images[j].made
        BY <2>1, <3>4 DEF Owed, There, SameImages
      <3> QED BY <3>1, <3>2, <3>3, <3>4 DEF Owed
    <2> QED BY <1>2, <2>1, <2>2, <2>3, <2>4, CleaningStep
  <1> QED BY <1>4, <1>5 DEF MakeCleans

LEMMA MakeFailing ==
  ASSUME MediaInv, NEW m \in Maker, MakeFails(m)
  PROVE  MediaInv'
  <1> USE DEF MediaInv
  <1>1. /\ makers[m] # Free /\ Makes(m, Free) /\ slipped' = TRUE
        /\ UNCHANGED <<original, derived, confirms, removes, crossed>>
    BY DEF MakeFails
  <1>2. /\ makers' \in [Maker -> {Free} \cup Run]
        /\ makers'[m] = Free /\ \A n \in Maker \ {m} : makers'[n] = makers[n]
    BY <1>1, MakesTypes
  <1>3. \A n \in Maker : makers[n] # Free => makers[n].image \in Image
    BY MediaShapes DEF Run
  <1>4. SameImages
    BY <1>1, <1>3, AnsweredSame, Unanswered DEF MakeFails, Answered
  <1>5. There' = There
    BY <1>4 DEF There, SameImages
  <1>6. MediaTypeOK' /\ NoneLost'
    BY <1>1, <1>2, <1>4 DEF MediaTypeOK, Run, SameImages, ImageTypes, NoneLost
  <1>7. InTurn'
    BY <1>4 DEF InTurn, SameImages
  <1>8. MakersKnow'
    BY <1>1, <1>2, <1>3, <1>4 DEF MakersKnow, SameImages
  <1>9. Cleaning' => Cleaning
    BY <1>1, <1>2, <1>3, <1>4 DEF Cleaning, SameImages
  <1>10. Quiet'
    <2>1. ASSUME NEW c \in Confirmer, confirms'[c] # Free, ~confirms'[c].crossed
          PROVE  original' /\ ~Cleaning'
      BY <1>1, <1>9, <2>1 DEF Quiet
    <2>2. ASSUME NEW i \in There \ crossed
          PROVE  /\ original' /\ ~Cleaning'
                 /\ images'[i].made => derived' = Size
      BY <1>1, <1>4, <1>9, <2>2 DEF Quiet, SameImages, There
    <2>3. ASSUME NEW i \in There \ crossed, NEW n \in Maker, makers'[n] # Free
          PROVE  /\ makers'[n].at = "putting" /\ makers'[n].image = i
                 /\ Size \ makers'[n].left \subseteq derived'
      BY <1>1, <1>2, <2>3 DEF Quiet
    <2> QED BY <1>1, <1>5, <2>1, <2>2, <2>3 DEF Quiet
  <1> QED BY <1>6, <1>7, <1>8, <1>10

LEMMA MediaStep == MediaInv /\ [MediaNext]_mediaVars => MediaInv'
  <1> SUFFICES ASSUME MediaInv, [MediaNext]_mediaVars PROVE MediaInv'
    OBVIOUS
  <1>1. CASE Upload
    BY <1>1, Uploading
  <1>2. ASSUME NEW c \in Confirmer, ConfirmSees(c) \/ ConfirmCommits(c) PROVE MediaInv'
    BY <1>2, ConfirmSeeing, ConfirmCommitting
  <1>3. ASSUME NEW i \in Image,
               \/ DeleteRow(i) \/ DeleteDies(i) \/ MakeSkips(i)
               \/ \E o \in Object : DeleteObject(i, o)
        PROVE MediaInv'
    BY <1>3, RowDeleting, ObjectDeleting, MakeSkipping
  <1>4. ASSUME NEW m \in Maker, MakeNext(m) PROVE MediaInv'
    BY <1>4, MakeStarting, MakePutting, MakeSetting, MakeCleaning, MakeFailing DEF MakeNext
  <1>5. CASE UNCHANGED mediaVars
    BY <1>5 DEF mediaVars, MediaInv, MediaTypeOK, NoneLost, Owed, InTurn, MakersKnow, Quiet,
                There, Cleaning
  <1> QED BY <1>1, <1>2, <1>3, <1>4, <1>5 DEF MediaNext

(***************************************************************************)
(* Rows, objects, deletions and runs of the job keep their types, for any  *)
(* number of rows, sizes and workers (media.go, images.go).                *)
(***************************************************************************)
THEOREM MediaTypesCorrect == MediaSpec => []MediaTypeOK
  <1>1. MediaInv => MediaTypeOK
    BY DEF MediaInv
  <1> QED BY <1>1, MediaBegins, MediaStep, PTL DEF MediaSpec

(***************************************************************************)
(* What the shop links to is in the bucket, but for an image confirmed     *)
(* while an earlier one of its key was being cleaned up after, and no      *)
(* derivative stays behind unless a step failed: for any number of rows,   *)
(* sizes, workers and confirmations (DeleteMedia, ConfirmMedia, Handler).  *)
(***************************************************************************)
THEOREM BucketAlwaysAgrees == MediaSpec => []BucketAgrees
  <1> QED BY MediaBegins, MediaStep, MediaAgrees, PTL DEF MediaSpec
-----------------------------------------------------------------------------
(* The import. *)
LEMMA ImportBegins == ImportInit => NoEmptyProducts
  BY DEF ImportInit, NoEmptyProducts

LEMMA ImportStep ==
  ASSUME NoEmptyProducts, [ImportNext]_importVars
  PROVE  NoEmptyProducts'
  <1>1. CASE RowCreates
    <2>1. products' = products \cup {Parent} /\ children' = children \cup {<<Parent, Sent.values>>}
      BY <1>1 DEF RowCreates
    <2>2. \A p \in products' : p \in products \/ p = Parent
      BY <2>1
    <2>3. <<Parent, Sent.values>>[1] = Parent
      OBVIOUS
    <2> DEFINE new == <<Parent, Sent.values>>
    <2>4. children' = children \cup {new} /\ new[1] = Parent
      BY <2>1, <2>3
    <2> HIDE DEF new
    <2> QED BY <2>2, <2>4 DEF NoEmptyProducts
  <1>2. CASE UNCHANGED <<products, children>>
    BY <1>2 DEF NoEmptyProducts
  <1>3. CASE BatchAgain
    BY <1>3 DEF BatchAgain, NoEmptyProducts
  <1>4. CASE RowUpdates \/ RowRefused \/ InsertFails \/ \E s \in ImportSKU : TakenElsewhere(s)
    BY <1>2, <1>4 DEF RowUpdates, RowRefused, InsertFails, TakenElsewhere, RowDone
  <1>5. CASE UNCHANGED importVars
    BY <1>2, <1>5 DEF importVars
  <1> QED BY <1>1, <1>3, <1>4, <1>5 DEF ImportNext

(***************************************************************************)
(* The import leaves no product without a variant, whatever its rows say   *)
(* and whoever takes their SKUs meanwhile (import.go).                     *)
(***************************************************************************)
THEOREM NeverEmptyProducts == ImportSpec => []NoEmptyProducts
  BY ImportBegins, ImportStep, PTL DEF ImportSpec

-----------------------------------------------------------------------------
(* A save knows who else is featured, or is told; a row it will write that is
   published has a date. *)
SaveKnows(s) ==
  /\ saves[s].row.status = "published" => saves[s].row.dated
  /\ "deleted" \notin saves[s].since => posts[saves[s].post].at # "archived"
  /\ "featured" \notin saves[s].since =>
       /\ ~saves[s].clears /\ saves[s].row.featured =>
            \A q \in Post : posts[q].featured => q = saves[s].post
       /\ saves[s].at = "cleared" =>
            \A q \in Post : posts[q].featured => q = saves[s].post \/ q \in saves[s].cleared

PostsKnow ==
  /\ \A p \in Post, q \in Post : posts[p].featured /\ posts[q].featured => p = q
  /\ \A p \in Post : posts[p].at = "archived" /\ posts[p].featured => p \in revived
  /\ \A p \in Post : posts[p].status = "published" => posts[p].dated

BlogInv == BlogTypeOK /\ PostsKnow /\ \A s \in Save : saves[s] # NoSave => SaveKnows(s)

LEMMA BlogBegins == BlogInit => BlogInv
  BY DEF BlogInit, BlogInv, BlogTypeOK, PostsKnow, NoPost, PostRow, Status

LEMMA BlogAgrees == BlogInv => FlagAgrees
  BY DEF BlogInv, FlagAgrees, PostsKnow, SaveKnows, Ready, Beside

LEMMA BlogShapes ==
  ASSUME BlogTypeOK
  PROVE  /\ \A p \in Post : posts[p] \in PostRow
         /\ \A s \in Save : saves[s] # NoSave => saves[s] \in SaveRow
         /\ NoSave \notin SaveRow
  <1>1. \A s \in Save : saves[s] # NoSave => saves[s] \in SaveRow
    BY DEF BlogTypeOK
  <1>2. NoSave \notin SaveRow
    BY DEF NoSave, SaveRow
  <1> QED BY <1>1, <1>2 DEF BlogTypeOK

(* A save is told what others have done. *)
LEMMA Told ==
  ASSUME NEW row \in SaveRow, NEW what \in {"deleted", "featured"}, NEW told,
         told = [row EXCEPT !.since = @ \cup {what}]
  PROVE  /\ told \in SaveRow /\ told.post = row.post /\ told.row = row.row
         /\ told.clears = row.clears /\ told.at = row.at /\ told.cleared = row.cleared
         /\ told.since = row.since \cup {what}
  BY DEF SaveRow

LEMMA SaveReading ==
  ASSUME BlogInv, NEW s \in Save, NEW p \in Post, NEW in \in PostInput, SaveReads(s, p, in)
  PROVE  BlogInv'
  <1> USE DEF BlogInv
  <1>1. PICK new \in PostRow :
          /\ Applies(posts[p], in, new)
          /\ saves' = [saves EXCEPT ![s] =
               [at |-> "read", post |-> p, row |-> new, clears |-> TakesFlag(posts[p], new),
                cleared |-> {}, since |-> {}]]
    BY DEF SaveReads
  <1> DEFINE rec == [at |-> "read", post |-> p, row |-> new, clears |-> TakesFlag(posts[p], new),
                     cleared |-> {}, since |-> {}]
  <1>2. /\ posts' = posts /\ revived' = revived /\ posts[p].at # "archived"
    BY DEF SaveReads
  <1>3. /\ rec \in SaveRow /\ rec.at = "read" /\ rec.post = p /\ rec.row = new
        /\ rec.clears = TakesFlag(posts[p], new) /\ rec.since = {}
    BY BlogShapes DEF SaveRow, TakesFlag, PostRow
  <1>4. saves' = [saves EXCEPT ![s] = rec]
    BY <1>1
  <1> HIDE DEF rec
  <1>5. BlogTypeOK'
    BY <1>2, <1>3, <1>4 DEF BlogTypeOK
  <1>6. PostsKnow'
    BY <1>2 DEF PostsKnow
  <1>7. ASSUME NEW t \in Save, saves'[t] # NoSave PROVE SaveKnows(t)'
    <2>1. CASE t # s
      <3>1. saves'[t] = saves[t]
        BY <1>4, <2>1 DEF BlogTypeOK
      <3> QED BY <1>2, <1>7, <3>1 DEF SaveKnows
    <2>2. CASE t = s
      <3>1. saves'[t] = rec
        BY <1>4, <2>2 DEF BlogTypeOK
      <3>2. new.status = "published" => new.dated
        BY <1>1 DEF Applies
      <3>3. ~rec.clears /\ new.featured => posts[p].featured
        BY <1>3, BlogShapes DEF TakesFlag, PostRow
      <3> QED BY <1>2, <1>3, <3>1, <3>2, <3>3 DEF SaveKnows, PostsKnow
    <2> QED BY <2>1, <2>2
  <1> QED BY <1>5, <1>6, <1>7

LEMMA SaveClearing ==
  ASSUME BlogInv, NEW s \in Save, SaveClears(s)
  PROVE  BlogInv'
  <1> USE DEF BlogInv
  <1> DEFINE seen == {q \in Post : posts[q].featured /\ q # saves[s].post}
             rec  == [saves[s] EXCEPT !.at = "cleared", !.cleared = seen]
  <1>1. saves[s] \in SaveRow /\ saves[s] # NoSave
    BY BlogShapes DEF SaveClears, NoSave
  <1>2. /\ rec \in SaveRow /\ rec.post = saves[s].post /\ rec.row = saves[s].row
        /\ rec.clears = saves[s].clears /\ rec.since = saves[s].since /\ rec.cleared = seen
    BY <1>1 DEF SaveRow
  <1>3. /\ saves' = [saves EXCEPT ![s] = rec] /\ posts' = posts /\ revived' = revived
        /\ saves[s].clears
    BY DEF SaveClears, BlogTypeOK
  <1> HIDE DEF rec
  <1>4. BlogTypeOK'
    BY <1>2, <1>3 DEF BlogTypeOK
  <1>5. PostsKnow'
    BY <1>3 DEF PostsKnow
  <1>6. ASSUME NEW t \in Save, saves'[t] # NoSave PROVE SaveKnows(t)'
    <2>1. CASE t # s
      <3>1. saves'[t] = saves[t]
        BY <1>3, <2>1 DEF BlogTypeOK
      <3> QED BY <1>3, <1>6, <3>1 DEF SaveKnows
    <2>2. CASE t = s
      <3>1. saves'[t] = rec /\ SaveKnows(s)
        BY <1>1, <1>3, <2>2 DEF BlogTypeOK
      <3> QED BY <1>2, <1>3, <3>1 DEF SaveKnows
    <2> QED BY <2>1, <2>2
  <1> QED BY <1>4, <1>5, <1>6

LEMMA SaveCommitting ==
  ASSUME BlogInv, NEW s \in Save, SaveCommits(s)
  PROVE  BlogInv'
  <1> USE DEF BlogInv
  <1> DEFINE p == saves[s].post
  <1>1. /\ saves[s] \in SaveRow /\ saves[s] # NoSave /\ p \in Post
        /\ saves[s].row \in PostRow
    BY BlogShapes DEF SaveCommits, Ready, NoSave, SaveRow
  <1>2. SaveKnows(s)
    BY <1>1
  <1>3. saves' = FlagMoved(s)
    BY DEF SaveCommits
  <1>4. revived' = IF "deleted" \in saves[s].since THEN revived \cup {p} ELSE revived
    BY DEF SaveCommits
  <1>5. posts' = [q \in Post |->
          IF q = p THEN [saves[s].row EXCEPT !.at = IF posts[p].at = "archived" THEN "archived" ELSE "live"]
          ELSE [posts[q] EXCEPT !.featured = @ /\ q \notin saves[s].cleared]]
    BY DEF SaveCommits
  <1>6. saves[s].row.featured => Beside(s) = {}
    BY DEF SaveCommits
  <1> HIDE DEF p
  <1>7. /\ posts'[p] \in PostRow /\ posts'[p].featured = saves[s].row.featured
        /\ posts'[p].status = saves[s].row.status /\ posts'[p].dated = saves[s].row.dated
        /\ posts'[p].at = "archived" <=> posts[p].at = "archived"
    <2>1. posts'[p] = [saves[s].row EXCEPT !.at = IF posts[p].at = "archived" THEN "archived" ELSE "live"]
      BY <1>1, <1>5
    <2> QED BY <1>1, <2>1 DEF PostRow
  <1>8. ASSUME NEW q \in Post \ {p}
        PROVE  /\ posts'[q] \in PostRow /\ posts'[q].at = posts[q].at
               /\ posts'[q].status = posts[q].status /\ posts'[q].dated = posts[q].dated
               /\ posts'[q].featured <=> posts[q].featured /\ q \notin saves[s].cleared
    <2>1. posts'[q] = [posts[q] EXCEPT !.featured = @ /\ q \notin saves[s].cleared]
      BY <1>5
    <2>2. posts[q] \in PostRow
      BY BlogShapes
    <2> QED BY <2>1, <2>2 DEF PostRow
  <1>9. ASSUME NEW t \in Save, saves'[t] # NoSave
        PROVE  /\ t # s /\ saves[t] # NoSave /\ saves[t] \in SaveRow
               /\ \/ saves'[t] = saves[t]
                  \/ saves'[t] = [saves[t] EXCEPT !.since = @ \cup {"featured"}]
               /\ saves[t].post # p /\ saves[s].row.featured /\ ~posts[p].featured =>
                    saves'[t] = [saves[t] EXCEPT !.since = @ \cup {"featured"}]
    BY <1>3, <1>9, BlogShapes DEF FlagMoved, p
  <1>10. ASSUME NEW t \in Save, saves'[t] # NoSave
         PROVE  /\ saves'[t] \in SaveRow /\ saves'[t].post = saves[t].post
                /\ saves'[t].row = saves[t].row /\ saves'[t].clears = saves[t].clears
                /\ saves'[t].at = saves[t].at /\ saves'[t].cleared = saves[t].cleared
                /\ saves[t].since \subseteq saves'[t].since
                /\ "deleted" \in saves'[t].since => "deleted" \in saves[t].since
                /\ saves[t].post # p /\ saves[s].row.featured /\ ~posts[p].featured =>
                     "featured" \in saves'[t].since
    <2>1. CASE saves'[t] = saves[t]
      <3>1. ASSUME saves[t].post # p, saves[s].row.featured, ~posts[p].featured
            PROVE  "featured" \in saves'[t].since
        <4>1. /\ saves'[t] = [saves[t] EXCEPT !.since = @ \cup {"featured"}]
              /\ saves[t] \in SaveRow
          BY <1>9, <1>10, <3>1
        <4>2. saves'[t].since = saves[t].since \cup {"featured"}
          BY <4>1, Told
        <4> QED BY <4>2
      <3> QED BY <1>9, <1>10, <2>1, <3>1
    <2>2. CASE saves'[t] = [saves[t] EXCEPT !.since = @ \cup {"featured"}]
      <3>1. saves[t] \in SaveRow
        BY <1>9, <1>10
      <3> QED BY <2>2, <3>1, Told
    <2> QED BY <1>9, <1>10, <2>1, <2>2
  <1>11. BlogTypeOK'
    <2>1. posts' \in [Post -> PostRow]
      BY <1>5, <1>7, <1>8
    <2>2. saves' \in [Save -> {NoSave} \cup SaveRow]
      <3>1. saves' = [t \in Save |-> saves'[t]]
        BY <1>3 DEF FlagMoved
      <3> QED BY <1>10, <3>1
    <2> QED BY <1>1, <1>4, <2>1, <2>2 DEF BlogTypeOK
  <1>12. PostsKnow'
    <2>1. ASSUME NEW q \in Post, NEW r \in Post, posts'[q].featured, posts'[r].featured
          PROVE  q = r
      BY <1>6, <1>7, <1>8, <2>1 DEF PostsKnow, Beside, p
    <2>2. ASSUME NEW q \in Post, posts'[q].at = "archived", posts'[q].featured
          PROVE  q \in revived'
      BY <1>2, <1>4, <1>7, <1>8, <2>2 DEF PostsKnow, SaveKnows, p
    <2>3. ASSUME NEW q \in Post, posts'[q].status = "published" PROVE posts'[q].dated
      BY <1>2, <1>7, <1>8, <2>3 DEF PostsKnow, SaveKnows
    <2> QED BY <2>1, <2>2, <2>3 DEF PostsKnow
  <1>13. ASSUME NEW t \in Save, saves'[t] # NoSave PROVE SaveKnows(t)'
    <2>1. SaveKnows(t) /\ saves[t].post \in Post
      BY <1>9, <1>13 DEF SaveRow
    <2>2. "deleted" \notin saves'[t].since => posts'[saves'[t].post].at # "archived"
      BY <1>7, <1>8, <1>10, <1>13, <2>1 DEF SaveKnows
    <2>3. ASSUME "featured" \notin saves'[t].since, NEW q \in Post, posts'[q].featured,
                 q # saves[t].post
          PROVE  posts[q].featured
      BY <1>7, <1>8, <1>10, <1>13, <2>3
    <2> QED BY <1>10, <1>13, <2>1, <2>2, <2>3 DEF SaveKnows
  <1> QED BY <1>11, <1>12, <1>13

LEMMA SaveFailing ==
  ASSUME BlogInv, NEW s \in Save, SaveFails(s)
  PROVE  BlogInv'
  <1> USE DEF BlogInv
  <1>1. saves' = [saves EXCEPT ![s] = NoSave] /\ posts' = posts /\ revived' = revived
    BY DEF SaveFails
  <1>2. \A t \in Save : saves'[t] = saves[t] \/ saves'[t] = NoSave
    BY <1>1 DEF BlogTypeOK
  <1>3. BlogTypeOK'
    BY <1>1 DEF BlogTypeOK
  <1> QED BY <1>1, <1>2, <1>3 DEF PostsKnow, SaveKnows

LEMMA PostArchiving ==
  ASSUME BlogInv, NEW p \in Post, ArchivePost(p)
  PROVE  BlogInv'
  <1> USE DEF BlogInv
  <1>1. /\ posts' = [posts EXCEPT ![p].at = "archived", ![p].featured = FALSE]
        /\ revived' = revived \ {p}
    BY DEF ArchivePost
  <1>2. posts \in [Post -> PostRow]
    BY DEF BlogTypeOK
  <1>3. /\ posts'[p] \in PostRow /\ ~posts'[p].featured
        /\ posts'[p].status = posts[p].status /\ posts'[p].dated = posts[p].dated
        /\ \A q \in Post \ {p} : posts'[q] = posts[q]
    <2>1. posts'[p] = [posts[p] EXCEPT !.at = "archived", !.featured = FALSE]
      BY <1>1, <1>2 DEF PostRow
    <2>2. \A q \in Post \ {p} : posts'[q] = posts[q]
      BY <1>1, <1>2
    <2>3. posts[p] \in PostRow
      BY <1>2
    <2> QED BY <2>1, <2>2, <2>3 DEF PostRow
  <1>4. posts' \in [Post -> PostRow]
    <2>1. posts' = [q \in Post |-> posts'[q]]
      BY <1>1, <1>2
    <2> QED BY <1>2, <1>3, <2>1
  <1>5. ASSUME NEW t \in Save
        PROVE  saves'[t] = IF saves[t] # NoSave /\ saves[t].post = p
                           THEN [saves[t] EXCEPT !.since = @ \cup {"deleted"}] ELSE saves[t]
    BY DEF ArchivePost
  <1>6. ASSUME NEW t \in Save, saves'[t] # NoSave
        PROVE  /\ saves[t] # NoSave /\ saves[t] \in SaveRow
               /\ saves'[t] \in SaveRow /\ saves'[t].post = saves[t].post
               /\ saves'[t].row = saves[t].row /\ saves'[t].clears = saves[t].clears
               /\ saves'[t].at = saves[t].at /\ saves'[t].cleared = saves[t].cleared
               /\ saves[t].since \subseteq saves'[t].since
               /\ saves[t].post = p => "deleted" \in saves'[t].since
    <2>1. saves[t] # NoSave /\ saves[t] \in SaveRow
      BY <1>5, <1>6, BlogShapes
    <2>2. CASE saves[t].post = p
      <3>1. saves'[t] = [saves[t] EXCEPT !.since = @ \cup {"deleted"}]
        BY <1>5, <2>1, <2>2
      <3> QED BY <2>1, <3>1, Told
    <2>3. CASE saves[t].post # p
      BY <1>5, <2>1, <2>3
    <2> QED BY <2>2, <2>3
  <1>7. BlogTypeOK'
    <2>1. saves' = [t \in Save |-> saves'[t]]
      BY DEF ArchivePost
    <2>2. saves' \in [Save -> {NoSave} \cup SaveRow]
      BY <1>6, <2>1
    <2> QED BY <1>1, <1>4, <2>2 DEF BlogTypeOK
  <1>8. PostsKnow'
    BY <1>1, <1>3 DEF PostsKnow
  <1>9. ASSUME NEW t \in Save, saves'[t] # NoSave PROVE SaveKnows(t)'
    <2>1. SaveKnows(t) /\ saves[t].post \in Post
      BY <1>6, <1>9 DEF SaveRow
    <2>2. \A q \in Post : posts'[q].featured => posts[q].featured
      BY <1>3
    <2> QED BY <1>3, <1>6, <1>9, <2>1, <2>2 DEF SaveKnows
  <1> QED BY <1>7, <1>8, <1>9

LEMMA BlogStep == BlogInv /\ [BlogNext]_blogVars => BlogInv'
  <1> SUFFICES ASSUME BlogInv, [BlogNext]_blogVars PROVE BlogInv'
    OBVIOUS
  <1>1. ASSUME NEW s \in Save, SaveNext(s) PROVE BlogInv'
    BY <1>1, SaveReading, SaveClearing, SaveCommitting, SaveFailing DEF SaveNext
  <1>2. ASSUME NEW p \in Post, ArchivePost(p) PROVE BlogInv'
    BY <1>2, PostArchiving
  <1>3. CASE UNCHANGED blogVars
    BY <1>3 DEF blogVars, BlogInv, BlogTypeOK, PostsKnow, SaveKnows
  <1> QED BY <1>1, <1>2, <1>3 DEF BlogNext

(***************************************************************************)
(* Posts and saves keep their types, for any number of them (posts.go).    *)
(***************************************************************************)
THEOREM BlogTypesCorrect == BlogSpec => []BlogTypeOK
  <1>1. BlogInv => BlogTypeOK
    BY DEF BlogInv
  <1> QED BY <1>1, BlogBegins, BlogStep, PTL DEF BlogSpec

(***************************************************************************)
(* For any number of posts and saves: with nobody else at it a save        *)
(* features its post and the index does not refuse it, a deleted post is   *)
(* featured only if a save that had read it wrote it back, and a published *)
(* post has a date (posts.go; BR-131).                                     *)
(***************************************************************************)
THEOREM FlagAlwaysAgrees == BlogSpec => []FlagAgrees
  <1> QED BY BlogBegins, BlogStep, BlogAgrees, PTL DEF BlogSpec
-----------------------------------------------------------------------------
(* Prefixes, element by element. *)
LEMMA PrefixElements ==
  ASSUME NEW S, NEW s \in Seq(S), NEW t \in Seq(S)
  PROVE  IsPrefix(s, t) <=> Len(s) <= Len(t) /\ \A i \in 1..Len(s) : s[i] = t[i]
  <1>0. Len(s) \in Nat /\ Len(t) \in Nat /\ 1 \in Int /\ Len(s) \in Int
    BY LenProperties
  <1>1. \A i \in 1..Len(s) : s[i] \in S
    BY ElementOfSeq
  <1>2. SubSeq(s, 1, Len(s)) = s
    BY SubSeqFull
  <1>3. ASSUME Len(s) <= Len(t)
        PROVE  SubSeq(t, 1, Len(s)) = s <=> \A i \in 1..Len(s) : s[i] = t[i]
    <2> DEFINE u == SubSeq(t, 1, Len(s))
    <2>1. \A i \in 1..Len(s) : t[i] \in S
      <3> TAKE i \in 1..Len(s)
      <3>1. i \in 1..Len(t)
        BY <1>0, <1>3
      <3> QED BY <3>1, ElementOfSeq
    <2>2. u \in Seq(S) /\ Len(u) = (IF 1 <= Len(s) THEN Len(s) - 1 + 1 ELSE 0)
          /\ \A i \in 1..(Len(s) - 1 + 1) : u[i] = t[1 + i - 1]
      BY <1>0, <2>1, SubSeqProperties
    <2> HIDE DEF u
    <2>3. u \in Seq(S) /\ Len(u) = Len(s) /\ \A i \in 1..Len(s) : u[i] = t[i]
      BY <1>0, <2>2
    <2>4. (\A i \in 1..Len(s) : s[i] = t[i]) => u = s
      BY <2>3, SeqEqual
    <2>5. u = s => \A i \in 1..Len(s) : s[i] = t[i]
      BY <2>3
    <2> QED BY <2>4, <2>5 DEF u
  <1> QED BY <1>2, <1>3 DEF IsPrefix

(* Without its last element. *)
LEMMA FrontElements ==
  ASSUME NEW S, NEW s \in Seq(S), s # <<>>
  PROVE  /\ Len(s) \in Nat \ {0} /\ Front(s) \in Seq(S) /\ Len(Front(s)) = Len(s) - 1
         /\ \A i \in 1..(Len(s) - 1) : Front(s)[i] = s[i]
  <1>0. Len(s) \in Nat \ {0} /\ Len(s) - 1 \in Int /\ 1 \in Int
    BY EmptySeq, LenProperties
  <1>1. \A i \in 1..(Len(s) - 1) : s[i] \in S
    <2> TAKE i \in 1..(Len(s) - 1)
    <2>1. i \in 1..Len(s)
      BY <1>0
    <2> QED BY <2>1, ElementOfSeq
  <1>2. /\ Front(s) \in Seq(S)
        /\ Len(Front(s)) = IF 1 <= Len(s) - 1 THEN Len(s) - 1 - 1 + 1 ELSE 0
        /\ \A i \in 1..(Len(s) - 1 - 1 + 1) : Front(s)[i] = s[1 + i - 1]
    BY <1>0, <1>1, SubSeqProperties DEF Front
  <1> DEFINE n == Len(s)
  <1>3. /\ n \in Nat /\ n >= 1
        /\ Len(Front(s)) = IF 1 <= n - 1 THEN n - 1 - 1 + 1 ELSE 0
        /\ \A i \in 1..(n - 1 - 1 + 1) : Front(s)[i] = s[1 + i - 1]
    BY <1>0, <1>2
  <1> HIDE DEF n, Front
  <1>4. Len(Front(s)) = n - 1
    BY <1>3
  <1>5. ASSUME NEW i \in 1..(n - 1) PROVE Front(s)[i] = s[i]
    <2>1. i \in 1..(n - 1 - 1 + 1) /\ 1 + i - 1 = i
      BY <1>3
    <2> QED BY <1>3, <2>1
  <1> QED BY <1>0, <1>2, <1>4, <1>5 DEF n

LEMMA FrontOfAppend ==
  ASSUME NEW S, NEW s \in Seq(S), NEW e \in S
  PROVE  Append(s, e) \in Seq(S) /\ Append(s, e) # <<>> /\ Front(Append(s, e)) = s
  <1> DEFINE t == Append(s, e)
  <1>1. /\ t \in Seq(S) /\ t # <<>> /\ Len(t) = Len(s) + 1 /\ Len(s) \in Nat
        /\ \A i \in 1..Len(s) : t[i] = s[i]
    BY AppendProperties, LenProperties
  <1> HIDE DEF t
  <1>2. Front(t) \in Seq(S) /\ Len(Front(t)) = Len(s) /\ \A i \in 1..Len(s) : Front(t)[i] = s[i]
    BY <1>1, FrontElements
  <1>3. Front(t) = s
    BY <1>2, SeqEqual
  <1> QED BY <1>1, <1>3 DEF t

(* What begins with s, and is more than s, does so without its last element. *)
LEMMA PrefixFront ==
  ASSUME NEW S, NEW s \in Seq(S), NEW t \in Seq(S)
  PROVE  /\ IsPrefix(s, s) /\ (IsPrefix(s, t) => Len(s) <= Len(t))
         /\ IsPrefix(s, t) /\ s # t => t # <<>> /\ IsPrefix(s, Front(t)) /\ Len(s) < Len(t)
         /\ IsPrefix(s, t) /\ s # <<>> => t # <<>>
         /\ \A u \in Seq(S) : IsPrefix(s, t) /\ IsPrefix(t, u) => IsPrefix(s, u)
         /\ t # <<>> /\ IsPrefix(s, Front(t)) => IsPrefix(s, t)
  <1>0. Len(s) \in Nat /\ Len(t) \in Nat
    BY LenProperties
  <1>1. IsPrefix(s, s)
    BY <1>0, PrefixElements
  <1>2. IsPrefix(s, t) => Len(s) <= Len(t)
    BY PrefixElements
  <1>3. ASSUME IsPrefix(s, t), s # t
        PROVE  t # <<>> /\ IsPrefix(s, Front(t)) /\ Len(s) < Len(t)
    <2>1. Len(s) <= Len(t) /\ \A i \in 1..Len(s) : s[i] = t[i]
      BY <1>3, PrefixElements
    <2>2. Len(s) # Len(t)
      BY <1>3, <2>1, SeqEqual
    <2>3. Len(s) < Len(t) /\ t # <<>>
      BY <1>0, <2>1, <2>2, EmptySeq
    <2>4. Front(t) \in Seq(S) /\ Len(Front(t)) = Len(t) - 1
          /\ \A i \in 1..(Len(t) - 1) : Front(t)[i] = t[i]
      BY <2>3, FrontElements
    <2>5. Len(s) <= Len(Front(t)) /\ \A i \in 1..Len(s) : s[i] = Front(t)[i]
      BY <1>0, <2>1, <2>3, <2>4
    <2> QED BY <2>3, <2>4, <2>5, PrefixElements
  <1>4. ASSUME IsPrefix(s, t), s # <<>> PROVE t # <<>>
    <2>1. Len(s) > 0 /\ Len(s) <= Len(t)
      BY <1>2, <1>4, EmptySeq
    <2> QED BY <1>0, <2>1, EmptySeq
  <1>5. ASSUME NEW u \in Seq(S), IsPrefix(s, t), IsPrefix(t, u) PROVE IsPrefix(s, u)
    <2>1. Len(s) <= Len(t) /\ \A i \in 1..Len(s) : s[i] = t[i]
      BY <1>5, PrefixElements
    <2>2. Len(t) <= Len(u) /\ \A i \in 1..Len(t) : t[i] = u[i]
      BY <1>5, PrefixElements
    <2>3. Len(u) \in Nat
      BY LenProperties
    <2>4. Len(s) <= Len(u) /\ \A i \in 1..Len(s) : s[i] = u[i]
      BY <1>0, <2>1, <2>2, <2>3
    <2> QED BY <2>4, PrefixElements
  <1>6. ASSUME t # <<>>, IsPrefix(s, Front(t)) PROVE IsPrefix(s, t)
    <2>1. Front(t) \in Seq(S) /\ Len(Front(t)) = Len(t) - 1
          /\ \A i \in 1..(Len(t) - 1) : Front(t)[i] = t[i]
      BY <1>6, FrontElements
    <2>2. Len(s) <= Len(Front(t)) /\ \A i \in 1..Len(s) : s[i] = Front(t)[i]
      BY <1>6, <2>1, PrefixElements
    <2>3. Len(s) <= Len(t) /\ \A i \in 1..Len(s) : s[i] = t[i]
      BY <1>0, <2>1, <2>2
    <2> QED BY <2>3, PrefixElements
  <1> QED BY <1>1, <1>2, <1>3, <1>4, <1>5, <1>6

(* What began with s begins with p instead. *)
Swap(p, s, t) == p \o SubSeq(t, Len(s) + 1, Len(t))

Swapped(S, p, s, t, w) ==
  /\ w \in Seq(S) /\ Len(w) = Len(p) + Len(t) - Len(s) /\ Len(w) >= Len(p)
  /\ \A i \in 1..Len(p) : w[i] = p[i]
  /\ \A i \in (Len(s) + 1)..Len(t) : w[Len(p) + i - Len(s)] = t[i]
  /\ IsPrefix(p, w)

LEMMA SwapElements ==
  ASSUME NEW S, NEW p \in Seq(S), NEW s \in Seq(S), NEW t \in Seq(S), IsPrefix(s, t)
  PROVE  Swapped(S, p, s, t, Swap(p, s, t))
  <1>0. Len(s) \in Nat /\ Len(t) \in Nat /\ Len(p) \in Nat /\ Len(s) <= Len(t)
    BY PrefixElements, LenProperties
  <1> DEFINE u == SubSeq(t, Len(s) + 1, Len(t))
  <1>1. \A i \in (Len(s) + 1)..Len(t) : t[i] \in S
    <2> TAKE i \in (Len(s) + 1)..Len(t)
    <2>1. i \in 1..Len(t)
      BY <1>0
    <2> QED BY <2>1, ElementOfSeq
  <1>2. Len(s) + 1 \in Int /\ Len(t) \in Int
    BY <1>0
  <1>3. /\ u \in Seq(S)
        /\ Len(u) = IF Len(s) + 1 <= Len(t) THEN Len(t) - (Len(s) + 1) + 1 ELSE 0
        /\ \A i \in 1..(Len(t) - (Len(s) + 1) + 1) : u[i] = t[Len(s) + 1 + i - 1]
    BY <1>1, <1>2, SubSeqProperties
  <1> HIDE DEF u
  <1>4. Len(u) = Len(t) - Len(s)
    BY <1>0, <1>3
  <1>5. \A i \in 1..(Len(t) - Len(s)) : u[i] = t[Len(s) + i]
    BY <1>0, <1>3
  <1>6. p \o u \in Seq(S) /\ Len(p \o u) = Len(p) + Len(u)
        /\ \A i \in 1..(Len(p) + Len(u)) : (p \o u)[i] = IF i <= Len(p) THEN p[i] ELSE u[i - Len(p)]
    BY <1>3, ConcatProperties
  <1> DEFINE w == p \o u
  <1>7. w \in Seq(S) /\ Len(w) = Len(p) + Len(t) - Len(s) /\ Len(w) >= Len(p)
    BY <1>0, <1>4, <1>6
  <1>8. \A i \in 1..Len(p) : w[i] = p[i]
    BY <1>0, <1>4, <1>6
  <1>9. ASSUME NEW i \in (Len(s) + 1)..Len(t) PROVE w[Len(p) + i - Len(s)] = t[i]
    <2>1. /\ Len(p) + i - Len(s) \in 1..(Len(p) + Len(u)) /\ ~(Len(p) + i - Len(s) <= Len(p))
          /\ Len(p) + i - Len(s) - Len(p) = i - Len(s) /\ i - Len(s) \in 1..(Len(t) - Len(s))
          /\ Len(s) + (i - Len(s)) = i
      BY <1>0, <1>4
    <2>2. w[Len(p) + i - Len(s)] = u[i - Len(s)]
      BY <1>6, <2>1
    <2> QED BY <1>5, <2>1, <2>2
  <1>10. w = Swap(p, s, t)
    BY DEF Swap, u
  <1> HIDE DEF w
  <1>11. IsPrefix(p, w)
    BY <1>7, <1>8, PrefixElements
  <1> QED BY <1>7, <1>8, <1>9, <1>10, <1>11 DEF Swapped

LEMMA SwapSelf ==
  ASSUME NEW S, NEW p \in Seq(S), NEW s \in Seq(S)
  PROVE  Swap(p, s, s) = p
  <1>1. Len(s) \in Nat /\ Len(p) \in Nat /\ IsPrefix(s, s)
    BY LenProperties, PrefixFront
  <1>2. /\ Swap(p, s, s) \in Seq(S) /\ Len(Swap(p, s, s)) = Len(p) + Len(s) - Len(s)
        /\ \A i \in 1..Len(p) : Swap(p, s, s)[i] = p[i]
    <2>1. Swapped(S, p, s, s, Swap(p, s, s))
      BY <1>1, SwapElements
    <2> QED BY <2>1 DEF Swapped
  <1>3. Len(Swap(p, s, s)) = Len(p)
    BY <1>1, <1>2
  <1> QED BY <1>2, <1>3, SeqEqual

LEMMA SwapInjective ==
  ASSUME NEW S, NEW p \in Seq(S), NEW s \in Seq(S), NEW t \in Seq(S), NEW u \in Seq(S),
         IsPrefix(s, t), IsPrefix(s, u), Swap(p, s, t) = Swap(p, s, u)
  PROVE  t = u
  <1>0. Len(s) \in Nat /\ Len(t) \in Nat /\ Len(p) \in Nat /\ Len(u) \in Nat
    BY LenProperties
  <1>1. Len(s) <= Len(t) /\ \A i \in 1..Len(s) : s[i] = t[i]
    BY PrefixElements
  <1>2. Len(s) <= Len(u) /\ \A i \in 1..Len(s) : s[i] = u[i]
    BY PrefixElements
  <1>3. /\ Len(Swap(p, s, t)) = Len(p) + Len(t) - Len(s)
        /\ \A i \in (Len(s) + 1)..Len(t) : Swap(p, s, t)[Len(p) + i - Len(s)] = t[i]
    <2>1. Swapped(S, p, s, t, Swap(p, s, t))
      BY SwapElements
    <2> QED BY <2>1 DEF Swapped
  <1>4. /\ Len(Swap(p, s, u)) = Len(p) + Len(u) - Len(s)
        /\ \A i \in (Len(s) + 1)..Len(u) : Swap(p, s, u)[Len(p) + i - Len(s)] = u[i]
    <2>1. Swapped(S, p, s, u, Swap(p, s, u))
      BY SwapElements
    <2> QED BY <2>1 DEF Swapped
  <1>5. Len(t) = Len(u)
    BY <1>0, <1>3, <1>4
  <1>6. ASSUME NEW i \in 1..Len(t) PROVE t[i] = u[i]
    <2>1. CASE i <= Len(s)
      BY <1>0, <1>1, <1>2, <2>1
    <2>2. CASE ~(i <= Len(s))
      <3>1. i \in (Len(s) + 1)..Len(t) /\ i \in (Len(s) + 1)..Len(u)
        BY <1>0, <1>5, <2>2
      <3> QED BY <1>3, <1>4, <3>1
    <2> QED BY <2>1, <2>2
  <1> QED BY <1>5, <1>6, SeqEqual

LEMMA FrontOfSwap ==
  ASSUME NEW S, NEW p \in Seq(S), NEW s \in Seq(S), NEW t \in Seq(S), IsPrefix(s, t), s # t,
         p # <<>>
  PROVE  Swap(p, s, t) # <<>> /\ Front(Swap(p, s, t)) = Swap(p, s, Front(t))
  <1> DEFINE w == Swap(p, s, t)
             f == Front(t)
             v == Swap(p, s, f)
  <1>0. Len(s) \in Nat /\ Len(t) \in Nat /\ Len(p) \in Nat /\ Len(p) > 0 /\ Len(s) < Len(t)
        /\ t # <<>> /\ IsPrefix(s, f)
    BY LenProperties, EmptySeq, PrefixFront
  <1>1. /\ w \in Seq(S) /\ Len(w) = Len(p) + Len(t) - Len(s)
        /\ \A i \in 1..Len(p) : w[i] = p[i]
        /\ \A i \in (Len(s) + 1)..Len(t) : w[Len(p) + i - Len(s)] = t[i]
    <2>1. Swapped(S, p, s, t, Swap(p, s, t))
      BY SwapElements
    <2> QED BY <2>1 DEF Swapped
  <1>2. f \in Seq(S) /\ Len(f) = Len(t) - 1 /\ \A i \in 1..(Len(t) - 1) : f[i] = t[i]
    BY <1>0, FrontElements
  <1> HIDE DEF w, f
  <1>3. /\ v \in Seq(S) /\ Len(v) = Len(p) + Len(f) - Len(s)
        /\ \A i \in 1..Len(p) : v[i] = p[i]
        /\ \A i \in (Len(s) + 1)..Len(f) : v[Len(p) + i - Len(s)] = f[i]
    <2>1. Swapped(S, p, s, f, Swap(p, s, f))
      BY <1>0, <1>2, SwapElements
    <2> QED BY <2>1 DEF Swapped
  <1> HIDE DEF v
  <1>4. w # <<>>
    <2>1. Len(w) > 0
      BY <1>0, <1>1
    <2> QED BY <2>1, EmptySeq
  <1>5. Front(w) \in Seq(S) /\ Len(Front(w)) = Len(w) - 1
        /\ \A i \in 1..(Len(w) - 1) : Front(w)[i] = w[i]
    BY <1>1, <1>4, FrontElements
  <1>6. Len(Front(w)) = Len(v)
    BY <1>0, <1>1, <1>2, <1>3, <1>5
  <1>7. ASSUME NEW i \in 1..Len(Front(w)) PROVE Front(w)[i] = v[i]
    <2>1. CASE i <= Len(p)
      <3>1. i \in 1..Len(p) /\ i \in 1..(Len(w) - 1)
        BY <1>0, <1>1, <1>5, <2>1
      <3> QED BY <1>1, <1>3, <1>5, <3>1
    <2>2. CASE ~(i <= Len(p))
      <3> DEFINE j == i - Len(p) + Len(s)
      <3>1. /\ j \in (Len(s) + 1)..Len(t) /\ j \in (Len(s) + 1)..Len(f) /\ j \in 1..(Len(t) - 1)
            /\ Len(p) + j - Len(s) = i /\ i \in 1..(Len(w) - 1)
        BY <1>0, <1>1, <1>2, <1>5, <2>2
      <3> HIDE DEF j
      <3>2. w[i] = t[j] /\ v[i] = f[j] /\ f[j] = t[j] /\ Front(w)[i] = w[i]
        BY <1>1, <1>2, <1>3, <1>5, <3>1
      <3> QED BY <3>2
    <2> QED BY <2>1, <2>2
  <1>8. Front(w) = v
    BY <1>3, <1>5, <1>6, <1>7, SeqEqual
  <1> QED BY <1>4, <1>8 DEF w, v, f
-----------------------------------------------------------------------------
TreeInv == CategoryTypeOK /\ TreeAgrees

(* PathOf, of any tree. *)
PathIn(t, c) == IF c = None THEN <<>> ELSE t[c].path

LEMMA CategoryShapes ==
  ASSUME CategoryTypeOK
  PROVE  /\ None \notin CategoryId /\ LiveCategory \subseteq Rows /\ Rows \subseteq CategoryId
         /\ PathOf(None) = <<>> /\ <<>> \in Seq(AnySegment)
         /\ \A c \in Rows : /\ tree[c] \in CategoryRow /\ tree[c].path \in Seq(AnySegment)
                            /\ PathOf(c) = tree[c].path /\ c # None
                            /\ tree[c].parent \in Rows \cup {None}
                            /\ PathOf(tree[c].parent) \in Seq(AnySegment)
         /\ \A r \in CategoryRow : r # NoCategory
  <1>1. None \notin CategoryId /\ Rows \subseteq CategoryId
    BY CategoryAssumption DEF Rows
  <1>2. LiveCategory \subseteq Rows
    BY DEF LiveCategory, Rows, NoCategory
  <1>3. PathOf(None) = <<>> /\ <<>> \in Seq(AnySegment)
    BY EmptySeq DEF PathOf
  <1>4. ASSUME NEW r \in CategoryRow PROVE r # NoCategory
    <2>1. r.at # "none"
      BY DEF CategoryRow
    <2> QED BY <2>1 DEF NoCategory
  <1>5. ASSUME NEW c \in Rows
        PROVE  /\ tree[c] \in CategoryRow /\ tree[c].path \in Seq(AnySegment)
               /\ PathOf(c) = tree[c].path /\ c # None /\ tree[c].parent \in Rows \cup {None}
    <2>1. tree[c] \in CategoryRow
      BY DEF CategoryTypeOK, CategoryRow, Rows
    <2>2. tree[c].path \in Seq(AnySegment)
      BY <2>1 DEF CategoryRow
    <2>3. c # None
      BY <1>1
    <2>4. tree[c].parent \in Rows \cup {None}
      BY DEF CategoryTypeOK
    <2> QED BY <2>1, <2>2, <2>3, <2>4 DEF PathOf
  <1>6. ASSUME NEW c \in Rows PROVE PathOf(tree[c].parent) \in Seq(AnySegment)
    <2>1. CASE tree[c].parent = None
      BY <1>3, <2>1
    <2>2. CASE tree[c].parent \in Rows
      BY <1>5, <2>2
    <2> QED BY <1>5, <2>1, <2>2
  <1> QED BY <1>1, <1>2, <1>3, <1>4, <1>5, <1>6

LEMMA SmallestNat ==
  ASSUME NEW T \in SUBSET Nat, T # {}
  PROVE  \E x \in T : \A y \in T : x <= y
  <1> DEFINE R == OpToRel(<, Nat)
  <1>1. \E x \in T : \A y \in T : ~(<<y, x>> \in R)
    <2>1. IsWellFoundedOn(R, Nat)
      BY NatLessThanWellFounded
    <2> HIDE DEF R
    <2> QED BY <2>1, WFMin
  <1>2. \A x, y \in Nat : <<y, x>> \in R <=> y < x
    BY DEF OpToRel
  <1> HIDE DEF R
  <1>3. PICK x \in T : \A y \in T : ~(<<y, x>> \in R)
    BY <1>1
  <1>4. \A y \in T : x \in Nat /\ y \in Nat /\ ~(y < x)
    BY <1>2, <1>3
  <1>5. \A y \in T : x <= y
    BY <1>4
  <1> QED BY <1>5

(* Whatever a path begins with is the path of a category itself. *)
LEMMA Ancestors ==
  ASSUME TreeInv, NEW e \in Rows, NEW q \in Seq(AnySegment), q # <<>>,
         IsPrefix(q, tree[e].path)
  PROVE  \E f \in Rows : tree[f].path = q
  <1> DEFINE D == {d \in Rows : IsPrefix(q, tree[d].path)}
             T == {Len(tree[d].path) : d \in D}
  <1>1. CategoryTypeOK /\ \A d \in Rows : tree[d].path \in Seq(AnySegment)
    BY CategoryShapes DEF TreeInv
  <1>2. T \in SUBSET Nat /\ T # {}
    BY <1>1, LenProperties
  <1>3. PICK n \in T : \A m \in T : n <= m
    <2> HIDE DEF T
    <2> QED BY <1>2, SmallestNat
  <1>4. PICK d \in D : Len(tree[d].path) = n
    OBVIOUS
  <1>5. SUFFICES ASSUME tree[d].path # q PROVE FALSE
    BY <1>4
  <1>6. IsPrefix(q, Front(tree[d].path)) /\ tree[d].path # <<>>
    BY <1>1, <1>4, <1>5, PrefixFront
  <1>7. Front(tree[d].path) = PathOf(tree[d].parent) /\ tree[d].parent \in Rows \cup {None}
    BY <1>1, <1>4, CategoryShapes DEF TreeInv, TreeAgrees
  <1>8. tree[d].parent # None
    <2>1. PathOf(None) = <<>> /\ <<>> \in Seq(AnySegment)
      BY <1>1, CategoryShapes
    <2>2. ~IsPrefix(q, <<>>)
      BY <2>1, PrefixFront
    <2> QED BY <1>6, <1>7, <2>1, <2>2
  <1> DEFINE b == tree[d].parent
  <1>9. b \in D /\ tree[b].path = Front(tree[d].path)
    BY <1>1, <1>6, <1>7, <1>8, CategoryShapes
  <1>10. Len(Front(tree[d].path)) = Len(tree[d].path) - 1 /\ Len(tree[d].path) \in Nat \ {0}
    BY <1>1, <1>4, <1>6, FrontElements
  <1>11. Len(tree[b].path) \in T
    BY <1>9
  <1> HIDE DEF T, b
  <1>12. n <= Len(tree[b].path)
    BY <1>3, <1>11
  <1> QED BY <1>4, <1>9, <1>10, <1>12

(* When a category gets another path, so do those below it, and nothing else
   changes about how paths go together. *)
LEMMA Rebases ==
  ASSUME TreeInv, NEW c \in Rows, NEW parent \in Rows \cup {None},
         NEW path \in Seq(AnySegment), path # <<>>, Front(path) = PathOf(parent),
         ~Taken(path, c), NoCycle(c, parent)
  PROVE  /\ Rebased(c, c, path) = path
         /\ \A d \in Rows : Rebased(c, d, path) \in Seq(AnySegment) /\ Rebased(c, d, path) # <<>>
         /\ \A d \in Rows \ {c} : Front(Rebased(c, d, path)) =
              IF tree[d].parent = None THEN <<>> ELSE Rebased(c, tree[d].parent, path)
         /\ parent # None => Rebased(c, parent, path) = PathOf(parent)
         /\ \A d, e \in Rows : Rebased(c, d, path) = Rebased(c, e, path) => d = e
  <1> DEFINE S == AnySegment
             old == tree[c].path
             P(d) == tree[d].path
             N(d) == Rebased(c, d, path)
             Moves(d) == IsPrefix(old, P(d))
  <1>1. /\ \A d \in Rows : /\ P(d) \in Seq(S) /\ P(d) # <<>> /\ d # None /\ PathOf(d) = P(d)
                           /\ Front(P(d)) = PathOf(tree[d].parent)
                           /\ tree[d].parent \in Rows \cup {None}
        /\ \A d, e \in Rows : P(d) = P(e) => d = e
        /\ PathOf(None) = <<>> /\ <<>> \in Seq(S) /\ CategoryTypeOK
    BY CategoryShapes DEF TreeInv, TreeAgrees, Taken
  <1>2. \A d \in Rows : N(d) = IF Moves(d) THEN Swap(path, old, P(d)) ELSE P(d)
    BY DEF Rebased, Below, Swap
  <1>3. old \in Seq(S) /\ old # <<>> /\ ~IsPrefix(old, <<>>)
    <2>1. old \in Seq(S) /\ old # <<>>
      BY <1>1
    <2> QED BY <1>1, <2>1, PrefixFront
  <1>4. N(c) = path /\ Moves(c)
    <2>1. Moves(c)
      BY <1>3, PrefixFront
    <2>2. Swap(path, old, old) = path
      BY <1>3, SwapSelf
    <2> QED BY <1>2, <2>1, <2>2
  <1>5. ASSUME NEW d \in Rows PROVE N(d) \in Seq(S) /\ N(d) # <<>>
    <2>1. CASE Moves(d)
      <3>1. Swapped(S, path, old, P(d), Swap(path, old, P(d)))
        BY <1>1, <1>3, <2>1, SwapElements
      <3>2. N(d) \in Seq(S) /\ IsPrefix(path, N(d))
        BY <1>2, <2>1, <3>1 DEF Swapped
      <3> HIDE DEF N
      <3>3. N(d) # <<>>
        BY <3>2, PrefixFront
      <3> QED BY <3>2, <3>3
    <2>2. CASE ~Moves(d)
      BY <1>1, <1>2, <2>2
    <2> QED BY <2>1, <2>2
  <1>6. ASSUME NEW d \in Rows, d # c
        PROVE  Front(N(d)) = IF tree[d].parent = None THEN <<>> ELSE N(tree[d].parent)
    <2> DEFINE b == tree[d].parent
    <2>1. P(d) \in Seq(S) /\ P(d) # <<>> /\ Front(P(d)) = PathOf(b) /\ b \in Rows \cup {None}
      BY <1>1
    <2>2. Front(P(d)) \in Seq(S)
      BY <2>1, FrontElements
    <2>3. CASE Moves(d)
      <3>1. P(d) # old
        BY <1>1, <1>6
      <3>2. IsPrefix(old, Front(P(d)))
        BY <1>3, <2>1, <2>3, <3>1, PrefixFront
      <3>3. b # None
        BY <1>1, <1>3, <2>1, <3>2
      <3>4. b \in Rows /\ P(b) = Front(P(d)) /\ Moves(b)
        BY <1>1, <2>1, <3>2, <3>3
      <3>5. Front(Swap(path, old, P(d))) = Swap(path, old, Front(P(d)))
        BY <1>3, <2>1, <2>3, <3>1, FrontOfSwap
      <3>6. N(d) = Swap(path, old, P(d)) /\ N(b) = Swap(path, old, P(b))
        BY <1>2, <2>3, <3>4
      <3> HIDE DEF N, P, Moves
      <3> QED BY <3>3, <3>4, <3>5, <3>6
    <2>4. CASE ~Moves(d)
      <3>1. ~IsPrefix(old, Front(P(d)))
        BY <1>3, <2>1, <2>4, PrefixFront
      <3>2. CASE b = None
        BY <1>1, <1>2, <2>1, <2>4, <3>2
      <3>3. CASE b # None
        <4>1. b \in Rows /\ P(b) = Front(P(d)) /\ ~Moves(b)
          BY <1>1, <2>1, <3>1, <3>3
        <4>2. N(d) = P(d) /\ N(b) = P(b)
          BY <1>2, <2>4, <4>1
        <4> HIDE DEF N, P, Moves
        <4> QED BY <3>3, <4>1, <4>2
      <3> QED BY <3>2, <3>3
    <2> QED BY <2>3, <2>4
  <1>7. ASSUME parent # None PROVE N(parent) = PathOf(parent)
    <2>1. parent \in Rows /\ ~Moves(parent) /\ PathOf(parent) = P(parent)
      BY <1>1, <1>7 DEF NoCycle, Below
    <2> QED BY <1>2, <2>1
  <1>8. ASSUME NEW d \in Rows, NEW e \in Rows, Moves(d), ~Moves(e) PROVE N(d) # N(e)
    <2> SUFFICES ASSUME N(d) = N(e) PROVE FALSE
      OBVIOUS
    <2>1. Swapped(S, path, old, P(d), Swap(path, old, P(d)))
      BY <1>1, <1>3, <1>8, SwapElements
    <2>2. N(d) = Swap(path, old, P(d)) /\ N(e) = P(e)
      BY <1>2, <1>8
    <2>3. IsPrefix(path, P(e))
      <3> HIDE DEF N, P
      <3> QED BY <2>1, <2>2 DEF Swapped
    <2>4. PICK f \in Rows : tree[f].path = path
      BY <2>3, Ancestors
    <2>5. f = c
      BY <2>4 DEF Taken
    <2> QED BY <1>8, <2>3, <2>4, <2>5
  <1>9. ASSUME NEW d \in Rows, NEW e \in Rows, N(d) = N(e) PROVE d = e
    <2>1. Moves(d) <=> Moves(e)
      BY <1>8, <1>9
    <2>2. CASE Moves(d)
      <3>1. N(d) = Swap(path, old, P(d)) /\ N(e) = Swap(path, old, P(e)) /\ Moves(e)
        BY <1>2, <2>1, <2>2
      <3>2. P(d) = P(e)
        <4>1. Swap(path, old, P(d)) = Swap(path, old, P(e)) /\ P(d) \in Seq(S) /\ P(e) \in Seq(S)
          BY <1>1, <1>9, <3>1
        <4> QED BY <1>3, <2>2, <3>1, <4>1, SwapInjective
      <3> QED BY <1>1, <3>2
    <2>3. CASE ~Moves(d)
      BY <1>1, <1>2, <1>9, <2>1, <2>3
    <2> QED BY <2>2, <2>3
  <1> HIDE DEF N, S
  <1> QED BY <1>4, <1>5, <1>6, <1>7, <1>9 DEF N, S
-----------------------------------------------------------------------------
(* A path that a category gets. *)
LEMMA PathsFit ==
  ASSUME CategoryTypeOK, NEW c, NEW parent \in Rows \cup {None}, NEW name, NEW label,
         NEW path \in Paths(c, parent, name, label)
  PROVE  /\ path \in Seq(AnySegment) /\ path # <<>> /\ Front(path) = PathOf(parent)
         /\ ~Taken(path, c)
  <1>1. PathOf(parent) \in Seq(AnySegment)
    BY CategoryShapes
  <1>2. PICK s \in AnySegment : path = Append(PathOf(parent), s)
    BY DEF Paths
  <1>3. ~Taken(path, c)
    BY DEF Paths, SetsPath
  <1> QED BY <1>1, <1>2, <1>3, FrontOfAppend

LEMMA TreeInitInv == CategoryInit => TreeInv
  BY DEF CategoryInit, TreeInv, CategoryTypeOK, TreeAgrees, Rows, LiveCategory, NoCategory

LEMMA CreateInv ==
  ASSUME TreeInv, NEW c \in CategoryId, NEW name \in Name, NEW parent \in CategoryId \cup {None},
         NEW label \in Chosen \cup {None}, CreateCategory(c, name, parent, label)
  PROVE  TreeInv'
  <1>1. c \notin Rows /\ (parent = None \/ parent \in LiveCategory) /\ CategoryTypeOK
    BY DEF CreateCategory, MayBeParent, TreeInv
  <1>2. parent \in Rows \cup {None} /\ parent # c
    BY <1>1, CategoryShapes
  <1>3. PICK path \in Paths(c, parent, name, label) :
          tree' = [tree EXCEPT ![c] = [at |-> "live", name |-> name, parent |-> parent,
                                       label |-> label, path |-> path]]
    BY DEF CreateCategory
  <1>4. /\ path \in Seq(AnySegment) /\ path # <<>> /\ Front(path) = PathOf(parent)
        /\ ~Taken(path, c)
    BY <1>1, <1>2, <1>3, PathsFit
  <1> DEFINE row == [at |-> "live", name |-> name, parent |-> parent, label |-> label,
                     path |-> path]
  <1>5. row \in CategoryRow /\ row # NoCategory /\ row.at = "live"
    <2>1. row \in CategoryRow
      BY <1>4 DEF CategoryRow
    <2> QED BY <1>1, <2>1, CategoryShapes
  <1>6. tree \in [CategoryId -> {NoCategory} \cup CategoryRow]
    BY <1>1 DEF CategoryTypeOK, CategoryRow
  <1>7. tree'[c] = row /\ \A d \in CategoryId \ {c} : tree'[d] = tree[d]
    BY <1>3, <1>6
  <1>8. tree' \in [CategoryId -> {NoCategory} \cup CategoryRow]
    BY <1>3, <1>5, <1>6
  <1>9. Rows' = Rows \cup {c} /\ LiveCategory' = LiveCategory \cup {c}
    BY <1>5, <1>7 DEF Rows, LiveCategory
  <1>10. \A d \in Rows : tree'[d] = tree[d] /\ d # c
    BY <1>1, <1>7, CategoryShapes
  <1>11. \A p \in Rows \cup {None} : PathIn(tree', p) = PathOf(p)
    BY <1>10 DEF PathOf, PathIn
  <1>12. CategoryTypeOK'
    <2>1. \A d \in Rows' : tree'[d].parent \in Rows' \cup {None}
      BY <1>1, <1>2, <1>7, <1>9, <1>10 DEF CategoryTypeOK
    <2> QED BY <1>8, <2>1 DEF CategoryTypeOK, CategoryRow, AnySegment
  <1>13. ASSUME NEW d \in Rows'
         PROVE  tree'[d].path # <<>> /\ Front(tree'[d].path) = PathIn(tree', tree'[d].parent)
    <2>1. CASE d = c
      <3>1. tree'[d].path = path /\ tree'[d].parent = parent
        BY <1>7, <2>1
      <3>2. PathIn(tree', parent) = PathOf(parent)
        BY <1>2, <1>11
      <3> QED BY <1>4, <3>1, <3>2
    <2>2. CASE d \in Rows
      <3>1. /\ tree[d].path # <<>> /\ Front(tree[d].path) = PathOf(tree[d].parent)
            /\ tree[d].parent \in Rows \cup {None}
        BY <1>1, <2>2, CategoryShapes DEF TreeInv, TreeAgrees
      <3>2. PathIn(tree', tree[d].parent) = PathOf(tree[d].parent) /\ tree'[d] = tree[d]
        BY <1>10, <1>11, <2>2, <3>1
      <3> QED BY <3>1, <3>2
    <2> QED BY <1>9, <2>1, <2>2
  <1>14. ASSUME NEW d \in Rows', NEW e \in Rows', d # e PROVE tree'[e].path # tree'[d].path
    <2>1. \A b \in Rows : tree[b].path # path
      BY <1>1, <1>4 DEF Taken
    <2>2. tree'[c].path = path
      BY <1>7
    <2>3. CASE d = c
      BY <1>9, <1>10, <1>14, <2>1, <2>2, <2>3
    <2>4. CASE e = c
      BY <1>9, <1>10, <1>14, <2>1, <2>2, <2>4
    <2>5. CASE d # c /\ e # c
      <3>1. d \in Rows /\ e \in Rows \ {d}
        BY <1>9, <1>14, <2>5
      <3>2. tree[e].path # tree[d].path
        BY <3>1 DEF TreeInv, TreeAgrees, Taken
      <3> QED BY <1>10, <3>1, <3>2
    <2> QED BY <2>3, <2>4, <2>5
  <1>15. \A d \in LiveCategory' : tree'[d].parent # None => tree'[d].parent \in LiveCategory'
    <2>1. ASSUME NEW d \in LiveCategory, tree'[d].parent # None
          PROVE  tree'[d].parent \in LiveCategory
      BY <1>1, <1>10, <2>1, CategoryShapes DEF TreeInv, TreeAgrees
    <2>2. tree'[c].parent # None => tree'[c].parent \in LiveCategory
      BY <1>1, <1>7
    <2> QED BY <1>9, <2>1, <2>2
  <1>16. \A d \in Rows' : PathOf(tree[d].parent)' = PathIn(tree', tree'[d].parent)
    BY DEF PathOf, PathIn
  <1> QED BY <1>12, <1>13, <1>14, <1>15, <1>16 DEF TreeInv, TreeAgrees, Taken

LEMMA UpdateInv ==
  ASSUME TreeInv, NEW c \in CategoryId, NEW name \in Name, NEW parent \in CategoryId \cup {None},
         NEW label \in Chosen \cup {None}, UpdateCategory(c, name, parent, label)
  PROVE  TreeInv'
  <1>1. /\ c \in Rows /\ NoCycle(c, parent) /\ CategoryTypeOK
        /\ parent = tree[c].parent \/ parent = None \/ parent \in LiveCategory
    BY DEF UpdateCategory, MayBeParent, TreeInv
  <1>2. parent \in Rows \cup {None}
    BY <1>1, CategoryShapes
  <1>3. PICK path \in Paths(c, parent, name, label) :
          tree' = [d \in CategoryId |->
            IF d = c THEN [tree[c] EXCEPT !.name = name, !.parent = parent, !.label = label,
                                          !.path = path]
            ELSE IF d \in Rows THEN [tree[d] EXCEPT !.path = Rebased(c, d, path)] ELSE tree[d]]
    BY DEF UpdateCategory
  <1>4. /\ path \in Seq(AnySegment) /\ path # <<>> /\ Front(path) = PathOf(parent)
        /\ ~Taken(path, c)
    BY <1>1, <1>2, <1>3, PathsFit
  <1> DEFINE N(d) == Rebased(c, d, path)
  <1>5. /\ N(c) = path
        /\ \A d \in Rows : N(d) \in Seq(AnySegment) /\ N(d) # <<>>
        /\ \A d \in Rows \ {c} : Front(N(d)) =
             IF tree[d].parent = None THEN <<>> ELSE N(tree[d].parent)
        /\ parent # None => N(parent) = PathOf(parent)
        /\ \A d, e \in Rows : N(d) = N(e) => d = e
    BY <1>1, <1>2, <1>4, Rebases
  <1> HIDE DEF N
  <1>6. /\ \A d \in Rows : /\ tree'[d] \in CategoryRow /\ tree'[d].at = tree[d].at
                           /\ tree'[d].path = N(d)
                           /\ tree'[d].parent = IF d = c THEN parent ELSE tree[d].parent
        /\ \A d \in CategoryId \ Rows : tree'[d] = tree[d]
    <2>1. \A d \in CategoryId \ Rows : tree'[d] = tree[d]
      BY <1>1, <1>3
    <2>2. ASSUME NEW d \in Rows
          PROVE  /\ tree'[d] \in CategoryRow /\ tree'[d].at = tree[d].at
                 /\ tree'[d].path = N(d)
                 /\ tree'[d].parent = IF d = c THEN parent ELSE tree[d].parent
      <3>1. tree[d] \in CategoryRow /\ d \in CategoryId
        BY <1>1, CategoryShapes
      <3>2. CASE d = c
        <4>1. tree'[d] = [tree[d] EXCEPT !.name = name, !.parent = parent, !.label = label,
                                         !.path = path]
          BY <1>3, <3>1, <3>2
        <4> QED BY <1>4, <1>5, <3>1, <3>2, <4>1 DEF CategoryRow
      <3>3. CASE d # c
        <4>1. tree'[d] = [tree[d] EXCEPT !.path = N(d)]
          BY <1>3, <3>1, <3>3 DEF N
        <4> QED BY <1>5, <3>1, <3>3, <4>1 DEF CategoryRow
      <3> QED BY <3>2, <3>3
    <2> QED BY <2>1, <2>2
  <1>7. Rows' = Rows /\ LiveCategory' = LiveCategory
    <2>1. \A d \in CategoryId : tree'[d] # NoCategory <=> d \in Rows
      BY <1>1, <1>6, CategoryShapes DEF Rows
    <2>2. \A d \in CategoryId : tree'[d].at = tree[d].at
      BY <1>6
    <2> QED BY <2>1, <2>2 DEF Rows, LiveCategory
  <1>8. CategoryTypeOK'
    <2>1. tree' \in [CategoryId -> {NoCategory} \cup CategoryRow]
      <3>1. \A d \in CategoryId : tree'[d] \in {NoCategory} \cup CategoryRow
        BY <1>6 DEF Rows
      <3> QED BY <1>3, <3>1
    <2>2. \A d \in Rows : tree'[d].parent \in Rows \cup {None}
      BY <1>1, <1>2, <1>6 DEF CategoryTypeOK
    <2> QED BY <1>7, <2>1, <2>2 DEF CategoryTypeOK, CategoryRow, AnySegment
  <1>9. ASSUME NEW p \in Rows \cup {None}
        PROVE  PathIn(tree', p) = IF p = None THEN <<>> ELSE N(p)
    BY <1>6 DEF PathIn
  <1>10. ASSUME NEW d \in Rows
         PROVE  tree'[d].path # <<>> /\ Front(tree'[d].path) = PathIn(tree', tree'[d].parent)
    <2> DEFINE b == tree'[d].parent
    <2>1. tree'[d].path = N(d) /\ N(d) # <<>> /\ b \in Rows \cup {None}
      BY <1>5, <1>6, <1>7, <1>8 DEF CategoryTypeOK
    <2>2. Front(N(d)) = IF b = None THEN <<>> ELSE N(b)
      <3>1. CASE d = c
        <4>1. b = parent /\ N(d) = path
          BY <1>5, <1>6, <3>1
        <4>2. PathOf(parent) = IF parent = None THEN <<>> ELSE N(parent)
          BY <1>1, <1>5, CategoryShapes
        <4> QED BY <1>4, <4>1, <4>2
      <3>2. CASE d # c
        BY <1>5, <1>6, <3>2
      <3> QED BY <3>1, <3>2
    <2> HIDE DEF b
    <2>3. PathIn(tree', b) = IF b = None THEN <<>> ELSE N(b)
      BY <1>9, <2>1
    <2>4. tree'[d].path # <<>> /\ Front(tree'[d].path) = PathIn(tree', b)
      BY <2>1, <2>2, <2>3
    <2> QED BY <2>4 DEF b
  <1>11. ASSUME NEW d \in Rows, NEW e \in Rows, d # e PROVE tree'[e].path # tree'[d].path
    BY <1>5, <1>6, <1>11
  <1>12. ASSUME NEW d \in LiveCategory, tree'[d].parent # None
         PROVE  tree'[d].parent \in LiveCategory
    <2>1. d \in Rows /\ (tree[d].parent # None => tree[d].parent \in LiveCategory)
      BY <1>1, CategoryShapes DEF TreeInv, TreeAgrees
    <2>2. tree'[d].parent = IF d = c THEN parent ELSE tree[d].parent
      BY <1>6, <2>1
    <2>3. CASE d = c
      BY <1>1, <1>12, <2>1, <2>2, <2>3
    <2>4. CASE d # c
      BY <1>12, <2>1, <2>2, <2>4
    <2> QED BY <2>3, <2>4
  <1>13. \A d \in Rows' : PathOf(tree[d].parent)' = PathIn(tree', tree'[d].parent)
    BY DEF PathOf, PathIn
  <1> QED BY <1>7, <1>8, <1>10, <1>11, <1>12, <1>13 DEF TreeInv, TreeAgrees, Taken

LEMMA ArchiveInv ==
  ASSUME TreeInv, NEW c \in CategoryId, ArchiveCategory(c)
  PROVE  TreeInv'
  <1>1. /\ c \in Rows /\ ~HasLiveBelow(c) /\ CategoryTypeOK
        /\ tree' = [tree EXCEPT ![c].at = "archived"]
    BY DEF ArchiveCategory, TreeInv
  <1>2. /\ \A d \in Rows : /\ tree'[d] \in CategoryRow /\ tree'[d].path = tree[d].path
                           /\ tree'[d].parent = tree[d].parent
                           /\ tree'[d].at = IF d = c THEN "archived" ELSE tree[d].at
        /\ \A d \in CategoryId \ Rows : tree'[d] = tree[d]
    <2>1. tree \in [CategoryId -> {NoCategory} \cup CategoryRow]
      BY <1>1 DEF CategoryTypeOK, CategoryRow
    <2>2. \A d \in Rows : tree[d] \in CategoryRow /\ d \in CategoryId
      BY <1>1, CategoryShapes
    <2> QED BY <1>1, <2>1, <2>2 DEF CategoryRow
  <1>3. Rows' = Rows /\ LiveCategory' = LiveCategory \ {c}
    <2>1. \A d \in CategoryId : tree'[d] # NoCategory <=> d \in Rows
      BY <1>1, <1>2, CategoryShapes DEF Rows
    <2>2. \A d \in CategoryId : tree'[d].at = IF d = c THEN "archived" ELSE tree[d].at
      BY <1>1, <1>2
    <2> QED BY <2>1, <2>2 DEF Rows, LiveCategory
  <1>4. CategoryTypeOK'
    <2>1. tree' \in [CategoryId -> {NoCategory} \cup CategoryRow]
      <3>1. \A d \in CategoryId : tree'[d] \in {NoCategory} \cup CategoryRow
        BY <1>2 DEF Rows
      <3>2. DOMAIN tree' = CategoryId /\ tree' = [d \in CategoryId |-> tree'[d]]
        BY <1>1 DEF CategoryTypeOK
      <3> QED BY <3>1, <3>2
    <2>2. \A d \in Rows : tree'[d].parent \in Rows \cup {None}
      BY <1>1, <1>2 DEF CategoryTypeOK
    <2> QED BY <1>3, <2>1, <2>2 DEF CategoryTypeOK, CategoryRow, AnySegment
  <1>5. ASSUME NEW d \in Rows
        PROVE  tree'[d].path # <<>> /\ Front(tree'[d].path) = PathIn(tree', tree'[d].parent)
    <2> DEFINE b == tree[d].parent
    <2>1. /\ tree[d].path # <<>> /\ Front(tree[d].path) = PathOf(b)
          /\ b \in Rows \cup {None} /\ tree'[d].parent = b /\ tree'[d].path = tree[d].path
      BY <1>1, <1>2, CategoryShapes DEF TreeInv, TreeAgrees
    <2>2. PathIn(tree', b) = PathOf(b)
      BY <1>2, <2>1 DEF PathOf, PathIn
    <2> QED BY <2>1, <2>2
  <1>6. ASSUME NEW d \in Rows, NEW e \in Rows \ {d} PROVE tree'[e].path # tree'[d].path
    <2>1. tree[e].path # tree[d].path
      BY DEF TreeInv, TreeAgrees, Taken
    <2> QED BY <1>2, <2>1
  <1>7. ASSUME NEW d \in LiveCategory \ {c}, tree[d].parent # None
        PROVE  tree[d].parent \in LiveCategory \ {c}
    <2>1. tree[d].parent \in LiveCategory
      BY <1>7 DEF TreeInv, TreeAgrees
    <2>2. tree[d].parent # c
      <3> SUFFICES ASSUME tree[d].parent = c PROVE FALSE
        OBVIOUS
      <3>1. d \in Rows /\ tree[d].path \in Seq(AnySegment) /\ tree[c].path \in Seq(AnySegment)
            /\ PathOf(c) = tree[c].path
        BY <1>1, CategoryShapes
      <3>2. tree[d].path # <<>> /\ Front(tree[d].path) = tree[c].path
        BY <3>1 DEF TreeInv, TreeAgrees
      <3>3. IsPrefix(tree[c].path, tree[c].path)
        BY <3>1, PrefixFront
      <3>4. IsPrefix(tree[c].path, tree[d].path)
        BY <3>1, <3>2, <3>3, PrefixFront
      <3> QED BY <1>1, <3>4 DEF HasLiveBelow, Below
    <2> QED BY <2>1, <2>2
  <1>8. \A d \in LiveCategory' : tree'[d].parent # None => tree'[d].parent \in LiveCategory'
    <2>1. \A d \in LiveCategory \ {c} : tree'[d].parent = tree[d].parent
      BY <1>1, <1>2, CategoryShapes
    <2> QED BY <1>3, <1>7, <2>1
  <1>9. \A d \in Rows' : PathOf(tree[d].parent)' = PathIn(tree', tree'[d].parent)
    BY DEF PathOf, PathIn
  <1> QED BY <1>3, <1>4, <1>5, <1>6, <1>8, <1>9 DEF TreeInv, TreeAgrees, Taken

LEMMA TreeNextInv == TreeInv /\ [CategoryNext]_tree => TreeInv'
  <1> SUFFICES ASSUME TreeInv, [CategoryNext]_tree PROVE TreeInv'
    OBVIOUS
  <1>1. ASSUME NEW c \in CategoryId, NEW name \in Name, NEW parent \in CategoryId \cup {None},
               NEW label \in Chosen \cup {None},
               CreateCategory(c, name, parent, label) \/ UpdateCategory(c, name, parent, label)
        PROVE  TreeInv'
    BY <1>1, CreateInv, UpdateInv
  <1>2. ASSUME NEW c \in CategoryId, ArchiveCategory(c) PROVE TreeInv'
    BY <1>2, ArchiveInv
  <1>3. CASE UNCHANGED tree
    BY <1>3 DEF TreeInv, CategoryTypeOK, TreeAgrees, Rows, LiveCategory, PathOf, Taken, AnySegment
  <1> QED BY <1>1, <1>2, <1>3 DEF CategoryNext

(* Rows of categories have their type, and their parents are rows. *)
THEOREM CategoryTypesCorrect == CategorySpec => []CategoryTypeOK
  <1>1. TreeInv => CategoryTypeOK
    BY DEF TreeInv
  <1> QED BY <1>1, TreeInitInv, TreeNextInv, PTL DEF CategorySpec

(***************************************************************************)
(* Whatever is created, renamed, relabelled, moved and deleted, in whichever *)
(* order: a path is the parent's with one segment more, no two are the same, *)
(* and a live category hangs on live ones only (BR-032, BR-034 to BR-036): *)
(* for any number of categories, names and segments.                       *)
(***************************************************************************)
THEOREM TreeAlwaysAgrees == CategorySpec => []TreeAgrees
  <1>1. TreeInv => TreeAgrees
    BY DEF TreeInv
  <1> QED BY <1>1, TreeInitInv, TreeNextInv, PTL DEF CategorySpec

(* What moves along keeps its last segment. *)
LEMMA LastOfSwap ==
  ASSUME NEW S, NEW p \in Seq(S), NEW s \in Seq(S), NEW t \in Seq(S), IsPrefix(s, t), s # t
  PROVE  Last(Swap(p, s, t)) = Last(t)
  <1>1. Swapped(S, p, s, t, Swap(p, s, t))
    BY SwapElements
  <1>2. Len(s) \in Nat /\ Len(t) \in Nat /\ Len(p) \in Nat /\ Len(s) < Len(t)
    BY LenProperties, PrefixFront
  <1>3. Len(t) \in (Len(s) + 1)..Len(t)
    BY <1>2
  <1>4. Swap(p, s, t)[Len(p) + Len(t) - Len(s)] = t[Len(t)]
    BY <1>1, <1>3 DEF Swapped
  <1>5. Len(Swap(p, s, t)) = Len(p) + Len(t) - Len(s)
    BY <1>1 DEF Swapped
  <1> QED BY <1>4, <1>5 DEF Last

(* A step on category c leaves the others where they are. *)
LEMMA OthersStayStep ==
  ASSUME TreeInv, NEW c \in CategoryId,
         \/ \E name \in Name, parent \in CategoryId \cup {None}, label \in Chosen \cup {None} :
              CreateCategory(c, name, parent, label) \/ UpdateCategory(c, name, parent, label)
         \/ ArchiveCategory(c),
         NEW d \in Rows \ {c}
  PROVE  /\ tree'[d].parent = tree[d].parent /\ tree'[d].at = tree[d].at
         /\ Last(tree'[d].path) = Last(tree[d].path)
         /\ tree'[d].path # tree[d].path => c \in Rows /\ Below(tree[d].path, tree[c].path)
  <1>0. CategoryTypeOK /\ d \in CategoryId /\ tree[d] \in CategoryRow
        /\ \A e \in Rows : tree[e].path \in Seq(AnySegment)
    BY CategoryShapes DEF TreeInv
  <1>1. CASE tree'[d] = tree[d]
    BY <1>1
  <1>2. ASSUME NEW name \in Name, NEW parent \in CategoryId \cup {None},
               NEW label \in Chosen \cup {None}, CreateCategory(c, name, parent, label)
        PROVE  tree'[d] = tree[d]
    BY <1>0, <1>2 DEF CreateCategory, CategoryTypeOK
  <1>3. ASSUME ArchiveCategory(c) PROVE tree'[d] = tree[d]
    BY <1>0, <1>3 DEF ArchiveCategory, CategoryTypeOK
  <1>4. ASSUME NEW name \in Name, NEW parent \in CategoryId \cup {None},
               NEW label \in Chosen \cup {None}, UpdateCategory(c, name, parent, label)
        PROVE  /\ tree'[d].parent = tree[d].parent /\ tree'[d].at = tree[d].at
               /\ Last(tree'[d].path) = Last(tree[d].path)
               /\ tree'[d].path # tree[d].path => c \in Rows /\ Below(tree[d].path, tree[c].path)
    <2>1. /\ c \in Rows /\ parent \in Rows \cup {None}
          /\ \E path \in Paths(c, parent, name, label) :
               tree'[d] = [tree[d] EXCEPT !.path = Rebased(c, d, path)]
      <3>1. c \in Rows /\ (parent = tree[c].parent \/ parent = None \/ parent \in LiveCategory)
        BY <1>4 DEF UpdateCategory, MayBeParent
      <3>2. parent \in Rows \cup {None}
        BY <1>0, <3>1, CategoryShapes
      <3> QED BY <1>0, <1>4, <3>1, <3>2 DEF UpdateCategory
    <2>2. PICK path \in Paths(c, parent, name, label) :
            tree'[d] = [tree[d] EXCEPT !.path = Rebased(c, d, path)]
      BY <2>1
    <2>3. path \in Seq(AnySegment)
      BY <1>0, <2>1, PathsFit
    <2>4. /\ tree'[d].parent = tree[d].parent /\ tree'[d].at = tree[d].at
          /\ tree'[d].path = Rebased(c, d, path)
      BY <1>0, <2>2 DEF CategoryRow
    <2>5. CASE Below(tree[d].path, tree[c].path)
      <3>1. tree'[d].path = Swap(path, tree[c].path, tree[d].path)
        BY <2>4, <2>5 DEF Rebased, Swap
      <3>2. tree[c].path # tree[d].path
        BY <2>1 DEF TreeInv, TreeAgrees, Taken
      <3>3. Last(Swap(path, tree[c].path, tree[d].path)) = Last(tree[d].path)
        BY <1>0, <2>1, <2>3, <2>5, <3>2, LastOfSwap DEF Below
      <3> QED BY <2>1, <2>4, <2>5, <3>1, <3>3
    <2>6. CASE ~Below(tree[d].path, tree[c].path)
      BY <2>4, <2>6 DEF Rebased
    <2> QED BY <2>5, <2>6
  <1> QED BY <1>1, <1>2, <1>3, <1>4

(***************************************************************************)
(* A move takes along what lies below the category, as it is, and nothing  *)
(* else (categories_move_subtree), for a tree of any size.                 *)
(***************************************************************************)
THEOREM OthersAlwaysStay == CategorySpec => OthersStay
  <1>1. TreeInv /\ [CategoryNext]_tree =>
          [\E c \in CategoryId : \A d \in Rows \ {c} :
             /\ tree'[d].parent = tree[d].parent /\ tree'[d].at = tree[d].at
             /\ Last(tree'[d].path) = Last(tree[d].path)
             /\ tree'[d].path # tree[d].path =>
                  c \in Rows /\ Below(tree[d].path, tree[c].path)]_tree
    BY OthersStayStep DEF CategoryNext
  <1> QED BY <1>1, TreeInitInv, TreeNextInv, PTL DEF CategorySpec, OthersStay
=============================================================================

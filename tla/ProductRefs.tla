---------------------------- MODULE ProductRefs -----------------------------
(***************************************************************************)
(* What products refer to, and its deletion (src/internal/catalog          *)
(* products.go, brands.go, categories.go).  UpdateProduct checks that the  *)
(* brand and the categories a form sends are live, without a lock, and     *)
(* writes them some time later; ArchiveBrand and ArchiveCategory take      *)
(* theirs off the products they can see.                                   *)
(***************************************************************************)
EXTENDS Naturals

CONSTANTS
  Product,
  Brand, Category,  (* what a product may refer to                         *)
  Form              (* saves of products under way                         *)

ASSUME RefAssumption == Brand \cap Category = {}

VARIABLES
  live,             (* brands and categories that are not deleted          *)
  refs,             (* what each product refers to, as committed           *)
  forms,            (* saves                                               *)
  shed              (* history: <<product, ref>> taken off by a deletion   *)

refVars == <<live, refs, forms, shed>>

Ref == Brand \cup Category
NoForm == [at |-> "none"]

(* A form has checked what it sends, or has written it and holds the product's
   row; moved says that the product's version is no longer the one it read,
   bound that somebody waits for its commit, and gets it. *)
RefTypeOK ==
  /\ live \subseteq Ref
  /\ refs \in [Product -> SUBSET Ref]
  /\ forms \in [Form -> {NoForm}
       \cup [at : {"checked"}, product : Product, refs : SUBSET Ref, links : BOOLEAN,
             moved : BOOLEAN]
       \cup [at : {"written"}, product : Product, refs : SUBSET Ref, links : BOOLEAN,
             bound : BOOLEAN]]
  /\ shed \subseteq Product \X Ref

RefInit == /\ live = Ref
           /\ refs = [p \in Product |-> {}]
           /\ forms = [f \in Form |-> NoForm]
           /\ shed = {}
-----------------------------------------------------------------------------
(* Forms whose transaction has written product p. *)
Holding(p) == {f \in Form : forms[f].at = "written" /\ forms[f].product = p}

(* Mutation: what the form sends is not looked up. *)
CheckRefsNever(p, new, links) == TRUE

(* checkRefs: what the form sends of the two is live, a brand at most; what it
   does not send is as it was. *)
CheckRefs(p, new, links) ==
  /\ IF links THEN new \cap Category \subseteq live
     ELSE new \cap Category = refs[p] \cap Category
  /\ \/ new \cap Brand = refs[p] \cap Brand
     \/ new \cap Brand = {} \/ \E b \in live : new \cap Brand = {b}

(* UpdateProduct up to its UPDATE; links says that it sends categories.  A
   product that is yet to be created refers to nothing. *)
FormChecks(f, p, new, links) ==
  /\ forms[f] = NoForm
  /\ CheckRefs(p, new, links)
  /\ forms' = [forms EXCEPT ![f] = [at |-> "checked", product |-> p, refs |-> new,
                                    links |-> links, moved |-> FALSE]]
  /\ UNCHANGED <<live, refs, shed>>

(* Its UPDATE, at the version that was read, and its links, deleted and made
   anew when categories are sent at all. *)
FormWrites(f) ==
  LET p == forms[f].product IN
  /\ forms[f].at = "checked" /\ ~forms[f].moved
  /\ Holding(p) = {}
  /\ forms' = [forms EXCEPT ![f] = [at |-> "written", product |-> p, refs |-> forms[f].refs,
                                    links |-> forms[f].links, bound |-> FALSE]]
  /\ UNCHANGED <<live, refs, shed>>

(* The versions of products ps move on, for the forms that have read them. *)
Moved(ps) == [f \in Form |-> IF forms[f].at = "checked" /\ forms[f].product \in ps
                             THEN [forms[f] EXCEPT !.moved = TRUE] ELSE forms[f]]

FormCommits(f) ==
  /\ forms[f].at = "written"
  /\ refs' = [refs EXCEPT ![forms[f].product] = forms[f].refs]
  /\ forms' = [Moved({forms[f].product}) EXCEPT ![f] = NoForm]
  /\ UNCHANGED <<live, shed>>

(* A check, the version or the database refuses it. *)
FormFails(f) == /\ forms[f] # NoForm
                /\ forms[f].at = "written" => ~forms[f].bound
                /\ forms' = [forms EXCEPT ![f] = NoForm]
                /\ UNCHANGED <<live, refs, shed>>
-----------------------------------------------------------------------------
Carrying(r) == {p \in Product : r \in refs[p]}

(* Mutation: products keep their version when a deletion takes something off. *)
TakesOffQuietly(r, ps) ==
  /\ live' = live \ {r}
  /\ refs' = [p \in Product |-> IF p \in ps THEN refs[p] \ {r} ELSE refs[p]]
  /\ shed' = shed \cup {<<p, r>> : p \in ps}
  /\ forms' = forms

(* The rows a deletion finds, and their versions. *)
TakesOff(r, ps) ==
  /\ live' = live \ {r}
  /\ refs' = [p \in Product |-> IF p \in ps THEN refs[p] \ {r} ELSE refs[p]]
  /\ shed' = shed \cup {<<p, r>> : p \in ps}
  /\ forms' = Moved(ps)

(* ArchiveBrand: ClearProductBrand finds the products that carry it, waits for
   a form that has written one, and looks at it again. *)
ClearBrand(b) ==
  /\ \A p \in Carrying(b) : Holding(p) = {}
  /\ TakesOff(b, Carrying(b))

(* ArchiveCategory, on the links: the row of a link that a form has deleted,
   to make it anew, it waits for and then finds gone.  The new one it cannot
   see, and the product stays as the form commits it. *)
Relinking(c) == {p \in Carrying(c) : \E f \in Holding(p) : forms[f].links}

ClearCategory(c) ==
  /\ \A p \in Carrying(c) \ Relinking(c) : Holding(p) = {}
  /\ live' = live \ {c}
  /\ LET ps == Carrying(c) \ Relinking(c) IN
     /\ refs' = [p \in Product |-> IF p \in ps THEN refs[p] \ {c} ELSE refs[p]]
     /\ shed' = shed \cup {<<p, c>> : p \in ps}
     /\ forms' = [f \in Form |-> IF forms[f].at = "written" /\ forms[f].product \in Relinking(c)
                                 THEN [forms[f] EXCEPT !.bound = TRUE] ELSE Moved(ps)[f]]
-----------------------------------------------------------------------------
RefNext ==
  \/ \E f \in Form :
       \/ \E p \in Product, new \in SUBSET Ref, links \in BOOLEAN : FormChecks(f, p, new, links)
       \/ FormWrites(f) \/ FormCommits(f) \/ FormFails(f)
  \/ \E b \in Brand : ClearBrand(b)
  \/ \E c \in Category : ClearCategory(c)

RefSpec == RefInit /\ [][RefNext]_refVars
-----------------------------------------------------------------------------
(***************************************************************************)
(* Deleting a brand or a category bumps the version of the products it is  *)
(* taken off, so that "a product form still holding the brand gets 409     *)
(* instead of re-setting it" (brands.sql, categories.sql): no product gets *)
(* back what a deletion took off it, whatever forms were being saved.      *)
(***************************************************************************)
NeverPutBack == \A pr \in shed : pr[2] \notin refs[pr[1]]
=============================================================================

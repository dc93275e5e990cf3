----------------------------- MODULE MCCatalog ------------------------------
(***************************************************************************)
(* The parts of the catalog, and the blog, side by side.  They share no    *)
(* variable, so what one does tells nothing of another: a behaviour is     *)
(* about one of them, and the others rest where they began.                *)
(***************************************************************************)
EXTENDS Variants, Categories, ProductRefs, Media, Import, Blog

CONSTANTS e1, h1, h2, h3, p1, p2, b1, g1, f1, f2, w400, w800, k1, m1, m2, a1, a2, s1, s2

(* A product of one option, which a grid may give a second, and back. *)
Colour  == <<"Colour">>
Sizes   == <<"Colour", "Size">>
Names2  == {Colour, Sizes}
Black   == <<"Black">>
White   == <<"White">>
BlackS  == <<"Black", "S">>
Values3 == {Black, White, BlackS}
SKU1    == {"A1"}

(* A row of its own, one that may take another's SKU, either's successor. *)
Grids3 == {Black :> "A1" @@ White :> Omitted, White :> "A1", BlackS :> "A1"}

Editors1 == {e1}

(* Three categories and two names, one of which meets the other's second
   segment. *)
Categories3 == {h1, h2, h3}
Segments == [jackets   |-> <<"jackets", "jackets_1", "jackets_2">>,
             jackets_1 |-> <<"jackets_1", "jackets_1_1", "jackets_1_2">>]
Names == DOMAIN Segments
Chosen1 == {"sale"}

Products2 == {p1, p2}
Brands1   == {b1}
Shelves1  == {g1}
Forms2    == {f1, f2}

Sizes2     == {w400, w800}
Confirmer1 == {k1}
Makers2    == {m1, m2}

Posts2 == {a1, a2}
Saves2 == {s1, s2}

(* Rows of one title, of another, of none; SKUs and options met twice. *)
SKUs2 == {"A1", "B2"}
Shirt(sku, values) == [title |-> "Shirt", sku |-> sku, values |-> values]
Batches2 ==
  {<<Shirt("A1", Black), Shirt("B2", White), Shirt(Blank, Black), Shirt("B2", Black)>>,
   <<[title |-> Blank, sku |-> "A1", values |-> Black], Shirt("A1", White),
     Shirt("B2", Black), [title |-> "Cap", sku |-> Blank, values |-> Black]>>}
-----------------------------------------------------------------------------
VARIABLE about    (* the part a behaviour is about                         *)

catalogVars == <<about, variantVars, tree, refVars, mediaVars, importVars, blogVars>>

CatalogInit ==
  /\ about \in {"variants", "categories", "references", "media", "import", "blog"}
  /\ VariantInit /\ CategoryInit /\ RefInit /\ MediaInit /\ ImportInit /\ BlogInit
  /\ about # "variants" => product.names = Colour
  /\ about # "import" => /\ batch = CHOOSE b \in Batches : TRUE
                         /\ onConflict = "update" /\ held = [s \in ImportSKU |-> "free"]

CatalogNext ==
  /\ UNCHANGED about
  /\ \/ /\ about = "variants" /\ VariantNext
        /\ UNCHANGED <<tree, refVars, mediaVars, importVars, blogVars>>
     \/ /\ about = "categories" /\ CategoryNext
        /\ UNCHANGED <<variantVars, refVars, mediaVars, importVars, blogVars>>
     \/ /\ about = "references" /\ RefNext
        /\ UNCHANGED <<variantVars, tree, mediaVars, importVars, blogVars>>
     \/ /\ about = "media" /\ MediaNext
        /\ UNCHANGED <<variantVars, tree, refVars, importVars, blogVars>>
     \/ /\ about = "import" /\ ImportNext
        /\ UNCHANGED <<variantVars, tree, refVars, mediaVars, blogVars>>
     \/ /\ about = "blog" /\ BlogNext
        /\ UNCHANGED <<variantVars, tree, refVars, mediaVars, importVars>>

CatalogSpec == CatalogInit /\ [][CatalogNext]_catalogVars
=============================================================================

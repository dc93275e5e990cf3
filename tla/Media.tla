------------------------------- MODULE Media --------------------------------
(***************************************************************************)
(* Images of a product (src/internal/catalog media.go, src/internal/images *)
(* images.go): rows in the database and objects in the bucket, which no    *)
(* transaction spans.  An object's key is the hash of its content, so the  *)
(* same image uploaded again has the key of the one that was deleted; the  *)
(* module follows one key.                                                 *)
(***************************************************************************)
EXTENDS Naturals

CONSTANTS
  MaxImages,        (* rows the key ever has, one after another            *)
  Size,             (* Widths: a derivative of each                        *)
  Confirmer,        (* confirmations under way                             *)
  Maker             (* runs of the derivatives job under way               *)

ASSUME MediaAssumption == MaxImages \in Nat

VARIABLES
  original,         (* is the original in the bucket?                      *)
  derived,          (* the derivatives that are                            *)
  images,           (* rows of the key, by their order of birth            *)
  confirms,         (* confirmations                                       *)
  removes,          (* objects each deletion of a row has still to delete  *)
  makers,           (* runs of the job                                     *)
  slipped,          (* history: something failed half-way                  *)
  crossed           (* history: rows confirmed while an earlier row of the
                       key was still being cleaned up after                *)

mediaVars == <<original, derived, images, confirms, removes, makers, slipped, crossed>>

Image == 1..MaxImages
Original == "original"
Object == Size \cup {Original}

Free == [at |-> "free"]

MediaTypeOK ==
  /\ original \in BOOLEAN /\ slipped \in BOOLEAN
  /\ derived \subseteq Size /\ crossed \subseteq Image
  /\ images \in [Image -> [at : {"none", "there", "gone"}, made : BOOLEAN, queued : BOOLEAN]]
  /\ confirms \in [Confirmer -> {Free} \cup [at : {"seen"}, crossed : BOOLEAN]]
  /\ removes \in [Image -> SUBSET Object]
  /\ makers \in [Maker -> {Free} \cup [at : {"putting", "cleaning"}, image : Image, left : SUBSET Size]]

MediaInit ==
  /\ original = FALSE
  /\ derived = {}
  /\ images = [i \in Image |-> [at |-> "none", made |-> FALSE, queued |-> FALSE]]
  /\ confirms = [c \in Confirmer |-> Free]
  /\ removes = [i \in Image |-> {}]
  /\ makers = [m \in Maker |-> Free]
  /\ slipped = FALSE
  /\ crossed = {}
-----------------------------------------------------------------------------
There == {i \in Image : images[i].at = "there"}

(* Somebody is still to delete objects for a row that is gone. *)
Cleaning == \/ \E i \in Image : removes[i] # {}
            \/ \E m \in Maker : makers[m] # Free /\ images[makers[m].image].at = "gone"

(* The browser puts the image through its presigned link, at any time. *)
Upload == /\ original' = TRUE
          /\ UNCHANGED <<derived, images, confirms, removes, makers, slipped, crossed>>

(* ConfirmMedia: Head finds the object. *)
ConfirmSees(c) ==
  /\ confirms[c] = Free /\ original
  /\ confirms' = [confirms EXCEPT ![c] = [at |-> "seen", crossed |-> Cleaning]]
  /\ UNCHANGED <<original, derived, images, removes, makers, slipped, crossed>>

(* Its transaction, or a failure: a row that is there is the same image, else
   one is made and its job with it. *)
ConfirmCommits(c) ==
  /\ confirms[c].at = "seen"
  /\ confirms' = [confirms EXCEPT ![c] = Free]
  /\ \/ UNCHANGED <<images, crossed>>
     \/ \E i \in Image :
          /\ There = {} /\ images[i].at = "none" /\ \A j \in 1..(i - 1) : images[j].at = "gone"
          /\ images' = [images EXCEPT ![i].at = "there", ![i].queued = TRUE]
          /\ crossed' = IF confirms[c].crossed \/ Cleaning THEN crossed \cup {i} ELSE crossed
  /\ UNCHANGED <<original, derived, removes, makers, slipped>>

(* Mutation: the objects of an image are those of its row alone. *)
ObjectsForgotten(i) == {Original}

(* What DeleteMedia knows to delete: the row says which derivatives it has. *)
Objects(i) == IF images[i].made THEN Object ELSE {Original}

(* DeleteMedia's transaction; no other row of the product has the key. *)
DeleteRow(i) ==
  /\ i \in There
  /\ images' = [images EXCEPT ![i].at = "gone"]
  /\ removes' = [removes EXCEPT ![i] = Objects(i)]
  /\ confirms' = [c \in Confirmer |-> IF confirms[c] = Free THEN Free
                                      ELSE [confirms[c] EXCEPT !.crossed = TRUE]]
  /\ UNCHANGED <<original, derived, makers, slipped, crossed>>

Gone(o) == /\ original' = (original /\ o # Original)
           /\ derived' = derived \ {o}

(* After the commit: one object after another; a failure is logged, and a
   process that dies leaves the rest. *)
DeleteObject(i, o) ==
  /\ o \in removes[i] /\ (Original \in removes[i] => o = Original)
  /\ removes' = [removes EXCEPT ![i] = @ \ {o}]
  /\ \/ Gone(o) /\ UNCHANGED slipped
     \/ slipped' = TRUE /\ UNCHANGED <<original, derived>>
  /\ UNCHANGED <<images, confirms, makers, crossed>>

DeleteDies(i) == /\ removes[i] # {}
                 /\ removes' = [removes EXCEPT ![i] = {}]
                 /\ slipped' = TRUE
                 /\ UNCHANGED <<original, derived, images, confirms, makers, crossed>>
-----------------------------------------------------------------------------
Makes(m, rec) == makers' = [makers EXCEPT ![m] = rec]

Answered(m) == images' = [images EXCEPT ![makers[m].image].queued = FALSE]

(* Handler: the row is there and has no derivatives yet, and the original is
   read; the job may be under way with another worker, too. *)
MakeStarts(m, i) ==
  /\ makers[m] = Free /\ i \in There /\ images[i].queued
  /\ ~images[i].made /\ original
  /\ Makes(m, [at |-> "putting", image |-> i, left |-> Size])
  /\ UNCHANGED <<original, derived, images, confirms, removes, slipped, crossed>>

(* There is nothing to do, or no original to do it with. *)
MakeSkips(i) ==
  /\ images[i].queued /\ (i \in There => images[i].made \/ ~original)
  /\ images' = [images EXCEPT ![i].queued = FALSE]
  /\ UNCHANGED <<original, derived, confirms, removes, makers, slipped, crossed>>

MakePuts(m, s) ==
  /\ makers[m].at = "putting" /\ s \in makers[m].left
  /\ derived' = derived \cup {s}
  /\ Makes(m, [makers[m] EXCEPT !.left = @ \ {s}])
  /\ UNCHANGED <<original, images, confirms, removes, slipped, crossed>>

(* Mutation: the row is marked with a derivative still to be put. *)
MakeSetsEarly(m) ==
  LET i == makers[m].image IN
  /\ makers[m].at = "putting" /\ makers[m].left # Size
  /\ IF i \in There
     THEN /\ images' = [images EXCEPT ![i].made = TRUE, ![i].queued = FALSE]
          /\ Makes(m, Free)
     ELSE UNCHANGED images /\ Makes(m, [makers[m] EXCEPT !.at = "cleaning", !.left = Size])
  /\ UNCHANGED <<original, derived, confirms, removes, slipped, crossed>>

(* Mutation: derivatives of a row that is gone are left alone. *)
MakeSetsOnly(m) ==
  LET i == makers[m].image IN
  /\ makers[m].at = "putting" /\ makers[m].left = {}
  /\ images' = [images EXCEPT ![i].made = (i \in There), ![i].queued = FALSE]
  /\ Makes(m, Free)
  /\ UNCHANGED <<original, derived, confirms, removes, slipped, crossed>>

(* SetMediaDerivatives: it marks the row, or finds it deleted meanwhile, and
   then what was put is deleted again. *)
MakeSets(m) ==
  LET i == makers[m].image IN
  /\ makers[m].at = "putting" /\ makers[m].left = {}
  /\ IF i \in There
     THEN /\ images' = [images EXCEPT ![i].made = TRUE, ![i].queued = FALSE]
          /\ Makes(m, Free)
     ELSE UNCHANGED images /\ Makes(m, [makers[m] EXCEPT !.at = "cleaning", !.left = Size])
  /\ UNCHANGED <<original, derived, confirms, removes, slipped, crossed>>

MakeCleans(m) ==
  /\ makers[m].at = "cleaning"
  /\ \/ \E s \in makers[m].left :
          /\ Makes(m, [makers[m] EXCEPT !.left = @ \ {s}])
          /\ \/ derived' = derived \ {s} /\ UNCHANGED slipped
             \/ slipped' = TRUE /\ UNCHANGED derived
          /\ UNCHANGED images
     \/ /\ makers[m].left = {}
        /\ Makes(m, Free) /\ Answered(m)
        /\ UNCHANGED <<derived, slipped>>
  /\ UNCHANGED <<original, confirms, removes, crossed>>

(* A put or a transaction fails, which fails the job, or the worker dies,
   which leaves it for another. *)
MakeFails(m) == /\ makers[m] # Free
                /\ Makes(m, Free)
                /\ slipped' = TRUE
                /\ Answered(m) \/ UNCHANGED images
                /\ UNCHANGED <<original, derived, confirms, removes, crossed>>
-----------------------------------------------------------------------------
MakeNext(m) == \/ \E i \in Image : MakeStarts(m, i)
               \/ \E s \in Size : MakePuts(m, s)
               \/ MakeSets(m) \/ MakeCleans(m) \/ MakeFails(m)

MediaNext ==
  \/ Upload
  \/ \E c \in Confirmer : ConfirmSees(c) \/ ConfirmCommits(c)
  \/ \E i \in Image : DeleteRow(i) \/ DeleteDies(i) \/ MakeSkips(i)
                      \/ \E o \in Object : DeleteObject(i, o)
  \/ \E m \in Maker : MakeNext(m)

MediaSpec == MediaInit /\ [][MediaNext]_mediaVars
-----------------------------------------------------------------------------
(***************************************************************************)
(* The rows and the bucket agree.  What the shop links to is there: the    *)
(* original of every image and every derivative its row records, but for   *)
(* an image confirmed while an earlier one of the same key was being       *)
(* cleaned up after.  And nothing else stays ("deleted while resizing: its *)
(* delete could not see these", Handler): a deletion and the worker leave  *)
(* no derivative behind between them, unless one of them failed.           *)
(***************************************************************************)
BucketAgrees ==
  /\ \A i \in There \ crossed : original /\ (images[i].made => derived = Size)
  /\ derived # {} => There # {} \/ Cleaning \/ slipped
=============================================================================

-------------------------------- MODULE Blog --------------------------------
(***************************************************************************)
(* Blog posts (src/internal/blog posts.go): whether each is published, and *)
(* which one the shop features.  UpdatePost reads a post without a lock    *)
(* and writes the whole of it back: "posts have no version; the last save  *)
(* wins" (blog.sql.go).  What a post is about is left out.                 *)
(***************************************************************************)
CONSTANTS
  Post,             (* posts the shop ever has                             *)
  Save              (* creations and edits of posts under way              *)

VARIABLES
  posts,
  saves,
  revived           (* history: deleted posts written by a save that had
                       read them before                                    *)

blogVars == <<posts, saves, revived>>

NoPost == [at |-> "none", status |-> "draft", dated |-> FALSE, featured |-> FALSE]
NoSave == [at |-> "none"]

Status == {"draft", "published"}
PostRow == [at : {"none", "live", "archived"}, status : Status, dated : BOOLEAN,
            featured : BOOLEAN]

(* A save has read its post and knows the row it will write, or has also run
   ClearBlogFeatured, which saw the posts in cleared; since tells what others
   have done after it read. *)
SaveRow == [at : {"read", "cleared"}, post : Post, row : PostRow, clears : BOOLEAN,
            cleared : SUBSET Post, since : SUBSET {"deleted", "featured"}]

BlogTypeOK == /\ posts \in [Post -> PostRow]
              /\ saves \in [Save -> {NoSave} \cup SaveRow]
              /\ revived \subseteq Post

BlogInit == /\ posts = [p \in Post |-> NoPost]
            /\ saves = [s \in Save |-> NoSave]
            /\ revived = {}
-----------------------------------------------------------------------------
(* What a request sends of a post; "keep" is a field left out. *)
PostInput == [status : Status \cup {"keep"}, date : {"set", "null", "keep"},
              featured : {"yes", "no", "keep"}]

(* Mutation: publishing gives no date. *)
AppliesUndated(row, in, new) ==
  /\ new.status = IF in.status = "keep" THEN row.status ELSE in.status
  /\ in.date = "null" => new.status = "draft"
  /\ new.dated = IF in.date = "keep" THEN row.dated ELSE in.date = "set"
  /\ new.featured = (in.featured = "yes" \/ (in.featured = "keep" /\ row.featured))

(* apply: a published post has a date, now if it had none. *)
Applies(row, in, new) ==
  /\ new.status = IF in.status = "keep" THEN row.status ELSE in.status
  /\ in.date = "null" => new.status = "draft"
  /\ new.dated = (\/ in.date = "set" \/ new.status = "published"
                  \/ in.date = "keep" /\ row.dated)
  /\ new.featured = (in.featured = "yes" \/ (in.featured = "keep" /\ row.featured))

(* Mutation: a post that is being created takes the flag from none. *)
TakesFlagLater(row, new) == row.at = "live" /\ new.featured /\ ~row.featured

(* Does the save take the flag from the post that has it? *)
TakesFlag(row, new) == new.featured /\ ~row.featured

(* CreatePost or UpdatePost up to their writes; a post that was deleted cannot
   be edited. *)
SaveReads(s, p, in) ==
  /\ saves[s] = NoSave /\ posts[p].at # "archived"
  /\ posts[p].at = "none" => \A t \in Save : saves[t] # NoSave => saves[t].post # p
  /\ \E new \in PostRow :
       /\ new.at = "live" /\ Applies(posts[p], in, new)
       /\ saves' = [saves EXCEPT ![s] =
            [at |-> "read", post |-> p, row |-> new, clears |-> TakesFlag(posts[p], new),
             cleared |-> {}, since |-> {}]]
  /\ UNCHANGED <<posts, revived>>

(* ClearBlogFeatured sees what was committed when it begins, and then waits
   for whoever is writing what it saw. *)
SaveClears(s) ==
  /\ saves[s].at = "read" /\ saves[s].clears
  /\ saves' = [saves EXCEPT ![s].at = "cleared",
       ![s].cleared = {q \in Post : posts[q].featured /\ q # saves[s].post}]
  /\ UNCHANGED <<posts, revived>>

Ready(s) == \/ saves[s].at = "cleared"
            \/ saves[s].at = "read" /\ ~saves[s].clears

(* Other posts that would be featured beside the one save s writes. *)
Beside(s) == {q \in Post : q # saves[s].post /\ posts[q].featured /\ q \notin saves[s].cleared}

(* What the other saves are told: the flag has moved under them. *)
FlagMoved(s) == [t \in Save |->
  IF t # s /\ saves[t] # NoSave /\ saves[t].post # saves[s].post
     /\ saves[s].row.featured /\ ~posts[saves[s].post].featured
  THEN [saves[t] EXCEPT !.since = @ \cup {"featured"}]
  ELSE IF t = s THEN NoSave ELSE saves[t]]

(* UpdateBlogPost or CreateBlogPost, and the commit: every column but
   archived_at, as long as blog_posts_one_featured allows. *)
SaveCommits(s) ==
  LET p == saves[s].post IN
  /\ Ready(s)
  /\ saves[s].row.featured => Beside(s) = {}
  /\ posts' = [q \in Post |->
       IF q = p THEN [saves[s].row EXCEPT !.at = IF posts[p].at = "archived" THEN "archived" ELSE "live"]
       ELSE [posts[q] EXCEPT !.featured = @ /\ q \notin saves[s].cleared]]
  /\ saves' = FlagMoved(s)
  /\ revived' = IF "deleted" \in saves[s].since THEN revived \cup {p} ELSE revived

(* The index refuses the row, which is answered 500, or something else fails:
   nothing is written. *)
SaveFails(s) == /\ saves[s] # NoSave
                /\ saves' = [saves EXCEPT ![s] = NoSave]
                /\ UNCHANGED <<posts, revived>>

(* Mutation: a deleted post stays featured. *)
ArchiveKeepsFlag(p) ==
  /\ posts[p].at # "none"
  /\ posts' = [posts EXCEPT ![p].at = "archived"]
  /\ saves' = [s \in Save |-> IF saves[s] # NoSave /\ saves[s].post = p
                              THEN [saves[s] EXCEPT !.since = @ \cup {"deleted"}] ELSE saves[s]]
  /\ revived' = revived \ {p}

(* ArchivePost, at any time, again too. *)
ArchivePost(p) ==
  /\ posts[p].at # "none"
  /\ posts' = [posts EXCEPT ![p].at = "archived", ![p].featured = FALSE]
  /\ saves' = [s \in Save |-> IF saves[s] # NoSave /\ saves[s].post = p
                              THEN [saves[s] EXCEPT !.since = @ \cup {"deleted"}] ELSE saves[s]]
  /\ revived' = revived \ {p}
-----------------------------------------------------------------------------
SaveNext(s) == \/ \E p \in Post, in \in PostInput : SaveReads(s, p, in)
               \/ SaveClears(s) \/ SaveCommits(s) \/ SaveFails(s)

BlogNext == \/ \E s \in Save : SaveNext(s)
            \/ \E p \in Post : ArchivePost(p)

BlogSpec == BlogInit /\ [][BlogNext]_blogVars
-----------------------------------------------------------------------------
(***************************************************************************)
(* The featured post (BR-131).  blog_posts_one_featured refuses a save,    *)
(* which answers 500, only if another post was featured after it read:     *)
(* with nobody else at it, marking a post takes the flag from the one that *)
(* had it.  A deleted post has no flag, unless a save that had read it     *)
(* before wrote it back.  And the CHECK that a published post has a date   *)
(* never refuses what apply let through.                                   *)
(***************************************************************************)
FlagAgrees ==
  /\ \A s \in Save : saves[s] # NoSave /\ Ready(s) /\ saves[s].row.featured =>
       Beside(s) = {} \/ "featured" \in saves[s].since
  /\ \A p \in Post : posts[p].at = "archived" /\ posts[p].featured => p \in revived
  /\ \A p \in Post : posts[p].status = "published" => posts[p].dated
=============================================================================

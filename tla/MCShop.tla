------------------------------- MODULE MCShop -------------------------------
(***************************************************************************)
(* An order, and what surrounds the shop's own data, side by side: the     *)
(* cache of keys and slugs, the rate limits, the mails.  They share no     *)
(* variable, so a behaviour is about one of them and the others rest where *)
(* they began.                                                             *)
(***************************************************************************)
EXTENDS Orders, KeyCache, RateLimits, Mails

CONSTANTS o1, c1, a1, q1, q2, u1, u2, s1, s2, p1, p2, m1, m2, w1, w2

(* One order, since orders share nothing but a purge of their customer. *)
Orders1    == {o1}
Customers1 == {c1}
Replicas1  == {a1}
Requests2  == {q1, q2}
Origins2   == {u1, u2}
Shops2     == {s1, s2}
Processes2 == {p1, p2}
Mails2     == {m1, m2}
Workers2   == {w1, w2}
-----------------------------------------------------------------------------
VARIABLE about    (* the part a behaviour is about                         *)

shopVars == <<about, orderVars, keyVars, rateVars, mailVars>>

ShopInit ==
  /\ about \in {"orders", "keys", "limits", "mails"}
  /\ Init /\ KeyInit /\ RateInit /\ MailInit
  /\ about # "keys" => row = u1
  /\ about # "limits" => ahead = [p \in Process |-> 0]

ShopNext ==
  /\ UNCHANGED about
  /\ \/ about = "orders" /\ Next     /\ UNCHANGED <<keyVars, rateVars, mailVars>>
     \/ about = "keys"   /\ KeyNext  /\ UNCHANGED <<orderVars, rateVars, mailVars>>
     \/ about = "limits" /\ RateNext /\ UNCHANGED <<orderVars, keyVars, mailVars>>
     \/ about = "mails"  /\ MailNext /\ UNCHANGED <<orderVars, keyVars, rateVars>>

ShopSpec == ShopInit /\ [][ShopNext]_shopVars /\ MailFair
=============================================================================

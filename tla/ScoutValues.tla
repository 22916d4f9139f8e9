----------------------------- MODULE ScoutValues -----------------------------
(* The values the scout's readers tell apart: nothing at all, a day, a day no
   calendar has, a text by its length. *)
EXTENDS Integers

CONSTANTS
    Null,       \* absent, or unusable and taken for absent
    Unreal      \* a date no calendar has

IsRealDate(day) == day \in Nat

Texts == {"empty", "fits", "long"}

Given(text) == text # "empty"

(* Its length, as the database counts it, is one its column's CHECK takes. *)
Fits(text) == text = "fits"
=============================================================================

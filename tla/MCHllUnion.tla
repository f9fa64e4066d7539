------------------------------- MODULE MCHllUnion -------------------------------
(* Coupons that share registers at every size: four of them fill a set and *)
(* two fill a list.                                                        *)
EXTENDS HllUnion

MCCoupons == {<<0, 2>>, <<1, 1>>, <<2, 1>>, <<3, 3>>, <<6, 2>>, <<5, 3>>}
===============================================================================

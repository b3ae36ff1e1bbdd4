--------------------------- MODULE MCSiteConnection ---------------------------
(* Small instances of SiteConnection for TLC; the values are in the .cfg files. *)
EXTENDS SiteConnection, TLC

RequestSymmetry == Permutations(Requests)
=============================================================================

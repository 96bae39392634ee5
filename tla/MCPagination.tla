----------------------------- MODULE MCPagination -----------------------------
(* An instance of Pagination for TLC.                                        *)
EXTENDS Pagination, TLC

CONSTANTS a, b, c, d

AllListings == {"accounts", "transactions", "postings"}
Rows == {a, b, c, d}
Alike == Permutations(Rows)
===============================================================================

--------------------------- MODULE AccountColumns ---------------------------
(* The values of an account's columns, wherever it is stored                *)
(* (repositories/account.repository.ts).                                    *)

CONSTANTS
    Email,     \* addresses, already trimmed and lower-cased
    GoogleId,  \* Google subject identifiers
    None       \* SQL NULL, and the absence of a row

=============================================================================

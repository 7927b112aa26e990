---------------------------- MODULE MCValidation ----------------------------
(* A small instance of Validation. *)
EXTENDS Validation

CONSTANTS b1, b2, b3

\* Nginx accepts the first block alone, and neither the third nor the file.
Accepts == {{}, {b1}}

\* The plan's template handles the file together with the first block only, and
\* nothing together with the third.
TemplatesParse == {{}, {b1}, {b3}, {b1, b2}}
=============================================================================

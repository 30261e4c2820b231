----------------------------- MODULE MCRecords -----------------------------
(* A small instance of Records for TLC. *)
EXTENDS Records

\* Bytes are bits and integers have two.  The character 1 is a control character;
\* the second string is as long as its encoded length may be.
SmallStrings == {<< >>, <<0>>, <<0, 0, 0>>, <<0, 1>>}

\* A column of integers before, after and between columns of strings, or as key.
SmallSchemas ==
    {<<TypeString, TypeString>>, <<TypeInt, TypeString>>, <<TypeString, TypeInt, TypeString>>}

=============================================================================

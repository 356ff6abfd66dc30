------------------------------ MODULE MCMultipart ------------------------------
(* Two uploads of a file of the same name: one with a field before it, the  *)
(* contents of both with what might be the beginning of a delimiter.        *)
EXTENDS Multipart

Field == [name |-> "n", file |-> << >>, content |-> <<CR, LF, Dash, "x", CR>>]

File == [name |-> "m", file |-> <<"f">>, content |-> <<CR, CR, LF>>]

MCForms == <<{<<Field, File>>, <<File>>}, {<<File>>}>>

MCFileNames == {<<"f">>}

MCBytes == {CR, LF, Dash, Boundary, Quote, Semicolon, Disposition, Filename, Type, Plain,
            "n", "m", "f", "x"}

MCUploads == {1, 2}

MCChunks == <<{1, 5}, {7}>>
==============================================================================

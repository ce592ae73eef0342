------------------------------- MODULE MCSizes -------------------------------
(* HmcudaSizes for TLC.                                                      *)
EXTENDS HmcudaSizes

(* None, a namespace, an unnamed one.                                        *)
ScopesUsed == {<<>>, <<"space", "::">>, <<"(", "anonymous", ")", "::">>}

(* A type, a template of two types, an enumerator, a function type.          *)
ArgumentsUsed == {<<"int">>, <<"pair", "<", "int", ",", "int", ">">>,
                  <<"(", "Enum", ")", "1">>, <<"int", "(", "int", ",", "int", ")">>}

(* A number, an untyped pointer, a template, a pointer to a function.        *)
TypesUsed == {<<"int">>, <<"void*">>, <<"pair", "<", "int", ",", "int", ">">>,
              <<"void", "(", "*", ")", "(", "int", ",", "int", ")">>}
=============================================================================

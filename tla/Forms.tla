------------------------------- MODULE Forms -------------------------------
(* What one part of the program writes and another reads: the rows of a      *)
(* table, the definitions of the catalog, the addresses of requests, the     *)
(* tokens of a statement.                                                    *)
EXTENDS RowCodec

(* The definitions of catalog.h, over the same strings.                      *)
CONSTANTS Names, ColumnLists, Roots, DefSlot, MaxTableId, MaxRowid
VARIABLES definitions, by_name, next_id

Catalog == INSTANCE CatalogCodec WITH tree <- definitions, SlotSize <- DefSlot

(* The addresses of app.js and http.h, to tables of other names.             *)
CONSTANTS Slash, EscapedSlash, Api, Tables, Rows, Param, PathNames, Ids
CONSTANTS Schema, ExportJson, ExportMd, Query
VARIABLES request, outcome

Paths == INSTANCE Routes WITH Names <- PathNames

(* The texts that sql_lexer.h reads.                                         *)
CONSTANTS Letters, DigitChars, SpaceChars, Others, Upper, Keywords, TooLarge, MaxLen
VARIABLE typed

Text == INSTANCE SqlText WITH s <- typed, Digits <- DigitChars, Spaces <- SpaceChars

-----------------------------------------------------------------------------
(* Their properties; that of the rows has its name already.                  *)

\* The definitions read from the file are those in memory (catalog.h:29).
ReloadIsServed == Catalog!ReloadIsServed

\* A request of the web app reaches its handler (http.h:229).
RequestsReachTheirHandler == Paths!RequestsReachTheirHandler

\* Every token can be written and read back (sql_lexer.h:44).
ReadBack == Text!ReadBack
=============================================================================

------------------------------ MODULE MCMemFs ------------------------------
(* fs::init's seven files, the two files broom saves, a write over the    *)
(* /etc directory and one through the /README.txt file.  The broom        *)
(* searches for "waemom os" (launch_demo's query) and for a query with a *)
(* newline.  Only the broom writes its files.                             *)
EXTENDS MemFs

CONSTANTS Orig, D1, D2

MCInitFiles ==
  << [path |-> <<"README.txt">>,           data |-> Orig],
     [path |-> <<"etc", "motd">>,          data |-> Orig],
     [path |-> <<"bin", "hello">>,         data |-> Orig],
     [path |-> <<"waemon.lock">>,          data |-> Orig],
     [path |-> <<"www", "index.html">>,    data |-> Orig],
     [path |-> <<"www", "app.js">>,        data |-> Orig],
     [path |-> <<"www", "styles.css">>,    data |-> Orig] >>

MCPaths ==
  { <<>>, <<"README.txt">>, <<"README.txt", "x">>, <<"etc">>,
    <<"etc", "motd">>, <<"bin">>, <<"bin", "hello">>, <<"waemon.lock">>,
    <<"www">>, <<"www", "index.html">>, <<"www", "app.js">>,
    <<"www", "styles.css">>,
    <<"home">>, <<"home", "broom">>,
    <<"home", "broom", "history.txt">>, <<"home", "broom", "bookmarks.txt">> }

MCWritePaths ==
  { <<>>, <<"README.txt", "x">>, <<"etc">>, <<"etc", "motd">> }

MCDatas == {D1, D2}

MCQueries == { <<"safe", "space", "safe">>, <<"safe", "nl">> }
====

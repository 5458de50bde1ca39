------------------------------ MODULE MCQueries ------------------------------
(* Instances of Queries for TLC. *)
EXTENDS Queries

\* A feed like the seeds: its title and description have words, its URL a
\* path, and only its site and URL have dots.
SeedFeed ==
  [url |-> <<"https:", "/", "/", "www", ".", "x", ".", "x", "/">>, title |-> <<"X">>,
   site |-> <<"https:", "/", "/", "x">>, description |-> <<"X", " ", "x">>]

OtherFeed ==
  [SeedFeed EXCEPT !.url = <<"http:", "/", "/", "x", "/", "x">>, !.site = <<>>]

\* No feed, or two whose texts have much in common.
MCSeeds == {<<>>, <<SeedFeed, OtherFeed>>}

=============================================================================

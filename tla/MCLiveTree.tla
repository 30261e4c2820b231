----------------------------- MODULE MCLiveTree -----------------------------
(* Small instances of LiveTree for TLC. *)
EXTENDS LiveTree

\* Comments refer to posts, which need not be there, and have the same keys.
BlogColumns == [posts |-> {"id", "title"}, comments |-> {"id", "post", "body"}]
BlogRefs == [posts |-> << >>, comments |-> [post |-> "posts"]]
BlogRecords == [posts |-> [id : {1, 2}, title : {7}],
                comments |-> [id : {1, 2}, post : {1, 2}, body : {7}]]
BlogSettable == [posts |-> [title |-> {8}], comments |-> [body |-> {8}]]

Select(many, table, where, sub) == [many |-> many, table |-> table, where |-> where, sub |-> sub]
Leaf(many, table) == Select(many, table, << >>, << >>)

\* many posts { comments: many comments }.
PostsWithComments == Select(TRUE, "posts", << >>, [comments |-> Leaf(TRUE, "comments")])

\* many comments { on: one posts }, many comments where post = 1,
\* many posts where id = 1 { comments: many comments },
\* many posts with its comments twice.
BlogQueries ==
    {PostsWithComments,
     Select(TRUE, "comments", << >>, [on |-> Leaf(FALSE, "posts")]),
     Select(TRUE, "comments", <<"post", 1>>, << >>),
     Select(TRUE, "posts", <<"id", 1>>, [comments |-> Leaf(TRUE, "comments")]),
     Select(TRUE, "posts", << >>, [a |-> Leaf(TRUE, "comments"), b |-> Leaf(TRUE, "comments")])}

\* One post and one comment, with keys of their own: an update of one of them that
\* reaches a wrong place finds no record there.
PlainQueries == {PostsWithComments}
PlainRecords == [posts |-> [id : {1}, title : {7}],
                 comments |-> [id : {3, 4}, post : {1}, body : {7}]]

=============================================================================

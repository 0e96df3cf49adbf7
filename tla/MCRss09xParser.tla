--------------------------- MODULE MCRss09xParser ---------------------------
(***************************************************************************)
(* Instances of Rss09xParser for TLC.                                      *)
(***************************************************************************)
EXTENDS Rss09xParser

\* A node whose text is the same serialised.
Shape(name, uri, content) ==
    [name |-> name, ns |-> uri, attrs |-> <<>>, content |-> content,
     markup |-> content, kids |-> FALSE, sub |-> <<>>]

WithAttrs(shape, attrs) == [shape EXCEPT !.attrs = attrs]

Attr(name, value) == [name |-> name, ns |-> "none", value |-> value]

Url  == Attr("url", "u")
Type == Attr("type", "t")

\* Elements that compete for a member of the item, with their variants.
DateShapes ==
    {Shape(name[1], name[2], text) : text \in {"date", "no date", ""},
        name \in {<<"pubDate", "none">>, <<"date", "DC_URI">>, <<"date", "none">>}}

AuthorShapes ==
    {Shape("author", "none", text) :
        text \in {"", "name", "mail (name)", "mail name)", " mail (a) (b)", "mail ()",
                  "(name)", " )", ")"}}
    \cup {Shape("creator", "DC_URI", text) : text \in {"", "name"}}
    \cup {Shape("author", "ITUNES_URI", "name")}

MediaContents ==
    {WithAttrs(Shape("content", "MEDIA_RSS_URI", ""), attrs) :
        attrs \in {<<Url, Type>>, <<Url>>}}

EnclosureShapes ==
    MediaContents
    \cup {WithAttrs(Shape("enclosure", "none", ""), attrs) :
            attrs \in {<<Url, Type>>, <<Type>>}}
    \cup {[Shape("group", "MEDIA_RSS_URI", "") EXCEPT !.sub = s] :
            s \in {<<>>, <<Shape("title", "MEDIA_RSS_URI", "text")>>}
                  \cup {<<a, b>> : a, b \in MediaContents}}

GuidShapes ==
    {WithAttrs(Shape("guid", "none", text), attrs) : text \in {"", "text"},
        attrs \in {<<>>, <<Attr("isPermaLink", "true")>>,
                   <<Attr("isPermaLink", "false")>>}}

PlainShapes ==
    {Shape(name, "none", "text") : name \in {"title", "link", "description"}}
    \cup {Shape("encoded", "CONTENT_URI", "text"), Shape("summary", "ITUNES_URI", "text"),
          [Shape("description", "none", "has <") EXCEPT !.kids = TRUE, !.markup = "markup"]}

\* The same names in a namespace nobody asks for.
ForeignShapes ==
    {Shape(name, "other", "text") : name \in {"title", "link", "guid", "description"}}

CrossItemShapes ==
    {Shape("pubDate", "none", "date"), Shape("date", "DC_URI", "date"),
     Shape("author", "none", "name"), Shape("creator", "DC_URI", "name"),
     Shape("guid", "none", "text"), Shape("title", "other", "text")}

AllChannelShapes ==
    {Shape(name, "none", "text") : name \in ChannelNames}
    \cup {Shape("title", "other", "text")}

\* Shapes in the Userland namespace, for documents that use it throughout.
Userland(shapes) ==
    {IF s.ns = "none" THEN [s EXCEPT !.ns = "RSS20USERLAND_URI"] ELSE s : s \in shapes}

AllItemShapes ==
    DateShapes \cup AuthorShapes \cup EnclosureShapes \cup GuidShapes
        \cup PlainShapes \cup ForeignShapes \cup Userland(CrossItemShapes)

BothNamespaces == {"none", "other", "RSS20USERLAND_URI"}
=============================================================================

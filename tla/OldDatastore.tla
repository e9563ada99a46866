----------------------------- MODULE OldDatastore -----------------------------
(* The objects of an old datastore, with the old fields that are given in turn: a text watch, *)
(* a restock watch, the settings and a group; and the versions a start may find.              *)
EXTENDS Naturals, Sequences

OldWatch == [minutes |-> "5", interval |-> "none", inline |-> TRUE, index |-> FALSE, dir |-> TRUE, last_changed |-> TRUE,
             body |-> "{}", title |-> "none", css_filter |-> "/", include_filters |-> << >>, fetch_backend |-> "none",
             tag |-> {}, tags |-> {"as text"}, created |-> 0, use_default |-> FALSE, in_stock |-> "none",
             restock |-> [in_stock |-> "none", price |-> 0, last_price |-> 0, original_price |-> 0],
             in_stock_only |-> FALSE, restock_settings |-> "none", elements |-> "json", extract_title |-> TRUE,
             use_page_title |-> FALSE, format |-> "Plain text", processor |-> "text_json_diff", history |-> << >>]

OldApp == [minutes |-> "none", interval |-> "3h", body |-> "{}", title |-> "{}", headers |-> {"Accept", "X-Own"},
        extract_title |-> TRUE, use_page_title |-> FALSE, timezone |-> "UTC", scheduler_timezone |-> "none",
        format |-> "Text", rss_format |-> "html", llm_flat |-> "on", llm |-> "none", per_check |-> "9",
        cumulative |-> "7", per_period |-> "none"]

OldShops == {[OldWatch EXCEPT !.processor = "restock_diff", !.tag = tag, !.in_stock = IF only THEN "yes" ELSE "none", !.in_stock_only = only,
                           !.restock_settings = settings, !.history = history, !.css_filter = "none",
                           !.include_filters = <<"xpath:", "xpath1:">>, !.restock.original_price = 3] :
            tag \in {{}, {"news"}}, only \in BOOLEAN, settings \in {"in_stock_only", "all_changes"},
            history \in {<< >>, <<1>>, <<1, 2>>, <<0, 2>>}}

OldTag == [restock_settings |-> "all_changes", config |-> "none", format |-> "Markdown"]

OldOriginals(old, shop, tags) ==
  {[watch |-> [w \in {old, shop} |-> IF w = old THEN OldWatch ELSE s], app |-> OldApp,
    tag |-> [t \in tags |-> OldTag]] : s \in OldShops}
OldStarts == {<<"legacy", 0>>, <<"legacy", 25>>, <<"split", 26>>, <<"split", 29>>, <<"split", 32>>}
==============================================================================

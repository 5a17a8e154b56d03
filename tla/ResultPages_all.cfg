SPECIFICATION ReadSpec
CONSTANTS
  Tools = {"cargo-query", "bucket-query", "smw-query", "smw-list-properties", "wikibase-query", "get-links-here", "get-category-members", "get-recent-changes", "get-page-history", "get-pages", "get-page", "wikibase-get-entity", "search-page", "search-page-by-prefix", "wikibase-search-entities", "get-file-content"}
  ListsOf <- MCListsOf
  Limits = {1, 2}
  Titles <- MCTitles
  Aliases <- MCAliases
  FirstAdded = 10
  MaxAdds = 1
  MaxRows = 3
  Budget = 4
  MAX_PROPERTIES = 2
  MAX_VALUES_PER_PROPERTY = 2
INVARIANT NothingIsLost
INVARIANT EveryCapIsNamed
PROPERTY ReadingEnds

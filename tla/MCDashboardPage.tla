-------------------------- MODULE MCDashboardPage --------------------------
(* A small instance: views that begin empty, are filled, and change so     *)
(* that a market launches and a region outside Poland leads.               *)
EXTENDS DashboardPage

Market(country, lockers, pudo) ==
    [country |-> country, n_lockers |-> lockers, n_pudo |-> pudo, n_total |-> lockers + pudo]

Region(country, population, density) ==
    [country |-> country, population |-> population, lockers_per_10k |-> density]

MCCountriesAt(g) ==
    CASE g = 0 -> {}
      [] g = 1 -> {Market("PL", 900, 300), Market("DE", 2, 500), Market("SE", 0, 0),
                   Market("HU", 0, 0)}
      [] g = 2 -> {Market("PL", 800, 300), Market("DE", 3, 500), Market("SE", 5, 1)}

MCNuts2At(g) ==
    CASE g = 0 -> {}
      [] g = 1 -> {Region("PL", 20, 9), Region("PL", 30, 5), Region("FR", 10, 4),
                   Region("FR", 5, 6), Region("IT", 9, NoDensity)}
      [] g = 2 -> {Region("PL", 20, 3), Region("FR", 10, 8), Region("IT", 9, 0)}

MCGminyAt(g) == IF g = 0 THEN {} ELSE {"gmina"}

Point(country, date, n) == [country |-> country, date |-> date, n_lockers |-> n]

MCVelocityPoints == <<Point("PL", 2, 20), Point("PL", 1, 10), Point("PL", 3, 25),
                      Point("FR", 2, 0), Point("FR", 3, 4), Point("GB", 3, 8),
                      Point("AT", 3, 2)>>

=============================================================================

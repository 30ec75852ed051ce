---------------------------- MODULE MCGminyTable ----------------------------
(* Nine gminy in two voivodeships, two of them in none, one with no        *)
(* density; names and voivodeships as their places in the alphabet.        *)
EXTENDS GminyTable

Gmina(name, voivodeship, n, population, density) ==
    [name |-> name, voivodeship |-> voivodeship, n_lockers |-> n,
     population |-> population, lockers_per_10k |-> density]

MCRows == <<Gmina(5, 1, 9, 3, 30), Gmina(2, NoVoivodeship, 6, 2, 30),
            Gmina(7, 2, 8, 4, 20), Gmina(1, 1, 2, 1, 20), Gmina(8, 2, 8, 8, 10),
            Gmina(3, 2, 1, 2, 5), Gmina(6, 1, 1, 4, 3), Gmina(9, 1, 0, 3, 0),
            Gmina(4, NoVoivodeship, 0, 0, NoDensity)>>

MCContains(name, needle) == needle = "odd" /\ name % 2 = 1

=============================================================================
